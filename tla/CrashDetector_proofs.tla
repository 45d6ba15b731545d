------------------------ MODULE CrashDetector_proofs ------------------------
(***************************************************************************)
(* What TLAPS proves of CrashDetector for every window, page, limit, log   *)
(* and number of boots: the types, with the bound on active holds; that    *)
(* held evidence stays; that the events of one crash make one case; and    *)
(* that no crash is missed while the boots are apart.                      *)
(***************************************************************************)
EXTENDS CrashDetector, FiniteSetTheorems, SequenceTheorems, WellFoundedInduction, TLAPS

-----------------------------------------------------------------------------
(* Orders on finite sets.  An order is a set of pairs: <<x, y>> is in it   *)
(* when x does not come after y.                                           *)

Preorders(S, R) ==
  /\ \A x, y \in S : <<x, y>> \in R \/ <<y, x>> \in R
  /\ \A x, y, z \in S : <<x, y>> \in R /\ <<y, z>> \in R => <<x, z>> \in R

Orders(S, R) ==
  /\ Preorders(S, R)
  /\ \A x, y \in S : <<x, y>> \in R /\ <<y, x>> \in R => x = y

UpTo(S, R, x) == {y \in S : <<y, x>> \in R}

\* A family of subsets of a finite set has a smallest one.
LEMMA SmallestMember ==
  ASSUME NEW S, IsFiniteSet(S), NEW F, F \subseteq SUBSET S, F # {}
  PROVE  \E T \in F : \A U \in F : ~(U \subseteq T /\ U # T)
<1>1. F \subseteq FiniteSubsetsOf(S)
  BY FS_FiniteSubsetsOfFinite, Zenon
<1>2. IsWellFoundedOn(StrictSubsetOrdering(S), FiniteSubsetsOf(S))
  BY FS_StrictSubsetOrderingWellFounded
<1>3. PICK T \in F : \A U \in F : <<U, T>> \notin StrictSubsetOrdering(S)
  BY <1>1, <1>2, WFMin
<1>4. ASSUME NEW U \in F, U \subseteq T, U # T
      PROVE  FALSE
  <2>1. U \in SUBSET S /\ T \in SUBSET S
    OBVIOUS
  <2>2. <<U, T>> \in StrictSubsetOrdering(S)
    BY <1>4, <2>1 DEF StrictSubsetOrdering
  <2>3. QED
    BY <1>3, <2>2
<1>5. QED
  BY <1>4

LEMMA LastOfOrder ==
  ASSUME NEW S, IsFiniteSet(S), S # {}, NEW R, Preorders(S, R)
  PROVE  \E m \in S : \A x \in S : <<x, m>> \in R
<1> DEFINE From(x) == {y \in S : <<x, y>> \in R}
           tails == {From(x) : x \in S}
<1>1. tails \subseteq SUBSET S /\ tails # {}
  OBVIOUS
<1>2. PICK T \in tails : \A U \in tails : ~(U \subseteq T /\ U # T)
  <2> HIDE DEF tails
  <2> QED
    BY <1>1, SmallestMember
<1>3. PICK m \in S : T = From(m)
  BY <1>2
<1>4. ASSUME NEW x \in S, <<x, m>> \notin R
      PROVE  FALSE
  <2>1. <<m, x>> \in R /\ <<m, m>> \in R
    BY <1>4 DEF Preorders
  <2>2. From(x) \subseteq From(m)
    BY <2>1 DEF Preorders
  <2>3. m \in From(m) /\ m \notin From(x)
    BY <1>4, <2>1
  <2>4. QED
    BY <1>2, <1>3, <2>2, <2>3
<1>5. QED
  BY <1>4

\* For each n up to their number, one element comes n-th.
LEMMA NthOfOrder ==
  ASSUME NEW S, IsFiniteSet(S), NEW R, Orders(S, R), NEW n \in 1 .. Cardinality(S)
  PROVE  \E m \in S : Cardinality(UpTo(S, R, m)) = n
<1> DEFINE late == {UpTo(S, R, x) : x \in {x \in S : n <= Cardinality(UpTo(S, R, x))}}
<1>0. Cardinality(S) \in Nat /\ Preorders(S, R) /\ \A x \in S : UpTo(S, R, x) \in SUBSET S
  BY FS_CardinalityType DEF Orders, UpTo
<1>1. \A x \in S : IsFiniteSet(UpTo(S, R, x)) /\ Cardinality(UpTo(S, R, x)) \in Nat
  BY <1>0, FS_Subset, FS_CardinalityType
<1>2. late # {}
  <2>1. S # {}
    BY FS_EmptySet
  <2>2. PICK z \in S : \A x \in S : <<x, z>> \in R
    BY <1>0, <2>1, LastOfOrder
  <2>3. UpTo(S, R, z) = S
    BY <2>2 DEF UpTo
  <2>4. n <= Cardinality(UpTo(S, R, z))
    BY <2>3
  <2>5. QED
    BY <2>4
<1>3. late \subseteq SUBSET S
  BY <1>0
<1>4. PICK T \in late : \A U \in late : ~(U \subseteq T /\ U # T)
  <2> HIDE DEF late
  <2> QED
    BY <1>2, <1>3, SmallestMember
<1>5. PICK m \in S : T = UpTo(S, R, m) /\ n <= Cardinality(UpTo(S, R, m))
  BY <1>4
<1> DEFINE earlier == T \ {m}
<1>6. m \in T /\ IsFiniteSet(earlier) /\ Cardinality(earlier) \in Nat
      /\ Cardinality(T) = Cardinality(earlier) + 1
  <2>1. m \in T
    BY <1>0, <1>5 DEF Preorders, UpTo
  <2>2. IsFiniteSet(T) /\ Cardinality(T) \in Nat
    BY <1>1, <1>5
  <2>3. IsFiniteSet(earlier) /\ Cardinality(earlier) = Cardinality(T) - 1
    BY <2>1, <2>2, FS_RemoveElement
  <2>4. Cardinality(earlier) \in Nat
    BY <2>3, FS_CardinalityType
  <2>5. QED
    BY <2>1, <2>2, <2>3, <2>4
<1>7. Cardinality(earlier) < n
  <2>1. CASE earlier = {}
    BY <2>1, FS_EmptySet
  <2>2. CASE earlier # {}
    <3>1. Preorders(earlier, R)
      BY <1>0, <1>5 DEF Preorders, UpTo
    <3>2. PICK z \in earlier : \A x \in earlier : <<x, z>> \in R
      BY <1>6, <2>2, <3>1, LastOfOrder
    <3>3. z \in S /\ <<z, m>> \in R /\ z # m
      BY <1>5 DEF UpTo
    <3>4. <<m, z>> \notin R
      BY <3>3 DEF Orders
    <3>5. UpTo(S, R, z) = earlier
      BY <1>0, <1>5, <3>2, <3>3, <3>4 DEF UpTo, Preorders
    <3>6. UpTo(S, R, z) \subseteq T /\ UpTo(S, R, z) # T
      BY <1>6, <3>5
    <3>7. ~(n <= Cardinality(UpTo(S, R, z)))
      BY <1>4, <3>3, <3>6
    <3>8. QED
      BY <1>6, <3>5, <3>7
  <2>3. QED
    BY <2>1, <2>2
<1>8. QED
  BY <1>5, <1>6, <1>7

\* Only as many elements have few before them.
LEMMA FewBefore ==
  ASSUME NEW S, IsFiniteSet(S), NEW R, Orders(S, R), NEW n \in Nat, NEW K \in SUBSET S,
         \A j \in K : Cardinality({i \in S : <<i, j>> \in R /\ i # j}) < n
  PROVE  Cardinality(K) <= n
<1>1. IsFiniteSet(K)
  BY FS_Subset
<1>2. CASE K = {}
  BY <1>2, FS_EmptySet
<1>3. CASE K # {}
  <2>1. Preorders(K, R)
    BY DEF Orders, Preorders
  <2>2. PICK z \in K : \A x \in K : <<x, z>> \in R
    BY <1>1, <1>3, <2>1, LastOfOrder
  <2> DEFINE before == {i \in S : <<i, z>> \in R /\ i # z}
  <2>3. before \in SUBSET S /\ K \ {z} \in SUBSET before
    BY <2>2
  <2>4. IsFiniteSet(before) /\ Cardinality(before) \in Nat
    BY <2>3, FS_Subset, FS_CardinalityType
  <2>5. Cardinality(K \ {z}) <= Cardinality(before)
    BY <2>3, <2>4, FS_Subset
  <2>6. Cardinality(K \ {z}) = Cardinality(K) - 1 /\ Cardinality(K) \in Nat
    BY <1>1, FS_RemoveElement, FS_CardinalityType
  <2>7. Cardinality(before) < n
    OBVIOUS
  <2>8. QED
    <3> HIDE DEF before
    <3> QED
      BY <2>4, <2>5, <2>6, <2>7
<1>4. QED
  BY <1>2, <1>3

LEMMA LeastNatural ==
  ASSUME NEW S, S \subseteq Nat, S # {}
  PROVE  \E m \in S : \A n \in S : m <= n
<1>1. PICK m \in S : \A n \in S : <<n, m>> \notin OpToRel(<, Nat)
  BY NatLessThanWellFounded, WFMin
<1>2. \A n \in S : ~(n < m)
  BY <1>1 DEF OpToRel
<1>3. QED
  BY <1>2

-----------------------------------------------------------------------------
(* What the events of a context amount to.                                 *)

Reboots == {"session", "boot"} \X Nat

EventRow ==
  [id : Nat, at : Time, kind : Crashed \cup {"Boot", "Shutdown"}, prev : Time \cup {None},
   boot : Nat]

SessionRow == [boot : Nat, at : Time, start : Time, end : Time \cup {None}]

\* A context the detector may make.
Readable(c) ==
  /\ c.events \subseteq EventRow /\ IsFiniteSet(c.events)
  /\ c.sessions \subseteq SessionRow /\ c.marks \subseteq Nat

Crash == [key : {None} \cup Reboots, rank : {2, 3}, anchor : Time, quality : {1, 2, 3}]

LEMMA TimesAreFinite ==
  ASSUME load.time \in Nat, NEW S, S \subseteq Time
  PROVE  IsFiniteSet(S)
<1>1. IsFiniteSet(0 .. load.time)
  BY FS_Interval, SMT
<1>2. S \in SUBSET (0 .. load.time)
  BY DEF Time
<1>3. QED
  BY <1>1, <1>2, FS_Subset, Zenon

LEMMA AroundIsAmong ==
  ASSUME NEW S, NEW e, NEW t, NEW w
  PROVE  /\ LastUpTo(S, t, w) \subseteq S /\ FirstAfter(S, t, w) \subseteq S
         /\ Closest(S, t) \subseteq S /\ Around(S, e, w) \subseteq S
<1>1. \A T, u : LastUpTo(T, u, w) \subseteq T /\ FirstAfter(T, u, w) \subseteq T
                /\ Closest(T, u) \subseteq T
  BY Zenon DEF LastUpTo, FirstAfter, Closest
<1>2. Around(S, e, w) \subseteq LastUpTo(S, e.at, w) \union FirstAfter(S, e.at, w)
  BY <1>1, Zenon DEF Around
<1>3. QED
  BY <1>1, <1>2, Zenon

LEMMA EpisodeTypes ==
  ASSUME NEW c, Readable(c), NEW e
  PROVE  Episode(c, e).key \subseteq Reboots /\ Episode(c, e).at \subseteq Time
<1> DEFINE logged == BootOf(c.events, e)
           session == SessionOf(c, Around(c.sessions, e, Correlation), logged)
           boot == BootEventOf(c, logged, session)
<1>1. logged \subseteq c.events
  <2> DEFINE boots1 == Boots(c.events)
             near == LastUpTo(boots1, e.at, BootMatch) \cup FirstAfter(boots1, e.at, BootMatch)
  <2>1. boots1 \subseteq c.events
    BY DEF Boots
  <2>2. near \subseteq boots1 /\ Closest(near, e.at) \subseteq near
        /\ Around(boots1, e, Correlation) \subseteq boots1
    BY AroundIsAmong, Zenon
  <2>3. logged = Closest(near, e.at) \/ logged = Around(boots1, e, Correlation)
    BY DEF BootOf
  <2> HIDE DEF near, boots1, logged
  <2>4. QED
    BY <2>1, <2>2, <2>3, Zenon
<1>2. session \subseteq c.sessions
  <2>1. Around(c.sessions, e, Correlation) \subseteq c.sessions
    BY AroundIsAmong, Zenon
  <2>2. \A t : SessionNear(c.sessions, t) \subseteq c.sessions
    BY DEF SessionNear
  <2>3. QED
    BY <2>1, <2>2 DEF SessionOf
<1>3. boot \subseteq c.events
  <2>1. \A t : Closest({b \in Boots(c.events) : Within(b.at, t, BootMatch)}, t) \subseteq c.events
    <3> TAKE t
    <3> DEFINE nearby == {b \in Boots(c.events) : Within(b.at, t, BootMatch)}
    <3>1. nearby \subseteq c.events
      BY DEF Boots
    <3>2. Closest(nearby, t) \subseteq nearby
      BY AroundIsAmong, Zenon
    <3>3. QED
      BY <3>1, <3>2
  <2>2. QED
    BY <1>1, <2>1 DEF BootEventOf
<1>4. Episode(c, e) = EpisodeOf(session, boot)
  BY DEF Episode, EpisodeFrom
<1> HIDE DEF logged, session, boot
<1>5. session \subseteq SessionRow /\ boot \subseteq EventRow
  BY <1>2, <1>3 DEF Readable
<1>6. /\ \A s \in session : s.boot \in Nat /\ s.at \in Time
      /\ \A b \in boot : b.id \in Nat /\ b.at \in Time
  BY <1>5 DEF SessionRow, EventRow
<1>7. QED
  BY <1>4, <1>6 DEF EpisodeOf, Reboots

LEMMA NearestIsOne ==
  ASSUME load.time \in Nat, NEW told, told \subseteq Time, told # {}, NEW at \in Nat
  PROVE  (CHOOSE t \in told : \A u \in told : Distance(t, at) <= Distance(u, at)) \in told
<1> DEFINE closer == {p \in told \X told : Distance(p[2], at) <= Distance(p[1], at)}
<1>1. \A t \in told : Distance(t, at) \in Nat
  <2>1. \A t \in told : t \in Nat
    BY DEF Time
  <2>2. QED
    BY <2>1 DEF Distance
<1>2. Preorders(told, closer)
  BY <1>1 DEF Preorders
<1>3. IsFiniteSet(told)
  BY TimesAreFinite
<1>4. PICK t \in told : \A u \in told : <<u, t>> \in closer
  <2> HIDE DEF closer
  <2> QED
    BY <1>2, <1>3, LastOfOrder
<1>5. \E x \in told : \A u \in told : Distance(x, at) <= Distance(u, at)
  BY <1>4
<1>6. QED
  BY <1>5, Zenon

LEMMA LatestIsOne ==
  ASSUME load.time \in Nat, NEW seen, seen \subseteq Time, seen # {}
  PROVE  (CHOOSE t \in seen : \A u \in seen : u <= t) \in seen
<1> DEFINE earlier == {p \in seen \X seen : p[1] <= p[2]}
<1>1. Preorders(seen, earlier)
  <2>1. \A t \in seen : t \in Nat
    BY DEF Time
  <2>2. QED
    BY <2>1 DEF Preorders
<1>2. IsFiniteSet(seen)
  BY TimesAreFinite
<1>3. PICK t \in seen : \A u \in seen : <<u, t>> \in earlier
  <2> HIDE DEF earlier
  <2> QED
    BY <1>1, <1>2, LastOfOrder
<1>4. \E x \in seen : \A u \in seen : u <= x
  BY <1>3
<1>5. QED
  BY <1>4, Zenon

\* When the machine stopped is taken from the event, from what another event
\* of the same reboot says, from an observation, or from the reboot.
LEMMA AnchorIsOneOf ==
  ASSUME load.time \in Nat, NEW c, Readable(c), NEW e \in EventRow,
         NEW episode, episode.at \subseteq Time,
         NEW a \in Anchors(e, episode, Told(c, episode), LastSeen(c, e, episode))
  PROVE  \E q \in {1, 2, 3} :
           /\ a = [at |-> a.at, quality |-> q] /\ a.at \in Time
           /\ \/ Physical(e) /\ a.at = e.prev
              \/ episode.key # {} /\ a.at \in Told(c, episode)
              \/ episode.at # {} /\ a.at \in LastSeen(c, e, episode)
              \/ a.at \in episode.at
<1> DEFINE told == Told(c, episode)
           seen == LastSeen(c, e, episode)
<1>1. Time \subseteq Nat /\ e.at \in Time
  BY DEF Time, EventRow
<1>2. told \subseteq Time
  BY DEF Told, Physical, Readable, EventRow
<1>3. ASSUME episode.at # {}
      PROVE  seen \subseteq Time
  <2>1. PICK b \in episode.at : TRUE
    BY <1>3
  <2>2. \A m \in seen : m \in Nat /\ m < b
    BY <2>1 DEF LastSeen, Readable
  <2>3. QED
    BY <1>1, <2>1, <2>2 DEF Time
<1>4. Physical(e) => e.prev \in Time
  BY DEF Physical, EventRow
<1> HIDE DEF told, seen
<1>5. CASE Physical(e)
  <2>1. a = [at |-> e.prev, quality |-> 3]
    BY <1>5 DEF Anchors
  <2>2. QED
    BY <1>4, <1>5, <2>1
<1>6. CASE ~Physical(e) /\ episode.key # {} /\ told # {}
  <2> DEFINE nearest == CHOOSE t \in told : \A u \in told : Distance(t, e.at) <= Distance(u, e.at)
  <2>1. a = [at |-> nearest, quality |-> 3]
    BY <1>6 DEF Anchors, told, seen
  <2>2. nearest \in told
    BY <1>1, <1>2, <1>6, NearestIsOne
  <2> HIDE DEF nearest
  <2>3. QED
    BY <1>2, <1>6, <2>1, <2>2 DEF told
<1>7. CASE ~Physical(e) /\ ~(episode.key # {} /\ told # {}) /\ episode.at # {} /\ seen # {}
  <2> DEFINE last == CHOOSE t \in seen : \A u \in seen : u <= t
  <2>1. a = [at |-> last, quality |-> 2]
    BY <1>7 DEF Anchors, told, seen
  <2>2. last \in seen
    BY <1>3, <1>7, LatestIsOne
  <2> HIDE DEF last
  <2>3. QED
    BY <1>3, <1>7, <2>1, <2>2 DEF seen
<1>8. CASE ~Physical(e) /\ ~(episode.key # {} /\ told # {}) /\ ~(episode.at # {} /\ seen # {})
  <2>1. PICK t \in episode.at : a = [at |-> t, quality |-> 1]
    BY <1>8 DEF Anchors, told, seen
  <2>2. QED
    BY <2>1
<1>9. QED
  BY <1>5, <1>6, <1>7, <1>8

LEMMA AnchorTypes ==
  ASSUME load.time \in Nat, NEW c, Readable(c), NEW e \in EventRow
  PROVE  Anchors(e, Episode(c, e), Told(c, Episode(c, e)), LastSeen(c, e, Episode(c, e)))
           \subseteq [at : Time, quality : {1, 2, 3}]
<1> DEFINE episode == Episode(c, e)
           anchors == Anchors(e, episode, Told(c, episode), LastSeen(c, e, episode))
<1>1. episode.at \subseteq Time
  BY EpisodeTypes
<1> HIDE DEF episode
<1>2. ASSUME NEW a \in anchors
      PROVE  a \in [at : Time, quality : {1, 2, 3}]
  <2>1. \E q \in {1, 2, 3} : a = [at |-> a.at, quality |-> q] /\ a.at \in Time
    BY <1>1, AnchorIsOneOf
  <2>2. QED
    BY <2>1
<1> HIDE DEF anchors
<1>3. anchors \subseteq [at : Time, quality : {1, 2, 3}]
  BY <1>2
<1>4. QED
  BY <1>3 DEF anchors, episode

LEMMA CandidateTypes ==
  ASSUME load.time \in Nat, NEW c, Readable(c), NEW e \in EventRow
  PROVE  Candidate(c, e) \subseteq Crash
<1> DEFINE episode == Episode(c, e)
           anchors == Anchors(e, episode, Told(c, episode), LastSeen(c, e, episode))
<1>1. anchors \subseteq [at : Time, quality : {1, 2, 3}]
  BY AnchorTypes
<1>2. episode.key \subseteq Reboots
  BY EpisodeTypes
<1>3. episode.key # {} => (CHOOSE k \in episode.key : TRUE) \in Reboots
  BY <1>2
<1>4. Rank(e.kind) \in {2, 3}
  BY DEF Rank
<1>5. Candidate(c, e) =
        {[key |-> IF episode.key = {} THEN None ELSE CHOOSE k \in episode.key : TRUE,
          rank |-> Rank(e.kind), anchor |-> a.at, quality |-> a.quality] :
            a \in {a \in anchors : Supported(c, e, episode) /\ ~StoppedCleanly(c, e, a.at)}}
  BY Zenon DEF Candidate, CandidateOf
<1> HIDE DEF anchors, episode
<1>6. QED
  <2> DEFINE key == IF episode.key = {} THEN None ELSE CHOOSE k \in episode.key : TRUE
  <2>1. key \in {None} \cup Reboots
    BY <1>3
  <2> HIDE DEF key
  <2>2. ASSUME NEW x \in Candidate(c, e)
        PROVE  x \in Crash
    <3>1. PICK a \in anchors :
            x = [key |-> key, rank |-> Rank(e.kind), anchor |-> a.at, quality |-> a.quality]
      BY <1>5 DEF key
    <3>2. a.at \in Time /\ a.quality \in {1, 2, 3}
      BY <1>1
    <3>3. QED
      BY <1>4, <2>1, <3>1, <3>2 DEF Crash
  <2>3. QED
    BY <2>2

LEMMA MergeTypes ==
  ASSUME NEW found \in Seq(Crash), NEW new, new \subseteq Crash
  PROVE  Merge(found, new) \in Seq(Crash)
<1>1. CASE new = {}
  BY <1>1 DEF Merge
<1>2. CASE new # {}
  <2> DEFINE x == CHOOSE x \in new : TRUE
  <2>1. x \in Crash
    BY <1>2
  <2>2. \A old \in Crash : Better(old, x) \in Crash
    <3> TAKE old \in Crash
    <3> DEFINE mixed == [x EXCEPT !.anchor = old.anchor, !.quality = old.quality]
    <3>1. mixed \in Crash
      BY <2>1 DEF Crash
    <3>2. Better(old, x) \in {old, x, mixed}
      BY DEF Better
    <3>3. QED
      BY <2>1, <3>1, <3>2
  <2>3. Merge(found, new) =
          IF \E i \in DOMAIN found : Same(found[i], x)
            THEN [i \in DOMAIN found |->
                    IF Same(found[i], x) THEN Better(found[i], x) ELSE found[i]]
            ELSE Append(found, x)
    BY <1>2 DEF Merge
  <2> HIDE DEF x
  <2>4. [i \in DOMAIN found |->
           IF Same(found[i], x) THEN Better(found[i], x) ELSE found[i]] \in Seq(Crash)
    <3>1. \A i \in DOMAIN found : found[i] \in Crash
      BY ElementOfSeq
    <3>2. QED
      BY <2>2, <3>1, SMTT(30)
  <2>5. QED
    BY <2>1, <2>3, <2>4
<1>3. QED
  BY <1>1, <1>2

LEMMA CandidatesTypes ==
  ASSUME load.time \in Nat, NEW c, Readable(c)
  PROVE  Candidates(c) \in Seq(Crash)
<1> DEFINE all == Boundaries(c.events)
           last(S) == CHOOSE e \in S : \A f \in S : f.at < e.at \/ (f.at = e.at /\ f.id <= e.id)
           Step(f, S) == IF S = {} THEN <<>>
                         ELSE Merge(f[S \ {last(S)}], Candidate(c, last(S)))
           merged == CHOOSE f : f = [S \in SUBSET all |-> Step(f, S)]
           upTo(n) == {S \in SUBSET all : Cardinality(S) <= n}
<1>1. all \subseteq EventRow /\ IsFiniteSet(all)
  <2>1. all \in SUBSET c.events
    BY DEF Boundaries
  <2>2. QED
    BY <2>1, FS_Subset DEF Readable
<1>2. ASSUME NEW S \in SUBSET all, S # {}
      PROVE  last(S) \in S
  <2> DEFINE later == {p \in S \X S : \/ p[1].at < p[2].at
                                      \/ (p[1].at = p[2].at /\ p[1].id <= p[2].id)}
  <2>1. \A e \in S : e.at \in Nat /\ e.id \in Nat
    BY <1>1 DEF EventRow, Time
  <2>2. Preorders(S, later)
    <3>1. \A e, f \in S : <<e, f>> \in later \/ <<f, e>> \in later
      BY <2>1
    <3>2. \A e, f, g \in S : <<e, f>> \in later /\ <<f, g>> \in later => <<e, g>> \in later
      BY <2>1
    <3> HIDE DEF later
    <3>3. QED
      BY <3>1, <3>2 DEF Preorders
  <2>3. IsFiniteSet(S)
    BY <1>1, FS_Subset
  <2>4. PICK e \in S : \A f \in S : <<f, e>> \in later
    <3> HIDE DEF later
    <3> QED
      BY <1>2, <2>2, <2>3, LastOfOrder
  <2>5. \E x \in S : \A f \in S : f.at < x.at \/ (f.at = x.at /\ f.id <= x.id)
    BY <2>4
  <2>6. QED
    BY <2>5, Zenon
<1> HIDE DEF last
<1>3. \A S \in SUBSET all : IsFiniteSet(S) /\ Cardinality(S) \in Nat
  BY <1>1, FS_Subset, FS_CardinalityType
<1>4. ASSUME NEW S \in SUBSET all, S # {}
      PROVE  /\ S \ {last(S)} \in SUBSET all /\ S \ {last(S)} # S /\ S \ {last(S)} \subseteq S
             /\ Cardinality(S \ {last(S)}) = Cardinality(S) - 1
  BY <1>2, <1>3, <1>4, FS_RemoveElement
<1> HIDE DEF all
<1>5. ASSUME NEW n \in Nat
      PROVE  \E f : f = [S \in upTo(n) |-> Step(f, S)]
  <2> DEFINE bad == {m \in Nat : ~\E f : f = [S \in upTo(m) |-> Step(f, S)]}
  <2>1. SUFFICES ASSUME bad # {}
                 PROVE  FALSE
    OBVIOUS
  <2>2. PICK m \in bad : \A k \in bad : m <= k
    <3>1. bad \subseteq Nat
      OBVIOUS
    <3> HIDE DEF bad
    <3>2. QED
      BY <2>1, <3>1, LeastNatural
  <2>3. CASE m = 0
    <3> DEFINE f == [S \in upTo(0) |-> <<>>]
    <3>1. \A S \in upTo(0) : S = {}
      BY <1>3, FS_EmptySet
    <3>2. f = [S \in upTo(0) |-> Step(f, S)]
      BY <3>1
    <3>3. QED
      BY <2>2, <2>3, <3>2
  <2>4. CASE m # 0
    <3>0. m \in Nat
      OBVIOUS
    <3>1. m - 1 \in Nat /\ m - 1 \notin bad
      <4> HIDE DEF bad
      <4>1. m - 1 \in Nat /\ ~(m <= m - 1)
        BY <2>4, <3>0
      <4>2. QED
        BY <2>2, <4>1
    <3>2. PICK f : f = [S \in upTo(m - 1) |-> Step(f, S)]
      BY <3>1
    <3> DEFINE g == [S \in upTo(m) |-> Step(f, S)]
    <3>3. ASSUME NEW S \in upTo(m)
          PROVE  Step(f, S) = Step(g, S)
      <4>1. CASE S = {}
        BY <4>1
      <4>2. CASE S # {}
        <5> DEFINE T == S \ {last(S)}
        <5>1. T \in upTo(m - 1) /\ T \in upTo(m)
          <6>1. T \in SUBSET all /\ Cardinality(T) = Cardinality(S) - 1 /\ Cardinality(S) <= m
            BY <1>4, <4>2
          <6>2. Cardinality(S) \in Nat
            BY <1>3
          <6> HIDE DEF T
          <6>3. QED
            BY <3>0, <6>1, <6>2
        <5>2. f[T] = Step(f, T)
          BY <3>2, <5>1
        <5>3. g[T] = Step(f, T)
          BY <5>1
        <5>4. QED
          BY <4>2, <5>2, <5>3
      <4>3. QED
        BY <4>1, <4>2
    <3>4. g = [S \in upTo(m) |-> Step(g, S)]
      BY <3>3
    <3>5. QED
      BY <2>2, <3>4
  <2>5. QED
    BY <2>3, <2>4
<1>6. upTo(Cardinality(all)) = SUBSET all /\ Cardinality(all) \in Nat
  BY <1>1, FS_Subset, FS_CardinalityType
<1>7. merged = [S \in SUBSET all |-> Step(merged, S)]
  <2>1. \E f : f = [S \in SUBSET all |-> Step(f, S)]
    BY <1>5, <1>6
  <2> HIDE DEF Step
  <2>2. QED
    BY <2>1, Zenon
<1>8. Candidates(c) = merged[all]
  BY Zenon DEF Candidates, all, last
<1> HIDE DEF merged
<1>9. \A S \in SUBSET all : merged[S] = Step(merged, S)
  BY <1>7
<1> DEFINE wrong == {S \in SUBSET all : merged[S] \notin Seq(Crash)}
<1>10. ASSUME wrong # {}
       PROVE  FALSE
  <2>1. PICK S \in wrong : \A U \in wrong : ~(U \subseteq S /\ U # S)
    <3>1. wrong \subseteq SUBSET all
      OBVIOUS
    <3> HIDE DEF wrong
    <3>2. QED
      BY <1>1, <1>10, <3>1, SmallestMember
  <2>2. CASE S = {}
    <3>1. merged[{}] = <<>>
      BY <1>9
    <3>2. <<>> \in Seq(Crash)
      OBVIOUS
    <3>3. merged[S] \notin Seq(Crash)
      BY <2>1
    <3>4. QED
      BY <2>2, <3>1, <3>2, <3>3
  <2>3. CASE S # {}
    <3>1. S \ {last(S)} \in SUBSET all /\ S \ {last(S)} \notin wrong
      BY <1>4, <2>1, <2>3
    <3>2. merged[S \ {last(S)}] \in Seq(Crash)
      BY <3>1
    <3>3. last(S) \in EventRow
      BY <1>1, <1>2, <2>3
    <3>4. Candidate(c, last(S)) \subseteq Crash
      BY <3>3, CandidateTypes
    <3>5. QED
      BY <1>9, <2>3, <3>2, <3>4, MergeTypes
  <2>4. QED
    BY <2>2, <2>3
<1>11. QED
  BY <1>8, <1>10

-----------------------------------------------------------------------------
(* Cases and holds.                                                        *)

CaseRow ==
  [key : {None} \cup Reboots, anchor : Time, rank : {2, 3}, built : Time \cup {None},
   status : {"pending", "post_pending", "partial", "complete", "failed"}]

HoldRow(cs) == [case : DOMAIN cs, anchor : Time, active : BOOLEAN]

\* An active hold covers the evidence of its case as it is known now.
Following(cs, hs) == \A i \in Active(hs) : hs[i].anchor = cs[hs[i].case].anchor

\* The tables while a page is stored.
Filing(t) ==
  /\ t.cases \in Seq(CaseRow) /\ t.holds \in Seq(HoldRow(t.cases))
  /\ Cardinality(Active(t.holds)) <= Limit
  /\ Following(t.cases, t.holds)
  /\ t.ids \subseteq DOMAIN t.cases

LEMMA RetainedHolds ==
  ASSUME load.time \in Nat, NEW cs \in Seq(CaseRow), NEW hs \in Seq(HoldRow(cs)),
         Following(cs, hs)
  PROVE  /\ Retained(hs, cs) \in Seq(HoldRow(cs))
         /\ Cardinality(Active(Retained(hs, cs))) <= Limit
         /\ Following(cs, Retained(hs, cs))
<1> DEFINE newer(i, j) == \/ cs[hs[i].case].anchor > cs[hs[j].case].anchor
                          \/ /\ cs[hs[i].case].anchor = cs[hs[j].case].anchor
                             /\ i > j
           active == Active(hs)
           kept == {j \in active : Cardinality({i \in active : newer(i, j)}) < Limit}
           new == [j \in DOMAIN hs |-> [hs[j] EXCEPT !.active = j \in kept]]
           order == {p \in active \X active : p[1] = p[2] \/ newer(p[1], p[2])}
<1>1. Retained(hs, cs) = new
  BY Zenon DEF Retained
<1>2. /\ DOMAIN hs = 1 .. Len(hs) /\ Len(hs) \in Nat
      /\ \A i \in DOMAIN hs : hs[i] \in HoldRow(cs)
  BY ElementOfSeq, LenProperties
<1>3. \A i \in DOMAIN hs : hs[i].case \in DOMAIN cs
  BY <1>2 DEF HoldRow
<1>4. \A k \in DOMAIN cs : cs[k].anchor \in Nat
  <2>1. \A k \in DOMAIN cs : cs[k] \in CaseRow
    BY ElementOfSeq
  <2>2. QED
    BY <2>1 DEF CaseRow, Time
<1>5. active \in SUBSET DOMAIN hs
  BY DEF Active
<1>6. IsFiniteSet(active)
  <2>1. IsFiniteSet(1 .. Len(hs))
    BY <1>2, FS_Interval, SMT
  <2>2. QED
    BY <1>2, <1>5, <2>1, FS_Subset
<1>7. \A i \in active : cs[hs[i].case].anchor \in Nat /\ i \in Nat
  BY <1>2, <1>3, <1>4, <1>5
<1>8. Orders(active, order)
  <2> DEFINE time(i) == cs[hs[i].case].anchor
  <2>0. \A i \in active : time(i) \in Nat /\ i \in Nat
    BY <1>7
  <2>1. \A p : p \in order <=>
          p \in active \X active /\ (\/ p[1] = p[2] \/ time(p[1]) > time(p[2])
                                     \/ time(p[1]) = time(p[2]) /\ p[1] > p[2])
    OBVIOUS
  <2> HIDE DEF order, active, time
  <2>2. \A i, j \in active : <<i, j>> \in order <=>
          i = j \/ time(i) > time(j) \/ (time(i) = time(j) /\ i > j)
    BY <2>1
  <2>3. \A i, j \in active : <<i, j>> \in order \/ <<j, i>> \in order
    <3> SUFFICES ASSUME NEW i \in active, NEW j \in active
                 PROVE  <<i, j>> \in order \/ <<j, i>> \in order
      OBVIOUS
    <3>1. time(i) \in Nat /\ time(j) \in Nat /\ i \in Nat /\ j \in Nat
      BY <2>0
    <3>2. \/ i = j \/ time(i) > time(j) \/ (time(i) = time(j) /\ i > j)
          \/ time(j) > time(i) \/ (time(j) = time(i) /\ j > i)
      BY <3>1
    <3>3. QED
      BY <2>2, <3>2
  <2>4. \A i, j, k \in active : <<i, j>> \in order /\ <<j, k>> \in order => <<i, k>> \in order
    <3> SUFFICES ASSUME NEW i \in active, NEW j \in active, NEW k \in active,
                        <<i, j>> \in order, <<j, k>> \in order
                 PROVE  <<i, k>> \in order
      OBVIOUS
    <3>1. /\ i = j \/ time(i) > time(j) \/ (time(i) = time(j) /\ i > j)
          /\ j = k \/ time(j) > time(k) \/ (time(j) = time(k) /\ j > k)
      BY <2>2
    <3>2. /\ time(i) \in Nat /\ time(j) \in Nat /\ time(k) \in Nat
          /\ i \in Nat /\ j \in Nat /\ k \in Nat
      BY <2>0
    <3>3. i = k \/ time(i) > time(k) \/ (time(i) = time(k) /\ i > k)
      BY <3>1, <3>2
    <3>4. QED
      BY <2>2, <3>3
  <2>5. \A i, j \in active : <<i, j>> \in order /\ <<j, i>> \in order => i = j
    BY <2>0, <2>2
  <2>6. QED
    BY <2>3, <2>4, <2>5 DEF Orders, Preorders
<1>9. \A j \in kept : Cardinality({i \in active : <<i, j>> \in order /\ i # j}) < Limit
  <2> TAKE j \in kept
  <2>1. \A i \in active : newer(i, j) <=> <<i, j>> \in order /\ i # j
    <3>1. j \in active
      OBVIOUS
    <3>2. ~newer(j, j)
      BY <1>7, <3>1
    <3>3. QED
      BY <3>1, <3>2
  <2>2. {i \in active : <<i, j>> \in order /\ i # j} = {i \in active : newer(i, j)}
    BY <2>1
  <2>3. QED
    BY <2>2
<1>10. Cardinality(kept) <= Limit
  <2>1. kept \in SUBSET active /\ Limit \in Nat
    BY CrashAssumption
  <2> HIDE DEF kept, order, active
  <2>2. QED
    BY <1>6, <1>8, <1>9, <2>1, FewBefore
<1>11. kept \subseteq active
  OBVIOUS
<1> HIDE DEF kept
<1>12. \A i \in DOMAIN hs : /\ new[i] \in HoldRow(cs) /\ new[i].active = (i \in kept)
                            /\ new[i].case = hs[i].case /\ new[i].anchor = hs[i].anchor
  <2> TAKE i \in DOMAIN hs
  <2>1. hs[i] \in [case : DOMAIN cs, anchor : Time, active : BOOLEAN]
    BY <1>2 DEF HoldRow
  <2>2. new[i] = [hs[i] EXCEPT !.active = i \in kept]
    OBVIOUS
  <2>3. (i \in kept) \in BOOLEAN
    OBVIOUS
  <2> HIDE DEF new
  <2>4. QED
    BY <2>1, <2>2, <2>3 DEF HoldRow
<1>13. new \in Seq(HoldRow(cs)) /\ DOMAIN new = DOMAIN hs
  <2>1. new \in [1 .. Len(hs) -> HoldRow(cs)]
    BY <1>2, <1>12
  <2> HIDE DEF new
  <2>2. QED
    BY <1>2, <2>1
<1> HIDE DEF new
<1>14. Active(new) = kept
  BY <1>5, <1>11, <1>12, <1>13 DEF Active
<1>15. Following(cs, new)
  BY <1>5, <1>11, <1>12, <1>14 DEF Following
<1>16. QED
  BY <1>1, <1>10, <1>13, <1>14, <1>15

LEMMA HoldingFollows ==
  ASSUME load.time \in Nat, NEW cs \in Seq(CaseRow), NEW old \in Seq(CaseRow),
         NEW hs \in Seq(HoldRow(old)), Following(old, hs),
         DOMAIN old \subseteq DOMAIN cs, NEW id \in DOMAIN cs,
         \A k \in DOMAIN old : k # id => cs[k].anchor = old[k].anchor
  PROVE  /\ Holding(hs, id, cs[id].anchor) \in Seq(HoldRow(cs))
         /\ Following(cs, Holding(hs, id, cs[id].anchor))
<1> DEFINE at == cs[id].anchor
           new == Holding(hs, id, at)
<1>1. at \in Time
  <2>1. cs[id] \in CaseRow
    BY ElementOfSeq, LenProperties
  <2>2. QED
    BY <2>1 DEF CaseRow
<1>2. /\ DOMAIN hs = 1 .. Len(hs) /\ Len(hs) \in Nat
      /\ \A i \in DOMAIN hs : hs[i] \in HoldRow(old)
  BY ElementOfSeq, LenProperties
<1>3. \A i \in DOMAIN hs : hs[i].case \in DOMAIN old /\ hs[i] \in HoldRow(cs)
  BY <1>2 DEF HoldRow
<1> HIDE DEF at
<1>4. CASE \E i \in Active(hs) : hs[i].case = id
  <2> DEFINE row(i) == IF i \in Active(hs) /\ hs[i].case = id
                         THEN [hs[i] EXCEPT !.anchor = at] ELSE hs[i]
  <2>1. new = [i \in DOMAIN hs |-> row(i)]
    BY <1>4 DEF Holding
  <2>2. \A i \in DOMAIN hs : /\ row(i) \in HoldRow(cs) /\ row(i).case = hs[i].case
                             /\ row(i).active = hs[i].active
                             /\ row(i).anchor = IF i \in Active(hs) /\ hs[i].case = id
                                                  THEN at ELSE hs[i].anchor
    BY <1>1, <1>3 DEF HoldRow
  <2> HIDE DEF new, row
  <2>3. new \in [1 .. Len(hs) -> HoldRow(cs)] /\ DOMAIN new = DOMAIN hs
    BY <1>2, <2>1, <2>2
  <2>4. new \in Seq(HoldRow(cs))
    BY <1>2, <2>3
  <2>5. Active(new) = Active(hs)
    BY <2>1, <2>2, <2>3 DEF Active
  <2>6. ASSUME NEW i \in Active(new)
        PROVE  new[i].anchor = cs[new[i].case].anchor
    <3>1. i \in DOMAIN hs /\ i \in Active(hs) /\ new[i] = row(i)
      BY <2>1, <2>5 DEF Active
    <3>2. CASE hs[i].case = id
      BY <2>2, <3>1, <3>2 DEF at
    <3>3. CASE hs[i].case # id
      <4>1. new[i].anchor = old[hs[i].case].anchor
        BY <2>2, <3>1, <3>3 DEF Following
      <4>2. QED
        BY <1>3, <2>2, <3>1, <3>3, <4>1
    <3>4. QED
      BY <3>2, <3>3
  <2>7. QED
    BY <2>4, <2>6 DEF Following, new, at
<1>5. CASE ~\E i \in Active(hs) : hs[i].case = id
  <2> DEFINE h == [case |-> id, anchor |-> at, active |-> TRUE]
  <2>1. new = Append(hs, h)
    BY <1>5 DEF Holding, Hold
  <2>2. h \in HoldRow(cs)
    BY <1>1 DEF HoldRow
  <2>3. hs \in Seq(HoldRow(cs))
    <3>1. hs \in [1 .. Len(hs) -> HoldRow(cs)]
      BY <1>2, <1>3, LenProperties
    <3>2. QED
      BY <1>2, <3>1
  <2>4. /\ new \in Seq(HoldRow(cs)) /\ DOMAIN new = 1 .. Len(hs) + 1
        /\ new[Len(hs) + 1] = h /\ \A i \in DOMAIN hs : new[i] = hs[i]
    <3> HIDE DEF h, new
    <3> QED
      BY <1>2, <2>1, <2>2, <2>3
  <2> HIDE DEF new
  <2>5. ASSUME NEW i \in Active(new)
        PROVE  new[i].anchor = cs[new[i].case].anchor
    <3>1. i \in DOMAIN new /\ new[i].active
      BY DEF Active
    <3>2. CASE i = Len(hs) + 1
      BY <2>4, <3>2 DEF at
    <3>3. CASE i # Len(hs) + 1
      <4>1. i \in DOMAIN hs
        BY <1>2, <2>4, <3>1, <3>3
      <4>2. i \in Active(hs)
        BY <2>4, <3>1, <4>1 DEF Active
      <4>3. hs[i].anchor = old[hs[i].case].anchor /\ hs[i].case # id
        BY <1>5, <4>2 DEF Following
      <4>4. QED
        BY <1>3, <2>4, <4>1, <4>3
    <3>4. QED
      BY <3>2, <3>3
  <2>6. QED
    BY <2>4, <2>5 DEF Following, new, at
<1>6. QED
  BY <1>4, <1>5

LEMMA CreateCaseFiles ==
  ASSUME load.time \in Nat, NEW t, Filing(t), NEW crash \in Crash
  PROVE  Filing(CreateCase(t, crash))
<1> DEFINE known == {i \in DOMAIN t.cases : /\ t.cases[i].key = crash.key
                                            /\ crash.key = None => t.cases[i].anchor = crash.anchor}
           id == IF known = {} THEN Len(t.cases) + 1
                 ELSE CHOOSE i \in known : \A j \in known : i <= j
           cs == IF known = {} THEN Append(t.cases, NewCase(crash))
                 ELSE [t.cases EXCEPT ![id] = Filed(@, crash)]
           hs == Holding(t.holds, id, crash.anchor)
<1>1. CreateCase(t, crash) =
        [cases |-> cs, ids |-> t.ids \cup {id}, holds |-> Retained(hs, cs)]
  BY Zenon DEF CreateCase
<1>2. t.cases \in Seq(CaseRow) /\ t.holds \in Seq(HoldRow(t.cases)) /\ Following(t.cases, t.holds)
      /\ t.ids \subseteq DOMAIN t.cases
  BY DEF Filing
<1>3. /\ DOMAIN t.cases = 1 .. Len(t.cases) /\ Len(t.cases) \in Nat
      /\ \A i \in DOMAIN t.cases : t.cases[i] \in CaseRow
  BY <1>2, ElementOfSeq, LenProperties
<1>4. NewCase(crash) \in CaseRow /\ NewCase(crash).anchor = crash.anchor
  BY DEF NewCase, CaseRow, Crash
<1>5. \A row \in CaseRow : Filed(row, crash) \in CaseRow /\ Filed(row, crash).anchor = crash.anchor
  BY DEF Filed, CaseRow, Crash
<1>6. known # {} => id \in known
  <2>1. ASSUME known # {}
        PROVE  \E x \in known : \A j \in known : x <= j
    <3>1. known \subseteq Nat
      BY <1>3
    <3> HIDE DEF known
    <3>2. QED
      BY <2>1, <3>1, LeastNatural
  <2> HIDE DEF known
  <2>2. QED
    BY <2>1, Zenon
<1>7. /\ cs \in Seq(CaseRow) /\ DOMAIN t.cases \subseteq DOMAIN cs /\ id \in DOMAIN cs
      /\ cs[id].anchor = crash.anchor
      /\ \A k \in DOMAIN t.cases : k # id => cs[k].anchor = t.cases[k].anchor
  <2>1. CASE known = {}
    <3>1. id = Len(t.cases) + 1 /\ cs = Append(t.cases, NewCase(crash))
      BY <2>1
    <3> HIDE DEF id, cs, known
    <3>2. /\ cs \in Seq(CaseRow) /\ DOMAIN cs = 1 .. Len(t.cases) + 1
          /\ cs[Len(t.cases) + 1] = NewCase(crash) /\ \A k \in DOMAIN t.cases : cs[k] = t.cases[k]
      BY <1>2, <1>3, <1>4, <3>1
    <3>3. QED
      BY <1>3, <1>4, <3>1, <3>2
  <2>2. CASE known # {}
    <3>1. id \in DOMAIN t.cases
      BY <1>6, <2>2
    <3>2. cs = [t.cases EXCEPT ![id] = Filed(t.cases[id], crash)]
      BY <2>2
    <3>3. Filed(t.cases[id], crash) \in CaseRow
      BY <1>3, <1>5, <3>1
    <3> HIDE DEF id, cs, known
    <3>4. cs \in Seq(CaseRow) /\ DOMAIN cs = DOMAIN t.cases
      BY <1>2, <1>3, <3>1, <3>2, <3>3, ExceptSeq
    <3>5. cs[id] = Filed(t.cases[id], crash)
          /\ \A k \in DOMAIN t.cases : k # id => cs[k] = t.cases[k]
      BY <3>1, <3>2
    <3>6. QED
      BY <1>3, <1>5, <3>1, <3>4, <3>5
  <2>3. QED
    BY <2>1, <2>2
<1> HIDE DEF id, cs, known
<1>8. hs \in Seq(HoldRow(cs)) /\ Following(cs, hs)
  BY <1>2, <1>7, HoldingFollows
<1> HIDE DEF hs
<1>9. /\ Retained(hs, cs) \in Seq(HoldRow(cs))
      /\ Cardinality(Active(Retained(hs, cs))) <= Limit
      /\ Following(cs, Retained(hs, cs))
  BY <1>7, <1>8, RetainedHolds
<1>10. t.ids \cup {id} \subseteq DOMAIN cs
  BY <1>2, <1>7
<1>11. QED
  BY <1>1, <1>7, <1>9, <1>10 DEF Filing

LEMMA CreateCasesFile ==
  ASSUME load.time \in Nat, NEW crashes \in Seq(Crash),
         Filing([cases |-> cases, holds |-> holds, ids |-> {}])
  PROVE  Filing(CreateCases(crashes))
<1> DEFINE Step(f, n) == IF n = 0 THEN [cases |-> cases, holds |-> holds, ids |-> {}]
                         ELSE CreateCase(f[n - 1], crashes[n])
           total == Len(crashes)
           after == CHOOSE f : f = [n \in 0 .. total |-> Step(f, n)]
<1>1. total \in Nat /\ \A n \in 1 .. total : crashes[n] \in Crash
  BY LenProperties, ElementOfSeq
<1>2. ASSUME NEW n \in Nat
      PROVE  \E f : f = [k \in 0 .. n |-> Step(f, k)]
  <2> DEFINE bad == {m \in Nat : ~\E f : f = [k \in 0 .. m |-> Step(f, k)]}
  <2>1. SUFFICES ASSUME bad # {}
                 PROVE  FALSE
    OBVIOUS
  <2>2. PICK m \in bad : \A k \in bad : m <= k
    <3>1. bad \subseteq Nat
      OBVIOUS
    <3> HIDE DEF bad
    <3>2. QED
      BY <2>1, <3>1, LeastNatural
  <2>3. CASE m = 0
    <3> DEFINE f == [k \in 0 .. 0 |-> [cases |-> cases, holds |-> holds, ids |-> {}]]
    <3>1. f = [k \in 0 .. 0 |-> Step(f, k)]
      OBVIOUS
    <3>2. QED
      BY <2>2, <2>3, <3>1
  <2>4. CASE m # 0
    <3>1. m \in Nat
      OBVIOUS
    <3>2. m - 1 \in Nat /\ m - 1 \notin bad
      <4> HIDE DEF bad
      <4>1. m - 1 \in Nat /\ ~(m <= m - 1)
        BY <2>4, <3>1
      <4>2. QED
        BY <2>2, <4>1
    <3>3. PICK f : f = [k \in 0 .. m - 1 |-> Step(f, k)]
      BY <3>2
    <3> DEFINE g == [k \in 0 .. m |-> Step(f, k)]
    <3>4. ASSUME NEW k \in 0 .. m
          PROVE  Step(f, k) = Step(g, k)
      <4>1. CASE k = 0
        BY <4>1
      <4>2. CASE k # 0
        <5>1. k - 1 \in 0 .. m - 1 /\ k - 1 \in 0 .. m
          BY <3>1, <4>2
        <5>2. f[k - 1] = Step(f, k - 1)
          <6> HIDE DEF Step
          <6> QED
            BY <3>3, <5>1
        <5>3. g[k - 1] = Step(f, k - 1)
          BY <5>1
        <5>4. QED
          BY <4>2, <5>2, <5>3
      <4>3. QED
        BY <4>1, <4>2
    <3>5. g = [k \in 0 .. m |-> Step(g, k)]
      BY <3>4
    <3>6. QED
      BY <2>2, <3>5
  <2>5. QED
    BY <2>3, <2>4
<1>3. after = [n \in 0 .. total |-> Step(after, n)]
  <2>1. \E f : f = [n \in 0 .. total |-> Step(f, n)]
    BY <1>1, <1>2
  <2> HIDE DEF Step
  <2>2. QED
    BY <2>1, Zenon
<1>4. CreateCases(crashes) = after[total]
  BY Zenon DEF CreateCases
<1> HIDE DEF after, total
<1>5. \A n \in 0 .. total : after[n] = Step(after, n)
  BY <1>3
<1> DEFINE wrong == {n \in 0 .. total : ~Filing(after[n])}
<1>6. ASSUME wrong # {}
      PROVE  FALSE
  <2>1. PICK n \in wrong : \A k \in wrong : n <= k
    <3>1. wrong \subseteq Nat
      OBVIOUS
    <3> HIDE DEF wrong
    <3>2. QED
      BY <1>6, <3>1, LeastNatural
  <2>2. n \in 0 .. total /\ ~Filing(after[n])
    OBVIOUS
  <2>3. CASE n = 0
    BY <1>5, <2>2, <2>3
  <2>4. CASE n # 0
    <3>1. n - 1 \in 0 .. total /\ n \in 1 .. total /\ ~(n <= n - 1)
      BY <1>1, <2>2, <2>4
    <3>2. Filing(after[n - 1])
      BY <2>1, <3>1
    <3>3. after[n] = CreateCase(after[n - 1], crashes[n])
      BY <1>5, <2>2, <2>4
    <3>4. QED
      BY <1>1, <2>2, <3>1, <3>2, <3>3, CreateCaseFiles
  <2>5. QED
    BY <2>3, <2>4
<1>7. QED
  BY <1>1, <1>4, <1>6

LEMMA InOrderTypes ==
  ASSUME NEW n \in Nat, NEW ids, ids \subseteq 1 .. n
  PROVE  InOrder(ids) \in Seq(ids)
<1>1. IsFiniteSet(ids)
  <2>1. IsFiniteSet(1 .. n) /\ ids \in SUBSET (1 .. n)
    BY FS_Interval
  <2>2. QED
    BY <2>1, FS_Subset
<1> DEFINE order == {p \in ids \X ids : p[1] <= p[2]}
           size == Cardinality(ids)
<1>2. Orders(ids, order)
  <2>1. \A i \in ids : i \in Nat
    OBVIOUS
  <2>2. \A p : p \in order <=> p \in ids \X ids /\ p[1] <= p[2]
    OBVIOUS
  <2> HIDE DEF order
  <2>3. QED
    BY <2>1, <2>2 DEF Orders, Preorders
<1>3. \A i \in ids : UpTo(ids, order, i) = {j \in ids : j <= i}
  BY DEF UpTo
<1>4. size \in Nat
  BY <1>1, FS_CardinalityType
<1>5. ASSUME NEW k \in 1 .. size
      PROVE  (CHOOSE i \in ids : Cardinality({j \in ids : j <= i}) = k) \in ids
  <2>1. \E i \in ids : Cardinality(UpTo(ids, order, i)) = k
    <3> HIDE DEF order
    <3> QED
      BY <1>1, <1>2, NthOfOrder
  <2>2. \E i \in ids : Cardinality({j \in ids : j <= i}) = k
    BY <1>3, <2>1
  <2>3. QED
    BY <2>2, Zenon
<1>6. InOrder(ids) \in [1 .. size -> ids]
  <2> DEFINE nth(k) == CHOOSE i \in ids : Cardinality({j \in ids : j <= i}) = k
  <2>1. \A k \in 1 .. size : nth(k) \in ids
    BY <1>5
  <2>2. InOrder(ids) = [k \in 1 .. size |-> nth(k)]
    BY DEF InOrder
  <2> HIDE DEF nth, size
  <2>3. QED
    BY <2>1, <2>2
<1>7. QED
  <2> HIDE DEF size
  <2> QED
    BY <1>4, <1>6

LEMMA DueInOrderTypes ==
  ASSUME load.time \in Nat, cases \in Seq(CaseRow)
  PROVE  DueInOrder \in Seq(DOMAIN cases)
<1> DEFINE before(i, j) == \/ cases[i].anchor < cases[j].anchor
                           \/ cases[i].anchor = cases[j].anchor /\ i <= j
           order == {p \in Due \X Due : before(p[1], p[2])}
           size == Cardinality(Due)
<1>1. DOMAIN cases = 1 .. Len(cases) /\ Len(cases) \in Nat
  BY LenProperties
<1>2. Due \in SUBSET DOMAIN cases
  BY DEF Due
<1>3. IsFiniteSet(Due)
  <2>1. IsFiniteSet(1 .. Len(cases))
    BY <1>1, FS_Interval, SMT
  <2>2. QED
    BY <1>1, <1>2, <2>1, FS_Subset
<1>4. \A i \in Due : cases[i].anchor \in Nat /\ i \in Nat
  <2>1. \A i \in Due : cases[i] \in CaseRow
    BY <1>1, <1>2, ElementOfSeq
  <2>2. QED
    BY <1>1, <1>2, <2>1 DEF CaseRow, Time
<1>5. Orders(Due, order)
  <2> DEFINE time(i) == cases[i].anchor
  <2>1. \A p : p \in order <=> p \in Due \X Due /\ (\/ time(p[1]) < time(p[2])
                                                    \/ time(p[1]) = time(p[2]) /\ p[1] <= p[2])
    OBVIOUS
  <2>2. \A i \in Due : time(i) \in Nat /\ i \in Nat
    BY <1>4
  <2> HIDE DEF order, time
  <2>3. \A i, j \in Due : <<i, j>> \in order <=>
          time(i) < time(j) \/ (time(i) = time(j) /\ i <= j)
    BY <2>1
  <2>4. \A i, j \in Due : <<i, j>> \in order \/ <<j, i>> \in order
    <3> SUFFICES ASSUME NEW i \in Due, NEW j \in Due
                 PROVE  <<i, j>> \in order \/ <<j, i>> \in order
      OBVIOUS
    <3>1. time(i) \in Nat /\ time(j) \in Nat /\ i \in Nat /\ j \in Nat
      BY <2>2
    <3>2. \/ time(i) < time(j) \/ (time(i) = time(j) /\ i <= j)
          \/ time(j) < time(i) \/ (time(j) = time(i) /\ j <= i)
      BY <3>1
    <3>3. QED
      BY <2>3, <3>2
  <2>5. \A i, j, k \in Due : <<i, j>> \in order /\ <<j, k>> \in order => <<i, k>> \in order
    <3> SUFFICES ASSUME NEW i \in Due, NEW j \in Due, NEW k \in Due,
                        <<i, j>> \in order, <<j, k>> \in order
                 PROVE  <<i, k>> \in order
      OBVIOUS
    <3>1. /\ time(i) < time(j) \/ (time(i) = time(j) /\ i <= j)
          /\ time(j) < time(k) \/ (time(j) = time(k) /\ j <= k)
      BY <2>3
    <3>2. /\ time(i) \in Nat /\ time(j) \in Nat /\ time(k) \in Nat
          /\ i \in Nat /\ j \in Nat /\ k \in Nat
      BY <2>2
    <3>3. time(i) < time(k) \/ (time(i) = time(k) /\ i <= k)
      BY <3>1, <3>2
    <3>4. QED
      BY <2>3, <3>3
  <2>6. \A i, j \in Due : <<i, j>> \in order /\ <<j, i>> \in order => i = j
    BY <2>2, <2>3
  <2>7. QED
    BY <2>4, <2>5, <2>6 DEF Orders, Preorders
<1>6. \A i \in Due : UpTo(Due, order, i) = {j \in Due : before(j, i)}
  BY DEF UpTo
<1>7. size \in Nat
  BY <1>3, FS_CardinalityType
<1>8. ASSUME NEW k \in 1 .. size
      PROVE  (CHOOSE i \in Due : Cardinality({j \in Due : before(j, i)}) = k) \in Due
  <2>1. \E i \in Due : Cardinality(UpTo(Due, order, i)) = k
    <3> HIDE DEF order
    <3> QED
      BY <1>3, <1>5, NthOfOrder
  <2>2. \E i \in Due : Cardinality({j \in Due : before(j, i)}) = k
    BY <1>6, <2>1
  <2>3. QED
    BY <2>2, Zenon
<1>9. DueInOrder \in [1 .. size -> DOMAIN cases]
  <2> DEFINE nth(k) == CHOOSE i \in Due : Cardinality({j \in Due : before(j, i)}) = k
  <2>1. \A k \in 1 .. size : nth(k) \in DOMAIN cases
    BY <1>2, <1>8
  <2>2. DueInOrder = [k \in 1 .. size |-> nth(k)]
    BY DEF DueInOrder
  <2> HIDE DEF nth, size
  <2>3. QED
    BY <2>1, <2>2
<1>10. QED
  <2> HIDE DEF size
  <2> QED
    BY <1>7, <1>9

-----------------------------------------------------------------------------
(* Reading the log.                                                        *)

LogRows == {log[i] : i \in DOMAIN log}

LEMMA LogTypes ==
  ASSUME TypeOK
  PROVE  /\ LogRows \subseteq Events /\ LogRows \subseteq EventRow /\ IsFiniteSet(LogRows)
         /\ DOMAIN log \subseteq Nat /\ DOMAIN boots \subseteq Nat /\ load.time \in Nat \ {0}
         /\ Time \subseteq Nat
<1>1. load.time \in Nat \ {0}
  BY CrashAssumption DEF TypeOK
<1>2. /\ log \in Seq(Events) /\ DOMAIN log = 1 .. Len(log) /\ Len(log) \in Nat
      /\ DOMAIN boots = 1 .. Len(boots) /\ Len(boots) \in Nat
  BY LenProperties DEF TypeOK
<1>3. \A i \in DOMAIN log : log[i] \in Events
  BY <1>2, ElementOfSeq
<1>4. Events \subseteq EventRow
  BY <1>2 DEF Events, EventRow
<1>5. IsFiniteSet(LogRows)
  <2>1. log \in Surjection(1 .. Len(log), LogRows)
    <3>1. log \in [1 .. Len(log) -> LogRows]
      BY <1>2, LenProperties DEF LogRows
    <3>2. QED
      BY <1>2, <3>1 DEF Surjection, LogRows
  <2>2. IsFiniteSet(1 .. Len(log))
    BY <1>2, FS_Interval, SMT
  <2>3. QED
    BY <2>1, <2>2, FS_Surjection
<1>6. QED
  BY <1>1, <1>2, <1>3, <1>4, <1>5 DEF LogRows, Time

LEMMA PageIsLogged ==
  NextPage \subseteq LogRows
BY DEF NextPage, LogRows

\* The cursor moves to the last event of the page.
LEMMA CursorIsLast ==
  ASSUME TypeOK, NextPage # {}
  PROVE  \E last \in NextPage :
           /\ CursorAfter(NextPage) = [at |-> last.at, id |-> last.id]
           /\ \A f \in NextPage : ~IsAfter(f, [at |-> last.at, id |-> last.id])
<1> DEFINE page == NextPage
           mark(e) == [at |-> e.at, id |-> e.id]
           read == {p \in page \X page : ~IsAfter(p[1], mark(p[2]))}
           last == CHOOSE e \in page : \A f \in page : ~IsAfter(f, mark(e))
<1>1. /\ \A e \in page : e.at \in Time /\ e.id \in DOMAIN log
      /\ \A e \in page : e.at \in Nat /\ e.id \in Nat
  BY LogTypes, PageIsLogged DEF Events
<1>2. page \in SUBSET LogRows
  BY PageIsLogged
<1>3. IsFiniteSet(page)
  BY <1>2, LogTypes, FS_Subset
<1>4. \A e, f \in page : IsAfter(f, mark(e)) <=> f.at > e.at \/ (f.at = e.at /\ f.id > e.id)
  <2>1. \A e \in page : mark(e) # None
    BY <1>1, CrashAssumption
  <2>2. QED
    BY <2>1 DEF IsAfter
<1>5. \A p : p \in read <=> /\ p \in page \X page
                            /\ ~(p[1].at > p[2].at \/ (p[1].at = p[2].at /\ p[1].id > p[2].id))
  <2>1. \A p : p \in read <=> p \in page \X page /\ ~IsAfter(p[1], mark(p[2]))
    OBVIOUS
  <2>2. \A p \in page \X page : p[1] \in page /\ p[2] \in page
    OBVIOUS
  <2> HIDE DEF read, page, mark
  <2>3. QED
    BY <1>4, <2>1, <2>2
<1> HIDE DEF page, read, mark
<1>6. Preorders(page, read)
  <2>1. \A e, f \in page : <<e, f>> \in read \/ <<f, e>> \in read
    BY <1>1, <1>5
  <2>2. \A e, f, g \in page : <<e, f>> \in read /\ <<f, g>> \in read => <<e, g>> \in read
    BY <1>1, <1>5
  <2>3. QED
    BY <2>1, <2>2 DEF Preorders
<1>7. PICK e \in page : \A f \in page : <<f, e>> \in read
  BY <1>3, <1>6, LastOfOrder DEF page
<1>8. \E x \in page : \A f \in page : ~IsAfter(f, mark(x))
  BY <1>7 DEF read
<1>9. last \in page /\ \A f \in page : ~IsAfter(f, mark(last))
  BY <1>8, Zenon
<1>10. CursorAfter(NextPage) = [at |-> last.at, id |-> last.id]
  BY Zenon DEF CursorAfter, page, mark
<1> HIDE DEF last
<1>11. QED
  BY <1>9, <1>10 DEF page, mark

LEMMA CursorTypes ==
  ASSUME TypeOK, NextPage # {}
  PROVE  CursorAfter(NextPage) \in [at : Time, id : DOMAIN log]
<1>1. PICK last \in NextPage : CursorAfter(NextPage) = [at |-> last.at, id |-> last.id]
  BY CursorIsLast
<1>2. last.at \in Time /\ last.id \in DOMAIN log
  BY LogTypes, PageIsLogged DEF Events
<1>3. QED
  BY <1>1, <1>2

LEMMA ContextIsReadable ==
  ASSUME TypeOK, NEW page, NEW kept, kept \subseteq LogRows
  PROVE  Readable(ContextOf(page, kept))
<1> DEFINE c == ContextOf(page, kept)
<1>1. c.events \in SUBSET LogRows
  BY DEF ContextOf
<1>2. c.events \subseteq EventRow /\ IsFiniteSet(c.events)
  BY <1>1, LogTypes, FS_Subset
<1>3. c.sessions = sessions
  BY DEF ContextOf
<1>4. sessions \subseteq SessionRow
  BY LogTypes DEF TypeOK, SessionRow
<1>5. c.marks \subseteq Nat
  <2>1. \A x \in c.marks : \/ \E f \in frames : x = f.at + 1
                           \/ \E s \in sessions : x = s.end /\ s.end # None
    BY DEF ContextOf
  <2>2. \A f \in frames : f.at \in Nat
    BY LogTypes DEF TypeOK
  <2>3. \A s \in sessions : s.end # None => s.end \in Nat
    BY <1>4, LogTypes DEF SessionRow
  <2>4. QED
    BY <2>1, <2>2, <2>3
<1>6. QED
  BY <1>2, <1>3, <1>4, <1>5 DEF Readable

-----------------------------------------------------------------------------
(* The machine and the application.                                        *)

MachineOK ==
  /\ load \in Loads /\ clock \in Time /\ on \in BOOLEAN /\ up \in BOOLEAN
  /\ up => on
  /\ fell \in Time \cup {None}
  /\ boots \in Seq([at : Time, fell : Time \cup {None}]) /\ boots # <<>>
  /\ log \in Seq(Events)
  /\ sessions \subseteq [boot : DOMAIN boots, at : Time, start : Time, end : Time \cup {None}]
  /\ frames \subseteq [boot : DOMAIN boots, at : Time]

TablesOK ==
  /\ stored \subseteq LogRows
  /\ cursor \in [at : Time, id : DOMAIN log] \cup {None}
  /\ cases \in Seq(CaseRow) /\ holds \in Seq(HoldRow(cases))
  /\ Cardinality(Active(holds)) <= Limit
  /\ Following(cases, holds)
  /\ scan \in [phase : {"rest", "read", "build", "due"}, now : Time, todo : Seq(DOMAIN cases)]

\* The inductive invariant: the types, and holds that follow their cases.
IInv == MachineOK /\ TablesOK

LEMMA InvGivesTypes == IInv => TypeOK
BY Zenon DEF IInv, MachineOK, TablesOK, TypeOK, LogRows, CaseRow, HoldRow, Reboots

\* What is logged at a start of boot n, in a log of that length.
StartRow(n, length) ==
  [id : 1 .. length, at : Time, kind : Crashed \cup {"Boot", "Shutdown"},
   prev : Time \cup {None}, boot : {n}]

\* It comes after what was there.
LEMMA LoggedTypes ==
  ASSUME load.time \in Nat, NEW before, NEW row, before \in Seq(row), NEW n, NEW at \in Time,
         NEW fallen \in Time \cup {None}, NEW new \in Logged(before, n, at, fallen)
  PROVE  /\ Len(before) \in Nat /\ Len(new) \in Nat /\ Len(before) <= Len(new)
         /\ DOMAIN before = 1 .. Len(before) /\ DOMAIN new = 1 .. Len(new)
         /\ new \in Seq(row \cup StartRow(n, Len(new)))
         /\ \A i \in 1 .. Len(before) : new[i] = before[i]
         /\ \A i \in 1 .. Len(new) : i > Len(before) => new[i] \in StartRow(n, Len(new))
<1> DEFINE Says == [kind : Crashed \cup {"Boot"}, tells : BOOLEAN]
           texts == IF fallen = None THEN {<<Record("Boot")>>} ELSE Startups
           entry(records, i) ==
             [id |-> Len(before) + i, at |-> at, kind |-> records[i].kind,
              prev |-> IF records[i].tells THEN fallen ELSE None, boot |-> n]
<1>1. texts \subseteq Seq(Says)
  <2>1. Record("Boot") \in Says
    BY DEF Record
  <2>2. <<Record("Boot")>> \in Seq(Says)
    <3> HIDE DEF Says
    <3> QED
      BY <2>1
  <2>3. QED
    BY <2>2, CrashAssumption
<1>2. Logged(before, n, at, fallen) =
        {before \o [i \in DOMAIN records |-> entry(records, i)] : records \in texts}
  BY Zenon DEF Logged
<1>3. PICK records \in texts : new = before \o [i \in DOMAIN records |-> entry(records, i)]
  <2> HIDE DEF texts, entry
  <2> QED
    BY <1>2
<1>4. /\ DOMAIN records = 1 .. Len(records) /\ Len(records) \in Nat
      /\ \A i \in 1 .. Len(records) : records[i] \in Says
  <2>1. records \in Seq(Says)
    BY <1>1
  <2> HIDE DEF Says
  <2>2. QED
    BY <2>1, LenProperties, ElementOfSeq
<1>5. Len(before) \in Nat /\ DOMAIN before = 1 .. Len(before)
  BY LenProperties
<1> DEFINE tail == [i \in 1 .. Len(records) |-> entry(records, i)]
           rows == StartRow(n, Len(before) + Len(records))
<1>6. \A i \in 1 .. Len(records) : entry(records, i) \in rows
  BY <1>4, <1>5 DEF StartRow
<1> HIDE DEF entry
<1>7. tail \in [1 .. Len(records) -> rows] /\ \A i \in 1 .. Len(records) : tail[i] \in rows
  BY <1>6
<1>8. new = before \o tail
  BY <1>3, <1>4
<1> HIDE DEF rows, tail
<1>9. tail \in Seq(rows) /\ Len(tail) = Len(records)
  BY <1>4, <1>7
<1>10. /\ Len(new) = Len(before) + Len(records)
       /\ \A i \in 1 .. Len(before) : new[i] = before[i]
       /\ \A i \in 1 .. Len(new) : i > Len(before) => new[i] = tail[i - Len(before)]
       /\ DOMAIN new = 1 .. Len(new) /\ new \in Seq(row \cup rows)
  <2>1. before \in Seq(row \cup rows) /\ tail \in Seq(row \cup rows)
    BY <1>9, SeqMonotonic
  <2> DEFINE any == row \cup rows
  <2>2. before \in Seq(any) /\ tail \in Seq(any)
    BY <2>1
  <2> HIDE DEF any
  <2>3. /\ new \in Seq(any) /\ Len(new) = Len(before) + Len(tail)
        /\ \A i \in 1 .. Len(before) + Len(tail) :
             new[i] = IF i <= Len(before) THEN before[i] ELSE tail[i - Len(before)]
    BY <1>8, <2>2, ConcatProperties
  <2>4. DOMAIN new = 1 .. Len(new)
    BY <2>3, LenProperties
  <2>5. new \in Seq(row \cup rows)
    BY <2>3 DEF any
  <2>6. Len(tail) = Len(records)
    BY <1>9
  <2>7. QED
    BY <1>4, <1>5, <2>3, <2>4, <2>5, <2>6
<1>11. ASSUME NEW i \in 1 .. Len(new), i > Len(before)
       PROVE  new[i] \in rows
  <2>1. i - Len(before) \in 1 .. Len(records)
    BY <1>4, <1>5, <1>10, <1>11
  <2>2. QED
    BY <1>7, <1>10, <1>11, <2>1
<1>12. rows = StartRow(n, Len(new))
  BY <1>10 DEF rows
<1>13. QED
  BY <1>4, <1>5, <1>10, <1>11, <1>12

\* A log that goes on keeps its events.
LEMMA LogGoesOn ==
  ASSUME IInv, UNCHANGED load, DOMAIN boots \subseteq DOMAIN boots',
         NEW n \in Nat, NEW m \in Nat, DOMAIN log = 1 .. m, m <= n,
         log' = [i \in 1 .. n |-> log'[i]],
         \A i \in 1 .. m : log'[i] = log[i],
         \A i \in 1 .. n : i > m => log'[i] \in Events'
  PROVE  /\ log' \in Seq(Events') /\ LogRows \subseteq LogRows'
         /\ DOMAIN log \subseteq DOMAIN log'
<1>1. \A i \in 1 .. m : log[i] \in Events
  BY ElementOfSeq, LenProperties DEF IInv, MachineOK
<1>2. DOMAIN log' = 1 .. n
  BY Zenon
<1>3. Time' = Time
  BY DEF Time
<1>4. Events \subseteq Events'
  BY <1>2, <1>3 DEF Events
<1>5. \A i \in 1 .. n : log'[i] \in Events'
  BY <1>1, <1>4
<1>6. log' \in [1 .. n -> Events']
  BY <1>5
<1>7. log' \in Seq(Events')
  BY <1>6
<1>8. LogRows \subseteq LogRows'
  BY <1>2 DEF LogRows
<1>9. QED
  BY <1>2, <1>7, <1>8

\* The tables stay right while the log goes on.
LEMMA TablesStay ==
  ASSUME IInv, UNCHANGED <<load, tables>>, scan' \in {scan, AtRest},
         LogRows \subseteq LogRows', DOMAIN log \subseteq DOMAIN log'
  PROVE  TablesOK'
<1>1. Time' = Time /\ load.time \in Nat
  BY CrashAssumption DEF Time, IInv, MachineOK
<1>2. CaseRow' = CaseRow /\ HoldRow(cases)' = HoldRow(cases)
      /\ Active(holds)' = Active(holds)
      /\ Following(cases, holds)' = Following(cases, holds)
  BY <1>1 DEF CaseRow, HoldRow, Following, Active, tables
<1>3. AtRest \in [phase : {"rest", "read", "build", "due"}, now : Time, todo : Seq(DOMAIN cases)]
  BY <1>1 DEF AtRest, Time
<1>4. scan' \in [phase : {"rest", "read", "build", "due"}, now : Time', todo : Seq(DOMAIN cases')]
  BY <1>1, <1>3 DEF IInv, TablesOK, tables
<1>5. stored' \subseteq LogRows' /\ cursor' \in [at : Time', id : DOMAIN log'] \cup {None}
  BY <1>1 DEF IInv, TablesOK, tables
<1>6. QED
  BY <1>2, <1>4, <1>5 DEF IInv, TablesOK, tables

LEMMA TimesStay ==
  ASSUME UNCHANGED load
  PROVE  Time' = Time
BY DEF Time

LEMMA MachineStays ==
  ASSUME IInv, UNCHANGED <<machine, load>>, clock' \in Time, up' \in {up, FALSE},
         sessions' \subseteq [boot : DOMAIN boots, at : Time, start : Time, end : Time \cup {None}],
         frames' \subseteq [boot : DOMAIN boots, at : Time]
  PROVE  MachineOK' /\ LogRows' = LogRows /\ log' = log
<1>1. Time' = Time
  BY TimesStay
<1>2. Events' = Events
  BY <1>1 DEF Events, machine
<1>3. on' = on /\ boots' = boots /\ fell' = fell /\ log' = log /\ load' = load
  BY DEF machine
<1>4. LogRows' = LogRows
  BY <1>3 DEF LogRows
<1>5. up' \in BOOLEAN /\ (up' => on')
  <2>1. up \in BOOLEAN /\ (up => on)
    BY DEF IInv, MachineOK
  <2>2. CASE up' = up
    BY <1>3, <2>1, <2>2, Zenon
  <2>3. CASE up' = FALSE
    BY <2>3, Zenon
  <2>4. QED
    BY <2>2, <2>3, Zenon
<1>6. MachineOK'
  <2>1. log' \in Seq(Events')
    BY <1>2, <1>3 DEF IInv, MachineOK
  <2>2. boots' \in Seq([at : Time', fell : Time' \cup {None}]) /\ boots' # <<>>
    BY <1>1, <1>3 DEF IInv, MachineOK
  <2>3. /\ load' \in Loads /\ clock' \in Time' /\ on' \in BOOLEAN /\ fell' \in Time' \cup {None}
    BY <1>1, <1>3 DEF IInv, MachineOK
  <2>4. sessions' \subseteq [boot : DOMAIN boots', at : Time', start : Time',
                             end : Time' \cup {None}]
        /\ frames' \subseteq [boot : DOMAIN boots', at : Time']
    BY <1>1, <1>3
  <2>5. QED
    BY <1>5, <2>1, <2>2, <2>3, <2>4 DEF MachineOK
<1>7. QED
  BY <1>3, <1>4, <1>6

LEMMA BootTypes ==
  ASSUME IInv
  PROVE  /\ DOMAIN boots = 1 .. Len(boots) /\ Len(boots) \in DOMAIN boots
         /\ boots[Len(boots)].at \in Time /\ boots[Len(boots)].fell \in Time \cup {None}
         /\ DOMAIN log = 1 .. Len(log) /\ Len(log) \in Nat /\ Len(boots) \in Nat
         /\ clock \in Nat /\ load.time \in Nat /\ Time \subseteq Nat
<1>1. load.time \in Nat \ {0}
  BY CrashAssumption DEF IInv, MachineOK
<1>2. boots \in Seq([at : Time, fell : Time \cup {None}]) /\ boots # <<>>
      /\ log \in Seq(Events) /\ clock \in Time
  BY DEF IInv, MachineOK
<1>3. /\ DOMAIN boots = 1 .. Len(boots) /\ Len(boots) \in Nat \ {0}
      /\ DOMAIN log = 1 .. Len(log) /\ Len(log) \in Nat
  BY <1>2, LenProperties, EmptySeq
<1>4. boots[Len(boots)] \in [at : Time, fell : Time \cup {None}]
  <2> DEFINE run == [at : Time, fell : Time \cup {None}]
  <2>1. boots \in Seq(run) /\ Len(boots) \in 1 .. Len(boots)
    BY <1>2, <1>3
  <2> HIDE DEF run
  <2>2. boots[Len(boots)] \in run
    BY <2>1, ElementOfSeq
  <2>3. QED
    BY <2>2 DEF run
<1>5. QED
  BY <1>1, <1>2, <1>3, <1>4 DEF Time

LEMMA PowerOnKeeps ==
  ASSUME IInv, PowerOn
  PROVE  IInv'
<1>1. Time' = Time /\ UNCHANGED load
  BY TimesStay DEF PowerOn, budget
<1>2. clock' \in Time
  BY BootTypes, <1>1 DEF PowerOn, Time
<1> DEFINE run == [at |-> clock', fell |-> fell]
<1>3. run \in [at : Time, fell : Time \cup {None}]
  BY <1>2 DEF IInv, MachineOK
<1>4. /\ boots' \in Seq([at : Time, fell : Time \cup {None}]) /\ boots' # <<>>
      /\ Len(boots') = Len(boots) + 1 /\ DOMAIN boots' = 1 .. Len(boots) + 1
  <2>1. boots' = Append(boots, run) /\ boots \in Seq([at : Time, fell : Time \cup {None}])
    BY DEF PowerOn, IInv, MachineOK
  <2> HIDE DEF run
  <2>2. QED
    BY <1>3, <2>1
<1>5. DOMAIN boots \subseteq DOMAIN boots' /\ Len(boots') \in DOMAIN boots'
  BY <1>4, BootTypes
<1>6. log' \in Logged(log, Len(boots'), clock', fell) /\ log \in Seq(Events)
      /\ fell \in Time \cup {None}
  BY DEF PowerOn, IInv, MachineOK
<1>7. /\ Len(log) \in Nat /\ Len(log') \in Nat /\ Len(log) <= Len(log')
      /\ DOMAIN log = 1 .. Len(log) /\ DOMAIN log' = 1 .. Len(log')
      /\ log' \in Seq(Events \cup StartRow(Len(boots'), Len(log')))
      /\ \A i \in 1 .. Len(log) : log'[i] = log[i]
      /\ \A i \in 1 .. Len(log') : i > Len(log) => log'[i] \in StartRow(Len(boots'), Len(log'))
  BY <1>2, <1>6, BootTypes, LoggedTypes
<1>8. \A i \in 1 .. Len(log') : i > Len(log) => log'[i] \in Events'
  BY <1>1, <1>5, <1>7 DEF Events, StartRow
<1>9. log' = [i \in 1 .. Len(log') |-> log'[i]]
  <2> DEFINE any == Events \cup StartRow(Len(boots'), Len(log'))
  <2>1. log' \in Seq(any)
    BY <1>7
  <2> HIDE DEF any
  <2>2. log' \in [1 .. Len(log') -> any]
    BY <2>1, LenProperties
  <2>3. QED
    BY <2>2
<1>10. log' \in Seq(Events') /\ LogRows \subseteq LogRows' /\ DOMAIN log \subseteq DOMAIN log'
  BY <1>1, <1>5, <1>7, <1>8, <1>9, LogGoesOn
<1>11. TablesOK'
  BY <1>1, <1>10, TablesStay DEF PowerOn
<1>12. MachineOK'
  <2>1. sessions' \subseteq [boot : DOMAIN boots', at : Time', start : Time',
                             end : Time' \cup {None}]
        /\ frames' \subseteq [boot : DOMAIN boots', at : Time']
    BY <1>1, <1>5 DEF PowerOn, IInv, MachineOK
  <2>2. fell' \in Time' \cup {None} /\ on' \in BOOLEAN /\ up' \in BOOLEAN /\ (up' => on')
    BY DEF PowerOn, IInv, MachineOK
  <2>3. load' \in Loads
    BY <1>1 DEF IInv, MachineOK
  <2>4. QED
    BY <1>1, <1>2, <1>4, <1>10, <2>1, <2>2, <2>3 DEF MachineOK
<1>13. QED
  BY <1>11, <1>12 DEF IInv

\* One more event, of this boot.
LEMMA OneMoreEvent ==
  ASSUME IInv, UNCHANGED <<boots, load>>, NEW kind \in Crashed \cup {"Boot", "Shutdown"},
         log' = Append(log, [id |-> Len(log) + 1, at |-> clock, kind |-> kind,
                             prev |-> None, boot |-> Len(boots)])
  PROVE  /\ log' \in Seq(Events') /\ LogRows \subseteq LogRows'
         /\ DOMAIN log \subseteq DOMAIN log'
<1> DEFINE e == [id |-> Len(log) + 1, at |-> clock, kind |-> kind, prev |-> None,
                 boot |-> Len(boots)]
           n == Len(log) + 1
<1>1. Time' = Time /\ clock \in Time /\ log \in Seq(Events)
  BY TimesStay DEF IInv, MachineOK
<1>2. n \in Nat /\ Len(log) \in Nat /\ Len(log) <= n /\ DOMAIN log = 1 .. Len(log)
  BY BootTypes
<1>3. /\ DOMAIN log' = 1 .. n /\ log' = [i \in 1 .. n |-> log'[i]]
      /\ \A i \in 1 .. Len(log) : log'[i] = log[i]
      /\ log'[n] = e
  <2> HIDE DEF e
  <2>1. log' = Append(log, e)
    BY DEF e
  <2> DEFINE any == Events \cup {e}
  <2>2. log \in Seq(any) /\ e \in any
    BY <1>1, SeqMonotonic
  <2> HIDE DEF any
  <2>3. log' \in Seq(any) /\ Len(log') = n
    BY <2>1, <2>2
  <2>4. log' \in [1 .. n -> any]
    BY <2>3, LenProperties
  <2>5. \A i \in 1 .. Len(log) : log'[i] = log[i]
    BY <1>2, <2>1, <2>2
  <2>6. log'[n] = e
    BY <1>2, <2>1, <2>2
  <2> HIDE DEF n
  <2>7. QED
    BY <2>4, <2>5, <2>6
<1>4. e \in Events'
  <2>1. Len(log) + 1 \in DOMAIN log' /\ Len(boots) \in DOMAIN boots'
    BY <1>2, <1>3, BootTypes
  <2>2. QED
    BY <1>1, <2>1 DEF Events
<1>5. \A i \in 1 .. n : i > Len(log) => log'[i] \in Events'
  BY <1>2, <1>3, <1>4
<1> HIDE DEF n
<1>6. QED
  BY <1>2, <1>3, <1>5, LogGoesOn

LEMMA ShutDownKeeps ==
  ASSUME IInv, ShutDown
  PROVE  IInv'
<1>1. Time' = Time /\ UNCHANGED load
  BY TimesStay DEF ShutDown, budget
<1>2. log' \in Seq(Events') /\ LogRows \subseteq LogRows' /\ DOMAIN log \subseteq DOMAIN log'
  BY <1>1, OneMoreEvent DEF ShutDown
<1>3. TablesOK'
  BY <1>1, <1>2, TablesStay DEF ShutDown
<1>4. clock \in Time
  BY DEF IInv, MachineOK
<1>5. sessions' \subseteq [boot : DOMAIN boots, at : Time, start : Time, end : Time \cup {None}]
  <2>1. \A s \in sessions :
          s \in [boot : DOMAIN boots, at : Time, start : Time, end : Time \cup {None}]
    BY DEF IInv, MachineOK
  <2>2. \A s \in sessions' : \E r \in sessions : s = r \/ s = [r EXCEPT !.end = clock]
    BY DEF ShutDown
  <2>3. QED
    BY <1>4, <2>1, <2>2
<1>6. /\ load' \in Loads /\ clock' \in Time' /\ on' = FALSE /\ up' = FALSE
      /\ fell' \in Time' \cup {None}
      /\ boots' \in Seq([at : Time', fell : Time' \cup {None}]) /\ boots' # <<>>
      /\ frames' \subseteq [boot : DOMAIN boots', at : Time'] /\ boots' = boots
  BY <1>1 DEF ShutDown, IInv, MachineOK
<1>7. MachineOK'
  BY <1>1, <1>2, <1>5, <1>6 DEF MachineOK
<1>8. QED
  BY <1>3, <1>7 DEF IInv

LEMMA BreaksOffKeeps ==
  ASSUME IInv, BreaksOff
  PROVE  IInv'
<1>1. Time' = Time /\ UNCHANGED load
  BY TimesStay DEF BreaksOff, budget
<1>2. log' = log /\ LogRows' = LogRows /\ Events' = Events /\ boots' = boots
  BY <1>1 DEF BreaksOff, LogRows, Events
<1>3. TablesOK'
  BY <1>1, <1>2, TablesStay DEF BreaksOff
<1>4. /\ load' \in Loads /\ clock' \in Time' /\ on' = FALSE /\ up' = FALSE
      /\ fell' \in Time' \cup {None}
      /\ boots' \in Seq([at : Time', fell : Time' \cup {None}]) /\ boots' # <<>>
      /\ frames' \subseteq [boot : DOMAIN boots', at : Time']
  BY <1>1 DEF BreaksOff, IInv, MachineOK
<1>5. /\ sessions' \subseteq [boot : DOMAIN boots', at : Time', start : Time',
                             end : Time' \cup {None}]
      /\ log' \in Seq(Events')
  BY <1>1, <1>2 DEF BreaksOff, IInv, MachineOK
<1>6. MachineOK'
  BY <1>4, <1>5 DEF MachineOK
<1>7. QED
  BY <1>3, <1>6 DEF IInv

LEMMA WerReportsKeeps ==
  ASSUME IInv, WerReports
  PROVE  IInv'
<1>1. Time' = Time /\ UNCHANGED load
  BY TimesStay DEF WerReports, budget
<1>2. log' \in Seq(Events') /\ LogRows \subseteq LogRows' /\ DOMAIN log \subseteq DOMAIN log'
  BY <1>1, OneMoreEvent DEF WerReports, Crashed
<1>3. TablesOK'
  BY <1>1, <1>2, TablesStay DEF WerReports
<1>4. /\ load' \in Loads /\ clock' \in Time' /\ fell' \in Time' \cup {None}
      /\ boots' \in Seq([at : Time', fell : Time' \cup {None}]) /\ boots' # <<>>
      /\ frames' \subseteq [boot : DOMAIN boots', at : Time']
  BY <1>1 DEF WerReports, IInv, MachineOK
<1>5. sessions' \subseteq [boot : DOMAIN boots', at : Time', start : Time', end : Time' \cup {None}]
  BY <1>1 DEF WerReports, IInv, MachineOK
<1>6. on' \in BOOLEAN /\ up' \in BOOLEAN /\ (up' => on')
  <2>1. on' = on /\ up' = up
    BY DEF WerReports
  <2>2. on \in BOOLEAN /\ up \in BOOLEAN /\ (up => on)
    BY DEF IInv, MachineOK
  <2>3. QED
    BY <2>1, <2>2, Zenon
<1>7. MachineOK'
  BY <1>2, <1>4, <1>5, <1>6 DEF MachineOK
<1>8. QED
  BY <1>3, <1>7 DEF IInv

\* A step outside the log and the tables.
LEMMA OutsideKeeps ==
  ASSUME IInv, UNCHANGED <<machine, load, tables>>, scan' \in {scan, AtRest},
         clock' \in Time, up' \in {up, FALSE},
         sessions' \subseteq [boot : DOMAIN boots, at : Time, start : Time, end : Time \cup {None}],
         frames' \subseteq [boot : DOMAIN boots, at : Time]
  PROVE  IInv'
<1>1. MachineOK' /\ LogRows' = LogRows /\ log' = log
  BY MachineStays
<1>2. TablesOK'
  BY <1>1, TablesStay
<1>3. QED
  BY <1>1, <1>2 DEF IInv

LEMMA AppStartsKeeps ==
  ASSUME IInv, AppStarts
  PROVE  IInv'
<1>1. Time' = Time /\ UNCHANGED <<machine, load, tables, scan, clock, frames>>
  BY TimesStay DEF AppStarts, budget
<1>2. sessions' \subseteq [boot : DOMAIN boots, at : Time, start : Time, end : Time \cup {None}]
  <2>1. [boot |-> Len(boots), at |-> boots[Len(boots)].at, start |-> clock, end |-> None]
          \in [boot : DOMAIN boots, at : Time, start : Time, end : Time \cup {None}]
    BY BootTypes DEF IInv, MachineOK
  <2>2. QED
    BY <2>1 DEF AppStarts, IInv, MachineOK
<1>3. TablesOK'
  <2>1. LogRows' = LogRows /\ log' = log
    BY <1>1 DEF machine, LogRows
  <2>2. QED
    BY <1>1, <2>1, TablesStay
<1>4. on' \in BOOLEAN /\ up' \in BOOLEAN /\ (up' => on')
  <2>1. on' = on /\ on /\ up'
    BY <1>1, Zenon DEF AppStarts, machine
  <2>2. on \in BOOLEAN /\ up' = TRUE
    BY Zenon DEF IInv, MachineOK, AppStarts
  <2>3. QED
    BY <2>1, <2>2, Zenon
<1>5. /\ load' \in Loads /\ clock' \in Time' /\ fell' \in Time' \cup {None}
      /\ boots' \in Seq([at : Time', fell : Time' \cup {None}]) /\ boots' # <<>>
      /\ frames' \subseteq [boot : DOMAIN boots', at : Time'] /\ boots' = boots
  BY <1>1 DEF machine, IInv, MachineOK
<1>6. Events' = Events /\ log' = log
  BY <1>1 DEF Events, machine
<1>7. log' \in Seq(Events')
  BY <1>6 DEF IInv, MachineOK
<1>8. sessions' \subseteq [boot : DOMAIN boots', at : Time', start : Time', end : Time' \cup {None}]
  BY <1>1, <1>2, <1>5
<1>9. MachineOK'
  BY <1>4, <1>5, <1>7, <1>8 DEF MachineOK
<1>10. QED
  BY <1>3, <1>9 DEF IInv

\* Time, the application, and a round that is given up.
LEMMA OutsideSteps ==
  ASSUME IInv, Tick \/ AppEnds \/ Sample \/ Prune \/ Clear \/ ReadFails
  PROVE  IInv'
<1>1. /\ sessions \subseteq [boot : DOMAIN boots, at : Time, start : Time, end : Time \cup {None}]
      /\ frames \subseteq [boot : DOMAIN boots, at : Time] /\ clock \in Time
  BY DEF IInv, MachineOK
<1>2. UNCHANGED <<machine, load, tables, sessions>> /\ scan' \in {scan, AtRest}
  BY DEF Tick, AppEnds, Sample, Prune, Clear, ReadFails, budget
<1>3. clock' \in Time
  <2>1. CASE Tick
    BY <2>1, BootTypes DEF Tick, Time
  <2>2. CASE ~Tick
    BY <1>1, <2>2 DEF AppEnds, Sample, Prune, Clear, ReadFails
  <2>3. QED
    BY <2>1, <2>2
<1>4. up' \in {up, FALSE}
  BY Zenon DEF Tick, AppEnds, Sample, Prune, Clear, ReadFails
<1>5. frames' \subseteq [boot : DOMAIN boots, at : Time]
  <2>1. CASE Sample
    BY <1>1, <2>1, BootTypes DEF Sample
  <2>2. CASE ~Sample
    BY <1>1, <2>2 DEF Tick, AppEnds, Prune, Clear, ReadFails
  <2>3. QED
    BY <2>1, <2>2
<1>6. QED
  BY <1>1, <1>2, <1>3, <1>4, <1>5, OutsideKeeps

-----------------------------------------------------------------------------
(* The detector's thread, and the user.                                    *)

Rounds == [phase : {"rest", "read", "build", "due"}, now : Time, todo : Seq(DOMAIN cases)]

\* The log and the machine do not move while the thread or the user does.
LEMMA ThreadSteps ==
  ASSUME IInv, UNCHANGED <<clock, machine, up, sessions, frames, load>>
  PROVE  MachineOK' /\ LogRows' = LogRows /\ log' = log /\ Time' = Time
BY MachineStays, TimesStay DEF IInv, MachineOK

LEMMA BeginRoundKeeps ==
  ASSUME IInv, BeginRound
  PROVE  IInv'
<1>1. UNCHANGED <<clock, machine, up, sessions, frames, load, tables>>
  BY DEF BeginRound, budget
<1>2. MachineOK' /\ LogRows' = LogRows /\ log' = log /\ Time' = Time
  BY <1>1, ThreadSteps
<1>3. clock \in Time
  BY DEF IInv, MachineOK
<1>4. scan' \in Rounds'
  BY <1>2, <1>3 DEF BeginRound, Rounds, tables
<1>5. CaseRow' = CaseRow /\ HoldRow(cases)' = HoldRow(cases)
      /\ Active(holds)' = Active(holds)
      /\ Following(cases, holds)' = Following(cases, holds)
  BY <1>1, <1>2 DEF CaseRow, HoldRow, Following, Active, tables
<1>6. TablesOK'
  BY <1>1, <1>2, <1>4, <1>5 DEF TablesOK, IInv, tables, Rounds
<1>7. QED
  BY <1>2, <1>6 DEF IInv

LEMMA CaughtUpKeeps ==
  ASSUME IInv, CaughtUp
  PROVE  IInv'
<1>1. UNCHANGED <<clock, machine, up, sessions, frames, load, tables>>
  BY DEF CaughtUp, budget
<1>2. MachineOK' /\ LogRows' = LogRows /\ log' = log /\ Time' = Time
  BY <1>1, ThreadSteps
<1>3. DueInOrder \in Seq(DOMAIN cases)
  BY DueInOrderTypes, BootTypes DEF IInv, TablesOK
<1>4. scan' \in Rounds'
  <2>1. scan \in Rounds
    BY DEF IInv, TablesOK, Rounds
  <2>2. AtRest \in Rounds
    BY BootTypes DEF AtRest, Rounds, Time
  <2>3. [scan EXCEPT !.phase = "due", !.todo = DueInOrder] \in Rounds
    BY <1>3, <2>1 DEF Rounds
  <2>4. Rounds' = Rounds
    BY <1>1, <1>2 DEF Rounds, tables
  <2>5. QED
    BY <2>2, <2>3, <2>4 DEF CaughtUp
<1>5. CaseRow' = CaseRow /\ HoldRow(cases)' = HoldRow(cases)
      /\ Active(holds)' = Active(holds)
      /\ Following(cases, holds)' = Following(cases, holds)
  BY <1>1, <1>2 DEF CaseRow, HoldRow, Following, Active, tables
<1>6. TablesOK'
  BY <1>1, <1>2, <1>4, <1>5 DEF TablesOK, IInv, tables, Rounds
<1>7. QED
  BY <1>2, <1>6 DEF IInv

LEMMA ReadPageKeeps ==
  ASSUME IInv, ReadPage
  PROVE  IInv'
<1>1. UNCHANGED <<clock, machine, up, sessions, frames, load>>
  BY DEF ReadPage, budget
<1>2. MachineOK' /\ LogRows' = LogRows /\ log' = log /\ Time' = Time
  BY <1>1, ThreadSteps
<1>3. TypeOK /\ load.time \in Nat
  BY InvGivesTypes, BootTypes
<1>4. NextPage # {} /\ cursor' = CursorAfter(NextPage) /\ stored' = stored \cup NextPage
  BY DEF ReadPage, MoveCursor
<1>5. stored' \subseteq LogRows
  BY <1>4, PageIsLogged DEF IInv, TablesOK
<1>6. cursor' \in [at : Time, id : DOMAIN log]
  BY <1>3, <1>4, CursorTypes
<1> DEFINE context == ContextOf(NextPage, stored')
           made == CreateCases(Candidates(context))
<1>7. Candidates(context) \in Seq(Crash)
  <2>1. Readable(context)
    BY <1>3, <1>5, ContextIsReadable
  <2> HIDE DEF context
  <2>2. QED
    BY <1>3, <2>1, CandidatesTypes
<1>8. Filing([cases |-> cases, holds |-> holds, ids |-> {}])
  BY DEF Filing, IInv, TablesOK
<1>9. Persist(Links(context), made)
  BY DEF ReadPage
<1> HIDE DEF context
<1>10. Filing(made)
  BY <1>3, <1>7, <1>8, CreateCasesFile
<1> HIDE DEF made
<1>11. cases' = made.cases /\ holds' = made.holds
  BY <1>9 DEF Persist
<1>12. InOrder(made.ids) \in Seq(DOMAIN made.cases)
  <2>1. DOMAIN made.cases = 1 .. Len(made.cases) /\ Len(made.cases) \in Nat
    BY <1>10, LenProperties DEF Filing
  <2>2. made.ids \subseteq DOMAIN made.cases
    BY <1>10 DEF Filing
  <2>3. InOrder(made.ids) \in Seq(made.ids)
    BY <2>1, <2>2, InOrderTypes
  <2>4. QED
    BY <2>2, <2>3, SeqMonotonic
<1>13. scan' \in Rounds'
  <2>1. scan.now \in Time /\ DOMAIN scan = {"phase", "now", "todo"}
    BY DEF IInv, TablesOK
  <2>2. scan' = [phase |-> IF made.ids = {} THEN "read" ELSE "build", now |-> scan.now,
                 todo |-> InOrder(made.ids)]
    BY <1>9 DEF Persist, IInv, TablesOK
  <2>3. QED
    BY <1>2, <1>11, <1>12, <2>1, <2>2 DEF Rounds
<1>14. /\ cases' \in Seq(CaseRow') /\ holds' \in Seq(HoldRow(cases)')
       /\ Cardinality(Active(holds)') <= Limit /\ Following(cases, holds)'
  <2>1. CaseRow' = CaseRow
    BY <1>2 DEF CaseRow
  <2>2. HoldRow(cases)' = HoldRow(made.cases)
    BY <1>2, <1>11 DEF HoldRow
  <2>3. Active(holds)' = Active(made.holds)
    BY <1>11 DEF Active
  <2>4. Following(cases, holds)' = Following(made.cases, made.holds)
    BY <1>11, <2>3 DEF Following
  <2>5. QED
    BY <1>10, <1>11, <2>1, <2>2, <2>3, <2>4 DEF Filing
<1>15. TablesOK'
  BY <1>2, <1>5, <1>6, <1>13, <1>14 DEF TablesOK, Rounds
<1>16. QED
  BY <1>2, <1>15 DEF IInv

\* Building a case does not move it.
LEMMA BuiltTypes ==
  ASSUME NEW row \in CaseRow, NEW id, NEW now
  PROVE  Built(row, id, now) \in CaseRow /\ Built(row, id, now).anchor = row.anchor
<1>1. CASE id \notin Held
  BY <1>1 DEF Built, CaseRow
<1>2. CASE id \in Held
  <2>1. PICK status \in {"pending", "post_pending", "partial", "complete", "failed"} :
          Built(row, id, now) = [row EXCEPT !.built = row.anchor, !.status = status]
    BY <1>2 DEF Built
  <2>2. QED
    BY <2>1 DEF CaseRow
<1>3. QED
  BY <1>1, <1>2

LEMMA AfterBuildTypes ==
  ASSUME IInv, scan.todo # <<>>, NEW failed
  PROVE  AfterBuild(failed) \in Rounds
<1>1. scan \in Rounds
  BY DEF IInv, TablesOK, Rounds
<1>2. scan.todo \in Seq(DOMAIN cases) /\ Tail(scan.todo) \in Seq(DOMAIN cases)
  <2>1. scan.todo \in Seq(DOMAIN cases)
    BY <1>1 DEF Rounds
  <2>2. QED
    BY <2>1, HeadTailProperties
<1>3. AtRest \in Rounds
  BY BootTypes DEF AtRest, Rounds, Time
<1>4. AfterBuild(failed) \in
        {[scan EXCEPT !.todo = Tail(scan.todo)], [scan EXCEPT !.phase = "read", !.todo = <<>>],
         AtRest}
  BY DEF AfterBuild
<1>5. [scan EXCEPT !.todo = Tail(scan.todo)] \in Rounds
      /\ [scan EXCEPT !.phase = "read", !.todo = <<>>] \in Rounds
  <2>1. scan \in [phase : {"rest", "read", "build", "due"}, now : Time, todo : Seq(DOMAIN cases)]
    BY <1>1 DEF Rounds
  <2> DEFINE todos == Seq(DOMAIN cases)
             rest == Tail(scan.todo)
  <2>2. rest \in todos /\ <<>> \in todos
    BY <1>2, EmptySeq
  <2> HIDE DEF todos, rest
  <2>3. [scan EXCEPT !.todo = rest] \in Rounds
    BY <2>1, <2>2 DEF Rounds, todos
  <2>4. [scan EXCEPT !.phase = "read", !.todo = <<>>] \in Rounds
    BY <2>1, <2>2 DEF Rounds, todos
  <2>5. QED
    BY <2>3, <2>4 DEF rest
<1>6. QED
  BY <1>3, <1>4, <1>5

\* Rewriting a case where it stands keeps the tables.
LEMMA RewritingKeeps ==
  ASSUME IInv, UNCHANGED <<clock, machine, up, sessions, frames, load, stored, cursor, holds>>,
         scan' \in Rounds, NEW id \in DOMAIN cases, NEW row \in CaseRow,
         row.anchor = cases[id].anchor, cases' = [cases EXCEPT ![id] = row]
  PROVE  IInv'
<1>1. MachineOK' /\ LogRows' = LogRows /\ log' = log /\ Time' = Time
  BY ThreadSteps
<1>2. cases \in Seq(CaseRow) /\ DOMAIN cases = 1 .. Len(cases)
  BY LenProperties DEF IInv, TablesOK
<1>3. cases' \in Seq(CaseRow) /\ DOMAIN cases' = DOMAIN cases
      /\ \A k \in DOMAIN cases : cases'[k].anchor = cases[k].anchor
  BY <1>2, ExceptSeq
<1>4. CaseRow' = CaseRow /\ HoldRow(cases)' = HoldRow(cases) /\ Active(holds)' = Active(holds)
      /\ Rounds' = Rounds
  BY <1>1, <1>3 DEF CaseRow, HoldRow, Active, Rounds
<1>5. \A i \in Active(holds) : holds[i].case \in DOMAIN cases
  <2>1. holds \in Seq(HoldRow(cases))
    BY DEF IInv, TablesOK
  <2>2. \A i \in DOMAIN holds : holds[i] \in HoldRow(cases)
    BY <2>1, LenProperties, ElementOfSeq
  <2>3. QED
    BY <2>2 DEF Active, HoldRow
<1>6. Following(cases, holds)'
  BY <1>3, <1>4, <1>5 DEF Following, IInv, TablesOK
<1>7. TablesOK'
  BY <1>1, <1>3, <1>4, <1>6 DEF TablesOK, IInv, Rounds
<1>8. QED
  BY <1>1, <1>7 DEF IInv

LEMMA HeadIsACase ==
  ASSUME IInv, scan.todo # <<>>
  PROVE  Head(scan.todo) \in DOMAIN cases /\ cases[Head(scan.todo)] \in CaseRow
<1>1. scan.todo \in Seq(DOMAIN cases) /\ cases \in Seq(CaseRow)
  BY DEF IInv, TablesOK
<1>2. Head(scan.todo) \in DOMAIN cases
  BY <1>1
<1>3. QED
  BY <1>1, <1>2, LenProperties, ElementOfSeq

LEMMA BuildKeeps ==
  ASSUME IInv, Build
  PROVE  IInv'
<1> DEFINE id == Head(scan.todo)
           row == Built(cases[id], id, scan.now)
<1>1. id \in DOMAIN cases /\ cases[id] \in CaseRow
  BY HeadIsACase DEF Build
<1>2. row \in CaseRow /\ row.anchor = cases[id].anchor
  BY <1>1, BuiltTypes
<1>3. cases' = [cases EXCEPT ![id] = row] /\ scan' = AfterBuild(cases'[id].status = "failed")
  BY DEF Build
<1>4. scan' \in Rounds
  BY <1>3, AfterBuildTypes DEF Build
<1>5. UNCHANGED <<clock, machine, up, sessions, frames, load, stored, cursor, holds>>
  BY DEF Build, budget
<1> HIDE DEF id, row
<1>6. QED
  BY <1>1, <1>2, <1>3, <1>4, <1>5, RewritingKeeps

LEMMA BuildBreaksKeeps ==
  ASSUME IInv, BuildBreaks
  PROVE  IInv'
<1> DEFINE id == Head(scan.todo)
           row == [cases[id] EXCEPT !.status = "failed"]
<1>1. id \in DOMAIN cases /\ cases[id] \in CaseRow
  BY HeadIsACase DEF BuildBreaks
<1>2. row \in CaseRow /\ row.anchor = cases[id].anchor
  BY <1>1 DEF CaseRow
<1>3. cases' \in {cases, [cases EXCEPT ![id] = row]} /\ scan' = AfterBuild(TRUE)
  BY DEF BuildBreaks
<1>4. scan' \in Rounds
  BY <1>3, AfterBuildTypes DEF BuildBreaks
<1>5. UNCHANGED <<clock, machine, up, sessions, frames, load, stored, cursor, holds>>
  BY DEF BuildBreaks, budget
<1>6. cases = [cases EXCEPT ![id] = cases[id]]
  <2>1. cases \in Seq(CaseRow)
    BY DEF IInv, TablesOK
  <2>2. cases \in [1 .. Len(cases) -> CaseRow]
    BY <2>1, LenProperties
  <2> HIDE DEF id
  <2>3. QED
    BY <2>2
<1> HIDE DEF id, row
<1>7. QED
  BY <1>1, <1>2, <1>3, <1>4, <1>5, <1>6, RewritingKeeps

LEMMA RebuildKeeps ==
  ASSUME IInv, Rebuild
  PROVE  IInv'
<1>1. PICK id \in DOMAIN cases : cases' = [cases EXCEPT ![id] = Built(cases[id], id, clock)]
  BY DEF Rebuild
<1>2. cases[id] \in CaseRow
  BY LenProperties, ElementOfSeq DEF IInv, TablesOK
<1>3. Built(cases[id], id, clock) \in CaseRow
      /\ Built(cases[id], id, clock).anchor = cases[id].anchor
  BY <1>2, BuiltTypes
<1>4. UNCHANGED <<clock, machine, up, sessions, frames, load, stored, cursor, holds>>
  BY DEF Rebuild
<1>5. scan' \in Rounds
  BY DEF Rebuild, IInv, TablesOK, Rounds
<1>6. QED
  BY <1>1, <1>3, <1>4, <1>5, RewritingKeeps

LEMMA ReleaseKeeps ==
  ASSUME IInv, Release
  PROVE  IInv'
<1>1. PICK id \in Held :
        holds' = [i \in DOMAIN holds |-> [holds[i] EXCEPT !.active = @ /\ holds[i].case # id]]
  BY DEF Release
<1>2. UNCHANGED <<clock, machine, up, sessions, frames, load, stored, cursor, cases, scan>>
  BY DEF Release
<1>3. MachineOK' /\ LogRows' = LogRows /\ log' = log /\ Time' = Time
  BY <1>2, ThreadSteps
<1>4. /\ holds \in Seq(HoldRow(cases)) /\ DOMAIN holds = 1 .. Len(holds) /\ Len(holds) \in Nat
      /\ \A i \in DOMAIN holds : holds[i] \in HoldRow(cases)
  BY LenProperties, ElementOfSeq DEF IInv, TablesOK
<1>5. \A i \in DOMAIN holds : /\ holds'[i] \in HoldRow(cases) /\ holds'[i].case = holds[i].case
                              /\ holds'[i].anchor = holds[i].anchor
                              /\ (holds'[i].active => holds[i].active)
  <2> TAKE i \in DOMAIN holds
  <2> DEFINE stays == holds[i].active /\ holds[i].case # id
  <2>1. holds'[i] = [holds[i] EXCEPT !.active = stays]
    BY <1>1
  <2>2. holds[i] \in [case : DOMAIN cases, anchor : Time, active : BOOLEAN]
    BY <1>4 DEF HoldRow
  <2>3. stays \in BOOLEAN
    BY Zenon
  <2>4. stays => holds[i].active
    BY Zenon
  <2> HIDE DEF stays
  <2>5. holds'[i] \in HoldRow(cases) /\ holds'[i].case = holds[i].case
        /\ holds'[i].anchor = holds[i].anchor /\ holds'[i].active = stays
    BY <2>1, <2>2, <2>3 DEF HoldRow
  <2>6. QED
    BY <2>4, <2>5
<1>6. DOMAIN holds' = DOMAIN holds /\ holds' \in [1 .. Len(holds) -> HoldRow(cases)]
  <2>1. DOMAIN holds' = DOMAIN holds /\ holds' = [i \in 1 .. Len(holds) |-> holds'[i]]
    BY <1>1, <1>4
  <2>2. QED
    BY <1>4, <1>5, <2>1
<1>7. holds' \in Seq(HoldRow(cases))
  BY <1>4, <1>6
<1>8. Active(holds)' \in SUBSET Active(holds)
  BY <1>5, <1>6 DEF Active
<1>9. Cardinality(Active(holds)') <= Limit
  <2>1. IsFiniteSet(Active(holds))
    <3>1. IsFiniteSet(1 .. Len(holds)) /\ Active(holds) \in SUBSET (1 .. Len(holds))
      BY <1>4, FS_Interval DEF Active
    <3>2. QED
      BY <3>1, FS_Subset
  <2>2. /\ Cardinality(Active(holds)') <= Cardinality(Active(holds))
        /\ Cardinality(Active(holds)') \in Nat /\ Cardinality(Active(holds)) \in Nat
    BY <1>8, <2>1, FS_Subset, FS_CardinalityType
  <2>3. Cardinality(Active(holds)) <= Limit /\ Limit \in Nat
    BY CrashAssumption DEF IInv, TablesOK
  <2>4. QED
    BY <2>2, <2>3
<1>10. Following(cases, holds)'
  <2>1. ASSUME NEW i \in Active(holds)'
        PROVE  holds'[i].anchor = cases'[holds'[i].case].anchor
    <3>1. i \in Active(holds) /\ i \in DOMAIN holds
      BY <1>8 DEF Active
    <3>2. holds[i].anchor = cases[holds[i].case].anchor
      BY <3>1 DEF Following, IInv, TablesOK
    <3>3. QED
      BY <1>2, <1>5, <3>1, <3>2
  <2>2. QED
    BY <2>1 DEF Following
<1>11. CaseRow' = CaseRow /\ HoldRow(cases)' = HoldRow(cases)
  BY <1>2, <1>3 DEF CaseRow, HoldRow
<1>12. TablesOK'
  BY <1>2, <1>3, <1>7, <1>9, <1>10, <1>11 DEF TablesOK, IInv
<1>13. QED
  BY <1>3, <1>12 DEF IInv

-----------------------------------------------------------------------------
(* The invariant, and what follows from it.                                *)

LEMMA InitHolds ==
  ASSUME Init
  PROVE  IInv
<1>1. load \in Loads /\ load.time \in Nat \ {0}
  BY CrashAssumption DEF Init
<1>2. 0 \in Time /\ 1 \in Time
  BY <1>1 DEF Time
<1>3. boots = <<[at |-> 1, fell |-> 0]>> /\ DOMAIN boots = {1}
  BY DEF Init
<1>4. boots \in Seq([at : Time, fell : Time \cup {None}]) /\ boots # <<>>
  BY <1>2, <1>3
<1>5. log \in Seq(Events)
  <2>1. log \in Logged(<<>>, 1, 1, 0) /\ Len(<<>>) = 0
    BY DEF Init
  <2> DEFINE start == <<>>
             zero == 0
             one == 1
             nothing == {}
             any == nothing \cup StartRow(one, Len(log))
  <2>2. /\ start \in Seq(nothing) /\ Len(start) = 0 /\ log \in Logged(start, one, one, zero)
        /\ one \in Time /\ zero \in Time \cup {None} /\ load.time \in Nat
    BY <1>1, <1>2, <2>1
  <2> HIDE DEF start, zero, one, nothing
  <2>3. /\ Len(log) \in Nat /\ DOMAIN log = 1 .. Len(log) /\ log \in Seq(any)
        /\ \A i \in 1 .. Len(log) : i > Len(start) => log[i] \in StartRow(one, Len(log))
    <3>1. Len(log) \in Nat
      BY <2>2, LoggedTypes
    <3>2. DOMAIN log = 1 .. Len(log)
      BY <2>2, LoggedTypes
    <3>3. log \in Seq(nothing \cup StartRow(one, Len(log)))
      BY <2>2, LoggedTypes
    <3>4. \A i \in 1 .. Len(log) : i > Len(start) => log[i] \in StartRow(one, Len(log))
      BY <2>2, LoggedTypes
    <3>5. QED
      BY <3>1, <3>2, <3>3, <3>4
  <2> HIDE DEF any
  <2>4. \A i \in 1 .. Len(log) : log[i] \in Events
    BY <1>3, <2>2, <2>3 DEF Events, StartRow, one
  <2>5. log \in [1 .. Len(log) -> any]
    BY <2>3, LenProperties
  <2>6. log \in [1 .. Len(log) -> Events]
    BY <2>4, <2>5
  <2>7. QED
    BY <2>3, <2>6
<1>6. MachineOK
  BY <1>1, <1>2, <1>4, <1>5 DEF Init, MachineOK
<1>7. Active(holds) = {} /\ Cardinality(Active(holds)) <= Limit
  <2>1. Active(holds) = {}
    BY DEF Init, Active
  <2>2. QED
    BY <2>1, FS_EmptySet, CrashAssumption
<1>8. scan \in Rounds
  BY <1>2 DEF Init, AtRest, Rounds
<1>9. stored \subseteq LogRows /\ cursor \in [at : Time, id : DOMAIN log] \cup {None}
      /\ cases \in Seq(CaseRow) /\ holds \in Seq(HoldRow(cases)) /\ Following(cases, holds)
  BY <1>7 DEF Init, Following
<1>10. TablesOK
  BY <1>7, <1>8, <1>9 DEF TablesOK, Rounds
<1>11. QED
  BY <1>6, <1>10 DEF IInv

LEMMA StutterKeeps ==
  ASSUME IInv, UNCHANGED vars
  PROVE  IInv'
<1>1. UNCHANGED <<machine, load, tables, scan, clock, up, sessions, frames>>
  BY DEF vars, budget
<1>2. clock \in Time
      /\ sessions \subseteq [boot : DOMAIN boots, at : Time, start : Time, end : Time \cup {None}]
      /\ frames \subseteq [boot : DOMAIN boots, at : Time]
  BY DEF IInv, MachineOK
<1>3. QED
  BY <1>1, <1>2, OutsideKeeps

LEMMA Inductive == Spec => []IInv
<1>1. Init => IInv
  BY InitHolds
<1>2. IInv /\ [Next]_vars => IInv'
  <2> SUFFICES ASSUME IInv, [Next]_vars
               PROVE  IInv'
    OBVIOUS
  <2>1. CASE PowerOn
    BY <2>1, PowerOnKeeps
  <2>2. CASE ShutDown \/ BreaksOff \/ WerReports
    BY <2>2, ShutDownKeeps, BreaksOffKeeps, WerReportsKeeps
  <2>3. CASE AppStarts
    BY <2>3, AppStartsKeeps
  <2>4. CASE Tick \/ AppEnds \/ Sample \/ Prune \/ Clear \/ ReadFails
    BY <2>4, OutsideSteps
  <2>5. CASE BeginRound \/ CaughtUp \/ ReadPage
    BY <2>5, BeginRoundKeeps, CaughtUpKeeps, ReadPageKeeps
  <2>6. CASE Build \/ BuildBreaks
    BY <2>6, BuildKeeps, BuildBreaksKeeps
  <2>7. CASE Release \/ Rebuild
    BY <2>7, ReleaseKeeps, RebuildKeeps
  <2>8. CASE UNCHANGED vars
    BY <2>8, StutterKeeps
  <2>9. QED
    BY <2>1, <2>2, <2>3, <2>4, <2>5, <2>6, <2>7, <2>8 DEF Next
<1>3. QED
  BY <1>1, <1>2, PTL DEF Spec

\* The tables and the machine keep their types whatever Windows logs and
\* however the log falls into pages, and at most Limit holds are ever active:
\* create_case_and_hold_tx releases the holds of the oldest cases.
THEOREM DetectorTypes == Spec => []TypeOK
<1>1. IInv => TypeOK
  BY InvGivesTypes
<1>2. QED
  BY <1>1, Inductive, PTL

\* A frame in the evidence window of a held case is not pruned and not
\* cleared, wherever the case's anchor has moved since the hold was made.
THEOREM EvidenceIsHeld == Spec => HeldEvidenceStays
<1> DEFINE Kept == \A id \in Held : Evidence(cases[id].anchor) \subseteq frames'
<1>1. IInv /\ [Next]_vars => [Kept]_vars
  <2> SUFFICES ASSUME IInv, Next
               PROVE  Kept
    OBVIOUS
  <2> USE DEF Evidence
  <2>1. CASE Prune
    <3>1. ASSUME NEW id \in Held, NEW f \in Evidence(cases[id].anchor)
          PROVE  f \notin Prunable
      <4>1. PICK i \in Active(holds) : id = holds[i].case
        BY DEF Held
      <4>2. holds[i].anchor = cases[id].anchor
        BY <4>1 DEF Following, IInv, TablesOK
      <4>3. Overlaps(f, holds[i].anchor - Pre, holds[i].anchor + Post)
        BY <4>2
      <4>4. QED
        BY <4>1, <4>3 DEF Prunable
    <3>2. \A f \in frames : f \notin Prunable => f \in frames'
      BY <2>1 DEF Prune
    <3>3. QED
      BY <3>1, <3>2
  <2>2. CASE Clear
    BY <2>2 DEF Clear
  <2>3. CASE ~Prune /\ ~Clear
    <3>1. frames \subseteq frames'
      <4>1. Sample => frames \subseteq frames'
        BY DEF Sample
      <4>2. ~Sample => frames' = frames
        BY <2>3 DEF Next, Tick, PowerOn, ShutDown, BreaksOff, WerReports, AppStarts, AppEnds,
                    BeginRound, ReadPage, CaughtUp, Build, BuildBreaks, ReadFails, Release, Rebuild
      <4>3. QED
        BY <4>1, <4>2
    <3>2. QED
      BY <3>1
  <2>4. QED
    BY <2>1, <2>2, <2>3
<1>2. QED
  BY <1>1, Inductive, PTL DEF Spec, HeldEvidenceStays

-----------------------------------------------------------------------------
(* The boots, the log and the sessions in time.                            *)

\* An event is logged while its boot runs: a startup record at its start,
\* with the time the run before it broke off if it carries one, and only
\* after a run that broke off if it reports a crash.  A shutdown ends its boot.
Entry(e) ==
  /\ boots[e.boot].at <= e.at /\ \A n \in DOMAIN boots : e.boot < n => e.at < boots[n].at
  /\ e.prev # None => e.at = boots[e.boot].at /\ e.prev = boots[e.boot].fell
  /\ e.kind \in {"Boot", "BugCheck", "Unexpected"} => e.at = boots[e.boot].at
  /\ e.kind \in Crashed => boots[e.boot].fell # None
  /\ e.kind = "Shutdown" =>
       /\ boots[e.boot].at < e.at
       /\ IF e.boot = Len(boots) THEN ~on /\ fell = None ELSE boots[e.boot + 1].fell = None

\* The boots in order; a run that broke off did so between its start and the next.
BootsOK ==
  /\ \A n \in DOMAIN boots : boots[n].at <= clock
  /\ \A m, n \in DOMAIN boots : m < n => boots[m].at < boots[n].at
  /\ \A n \in DOMAIN boots : boots[n].fell # None =>
       /\ boots[n].fell < boots[n].at
       /\ \A m \in DOMAIN boots : m < n => boots[m].at < boots[n].fell
  /\ fell # None => ~on /\ fell <= clock /\ boots[Len(boots)].at < fell

\* The log in order, by number and by time.
LogOK ==
  /\ \A i \in DOMAIN log : log[i].id = i /\ log[i].at <= clock /\ Entry(log[i])
  /\ \A i, j \in DOMAIN log : i <= j => log[i].at <= log[j].at

\* One session for each boot the application ran in, begun while it ran.
SessionsOK ==
  /\ \A s \in sessions : /\ s.at = boots[s.boot].at /\ s.at <= s.start /\ s.start <= clock
                         /\ \A n \in DOMAIN boots : s.boot < n => s.start < boots[n].at
  /\ \A s, r \in sessions : s.boot = r.boot => s = r
  /\ up => \E s \in sessions : s.boot = Len(boots)
  /\ scan.phase # "rest" => up

\* An event is read when the session of its boot is there, if it ever will
\* be, and so a link of a placed event names that session.
LinksOK ==
  /\ \A e \in stored : e.boot < Len(boots) \/ \E s \in sessions : s.boot = Len(boots)
  /\ \A l \in linked : \E e \in stored : l.event = e.id /\ l.boot = e.boot
  /\ \A l \in linked : Placed(l) => l.case = <<"session", l.boot>>

Facts == BootsOK /\ LogOK /\ SessionsOK /\ LinksOK

\* The types of the rows of the tables, one by one.
LEMMA RowTypes ==
  ASSUME IInv
  PROVE  /\ \A n \in DOMAIN boots : /\ n \in Nat /\ 1 <= n /\ n <= Len(boots)
                                    /\ boots[n].at \in Nat
                                    /\ boots[n].fell \in Nat \cup {None}
         /\ \A i \in DOMAIN log : i \in Nat /\ 1 <= i /\ i <= Len(log) /\ log[i] \in LogRows
         /\ \A e \in LogRows : /\ e.id \in DOMAIN log /\ e.at \in Nat /\ e.boot \in DOMAIN boots
                               /\ e.kind \in Crashed \cup {"Boot", "Shutdown"}
                               /\ e.prev \in Nat \cup {None}
         /\ \A s \in sessions : s.boot \in DOMAIN boots /\ s.at \in Nat /\ s.start \in Nat
<1>1. TypeOK /\ Time \subseteq Nat
  BY InvGivesTypes, BootTypes
<1>2. \A n \in DOMAIN boots : boots[n] \in [at : Time, fell : Time \cup {None}]
  <2> DEFINE run == [at : Time, fell : Time \cup {None}]
  <2>1. boots \in Seq(run)
    BY <1>1 DEF TypeOK
  <2> HIDE DEF run
  <2>2. \A n \in DOMAIN boots : boots[n] \in run
    BY <2>1, LenProperties, ElementOfSeq
  <2>3. QED
    BY <2>2 DEF run
<1>3. \A e \in LogRows : e \in Events
  BY <1>1, LogTypes
<1>4. \A s \in sessions :
        s \in [boot : DOMAIN boots, at : Time, start : Time, end : Time \cup {None}]
  BY <1>1 DEF TypeOK
<1>5. \A n \in DOMAIN boots : n \in Nat /\ 1 <= n /\ n <= Len(boots)
  BY BootTypes
<1>6. \A i \in DOMAIN log : i \in Nat /\ 1 <= i /\ i <= Len(log) /\ log[i] \in LogRows
  BY BootTypes DEF LogRows
<1>7. QED
  BY <1>1, <1>2, <1>3, <1>4, <1>5, <1>6 DEF Events

\* The log goes on, and nothing is read.
LEMMA LinksStay ==
  ASSUME IInv, LinksOK, UNCHANGED <<stored, linked>>,
         \A i \in DOMAIN log : log'[i] = log[i],
         \A n \in DOMAIN boots : n \in DOMAIN boots' /\ boots'[n] = boots[n],
         Len(boots') \in Nat, Len(boots) <= Len(boots'),
         \A n \in DOMAIN boots :
           (\E s \in sessions : s.boot = n) => (\E s \in sessions' : s.boot = n),
         \A n \in DOMAIN boots :
           (\E s \in sessions' : s.boot = n) => n = Len(boots) \/ (\E s \in sessions : s.boot = n)
  PROVE  LinksOK'
<1>1. \A e \in stored : e.boot \in DOMAIN boots /\ e.id \in DOMAIN log
  BY RowTypes DEF IInv, TablesOK
<1>2. Len(boots) \in DOMAIN boots /\ Len(boots) \in Nat
      /\ \A n \in DOMAIN boots : n \in Nat /\ n <= Len(boots)
  BY RowTypes, BootTypes
<1>3. ASSUME NEW e \in stored
      PROVE  e.boot < Len(boots') \/ \E s \in sessions' : s.boot = Len(boots')
  <2>1. e.boot < Len(boots) \/ \E s \in sessions : s.boot = Len(boots)
    BY DEF LinksOK
  <2>2. e.boot \in Nat /\ e.boot <= Len(boots)
    BY <1>1, <1>2
  <2>3. CASE Len(boots) < Len(boots')
    BY <1>2, <2>2, <2>3
  <2>4. CASE Len(boots) = Len(boots')
    BY <1>2, <2>1, <2>4
  <2>5. QED
    BY <1>2, <2>3, <2>4
<1>4. \A l \in linked : \E e \in stored : l.event = e.id /\ l.boot = e.boot
  BY DEF LinksOK
<1>5. ASSUME NEW l \in linked, Placed(l)'
      PROVE  l.case = <<"session", l.boot>>
  <2>1. PICK e \in stored : l.event = e.id /\ l.boot = e.boot
    BY <1>4
  <2>2. l.boot \in DOMAIN boots /\ l.event \in DOMAIN log
    BY <1>1, <2>1
  <2>3. \E s \in sessions' : s.boot = l.boot
    BY <1>5 DEF Placed
  <2>4. \E s \in sessions : s.boot = l.boot
    <3>1. CASE l.boot = Len(boots)
      <4>1. ~(e.boot < Len(boots))
        BY <1>2, <2>1, <3>1
      <4>2. QED
        BY <3>1, <4>1 DEF LinksOK
    <3>2. QED
      BY <2>2, <2>3, <3>1
  <2>5. log'[l.event] = log[l.event] /\ boots'[l.boot] = boots[l.boot]
    BY <2>2
  <2>6. Placed(l)
    BY <1>5, <2>4, <2>5 DEF Placed, Within, Distance
  <2>7. QED
    BY <2>6 DEF LinksOK
<1>6. QED
  BY <1>3, <1>4, <1>5 DEF LinksOK

\* The log goes on with entries of the last boot.
LEMMA LogGrows ==
  ASSUME IInv, LogOK, clock <= clock', clock' \in Nat,
         NEW n \in Nat, DOMAIN log' = 1 .. n, Len(log) <= n,
         \A i \in DOMAIN log : log'[i] = log[i],
         \A i \in 1 .. n : Entry(log[i])',
         \A i \in 1 .. n : i > Len(log) => log'[i].id = i /\ log'[i].at = clock'
  PROVE  LogOK'
<1>1. \A i \in 1 .. n : i <= Len(log) => i \in DOMAIN log
  BY BootTypes
<1>2. \A i \in DOMAIN log : log[i].at \in Nat /\ clock \in Nat
  BY RowTypes, BootTypes
<1>3. ASSUME NEW i \in DOMAIN log'
      PROVE  log'[i].id = i /\ log'[i].at <= clock'
  <2>1. CASE i <= Len(log)
    <3>1. i \in DOMAIN log
      BY <1>1, <2>1
    <3>2. log[i].id = i /\ log[i].at <= clock
      BY <3>1 DEF LogOK
    <3>3. QED
      BY <1>2, <3>1, <3>2
  <2>2. CASE i > Len(log)
    BY <2>2
  <2>3. QED
    BY <2>1, <2>2, BootTypes
<1>4. ASSUME NEW i \in DOMAIN log', NEW j \in DOMAIN log', i <= j
      PROVE  log'[i].at <= log'[j].at
  <2>1. CASE j > Len(log)
    BY <1>3, <2>1
  <2>2. CASE j <= Len(log)
    <3>1. i \in DOMAIN log /\ j \in DOMAIN log
      BY <1>1, <1>4, <2>2, BootTypes
    <3>2. QED
      BY <1>4, <3>1 DEF LogOK
  <2>3. QED
    BY <2>1, <2>2, BootTypes
<1>5. QED
  BY <1>3, <1>4 DEF LogOK

\* Steps that leave the machine, the log and what was read alone.
LEMMA QuietFacts ==
  ASSUME IInv, Facts, UNCHANGED <<boots, on, fell, log, stored, linked, sessions>>,
         clock <= clock', clock' \in Nat, up' => up, scan'.phase # "rest" => up'
  PROVE  Facts'
<1>1. clock \in Nat
  BY BootTypes
<1>2. BootsOK'
  <2>1. \A n \in DOMAIN boots : boots[n].at <= clock'
    <3>1. \A n \in DOMAIN boots : boots[n].at <= clock /\ boots[n].at \in Nat
      BY RowTypes DEF Facts, BootsOK
    <3>2. QED
      BY <1>1, <3>1
  <2>2. fell # None => ~on /\ fell <= clock' /\ boots[Len(boots)].at < fell
    <3>1. fell \in Nat \cup {None}
      BY BootTypes DEF IInv, MachineOK
    <3>2. fell # None => ~on /\ fell <= clock /\ boots[Len(boots)].at < fell
      BY DEF Facts, BootsOK
    <3>3. QED
      BY <1>1, <3>1, <3>2
  <2>3. QED
    BY <2>1, <2>2 DEF Facts, BootsOK
<1>3. LogOK'
  <2>1. \A i \in DOMAIN log : log'[i] = log[i] /\ Entry(log[i])'
    BY DEF Facts, LogOK, Entry
  <2>2. DOMAIN log' = 1 .. Len(log) /\ DOMAIN log = 1 .. Len(log) /\ Len(log) \in Nat
    BY BootTypes
  <2>3. \A i \in 1 .. Len(log) : Entry(log[i])' /\ ~(i > Len(log))
    BY <2>1, <2>2
  <2>4. LogOK
    BY DEF Facts
  <2>5. \A i \in 1 .. Len(log) : i > Len(log) => log'[i].id = i /\ log'[i].at = clock'
    BY <2>3
  <2>6. /\ \A i \in DOMAIN log : log'[i] = log[i]
        /\ \A i \in 1 .. Len(log) : Entry(log[i])'
        /\ Len(log) <= Len(log)
    BY <2>1, <2>2
  <2>7. QED
    BY <2>2, <2>4, <2>5, <2>6, LogGrows
<1>4. SessionsOK'
  <2>1. ASSUME NEW s \in sessions
        PROVE  s.start <= clock'
    <3>1. s.start <= clock /\ s.start \in Nat
      BY RowTypes DEF Facts, SessionsOK
    <3>2. QED
      BY <1>1, <3>1
  <2>2. QED
    BY <2>1 DEF Facts, SessionsOK
<1>5. LinksOK'
  BY LinksStay, RowTypes, BootTypes DEF Facts
<1>6. QED
  BY <1>2, <1>3, <1>4, <1>5 DEF Facts

\* What is logged at a start is of that time and boot; if it reports a crash
\* or says when the run before it ended, that run broke off.
LEMMA LoggedEntries ==
  ASSUME NEW before, NEW row, before \in Seq(row), NEW n, NEW at, NEW fallen,
         NEW new \in Logged(before, n, at, fallen), NEW i \in 1 .. Len(new), i > Len(before)
  PROVE  /\ new[i].id = i /\ new[i].at = at /\ new[i].boot = n
         /\ new[i].kind \in Crashed \cup {"Boot"} /\ new[i].prev \in {fallen, None}
         /\ new[i].kind \in Crashed => fallen # None
<1> DEFINE Says == [kind : Crashed \cup {"Boot"}, tells : BOOLEAN]
           texts == IF fallen = None THEN {<<Record("Boot")>>} ELSE Startups
           entry(records, j) ==
             [id |-> Len(before) + j, at |-> at, kind |-> records[j].kind,
              prev |-> IF records[j].tells THEN fallen ELSE None, boot |-> n]
<1>1. Logged(before, n, at, fallen) =
        {before \o [j \in DOMAIN records |-> entry(records, j)] : records \in texts}
  BY Zenon DEF Logged
<1>2. PICK records \in texts : new = before \o [j \in DOMAIN records |-> entry(records, j)]
  <2> HIDE DEF texts, entry
  <2> QED
    BY <1>1
<1>3. /\ records \in Seq(Says)
      /\ fallen = None => \A j \in 1 .. Len(records) : records[j].kind = "Boot"
  <2>1. CASE fallen = None
    <3>1. Record("Boot") \in Says /\ Record("Boot").kind = "Boot"
      BY DEF Record
    <3> HIDE DEF Says
    <3>2. records = <<Record("Boot")>>
      BY <2>1
    <3>3. QED
      BY <3>1, <3>2
  <2>2. CASE fallen # None
    BY <2>2, CrashAssumption
  <2>3. QED
    BY <2>1, <2>2
<1>4. /\ DOMAIN records = 1 .. Len(records) /\ Len(records) \in Nat
      /\ \A j \in 1 .. Len(records) : records[j] \in Says
  <2> HIDE DEF Says
  <2> QED
    BY <1>3, LenProperties, ElementOfSeq
<1> DEFINE tail == [j \in 1 .. Len(records) |-> entry(records, j)]
           any == row \cup {entry(records, j) : j \in 1 .. Len(records)}
<1>5. before \in Seq(any) /\ tail \in Seq(any) /\ Len(tail) = Len(records)
  <2>1. row \subseteq any /\ \A j \in 1 .. Len(records) : entry(records, j) \in any
    BY Zenon
  <2> HIDE DEF any, entry
  <2>2. before \in Seq(any)
    BY <2>1, SeqMonotonic
  <2>3. tail \in [1 .. Len(records) -> any]
    BY <2>1
  <2>4. QED
    BY <1>4, <2>2, <2>3
<1>6. Len(before) \in Nat
  BY LenProperties
<1>7. /\ Len(new) = Len(before) + Len(records)
      /\ new[i] = tail[i - Len(before)]
  <2>1. new = before \o tail
    BY <1>2, <1>4
  <2> HIDE DEF any, tail
  <2>2. before \in Seq(any) /\ tail \in Seq(any)
    BY <1>5
  <2> HIDE DEF tail
  <2>3. /\ Len(before \o tail) = Len(before) + Len(tail)
        /\ \A j \in 1 .. Len(before) + Len(tail) :
             (before \o tail)[j] = IF j <= Len(before) THEN before[j] ELSE tail[j - Len(before)]
    BY <2>2, ConcatProperties, Zenon
  <2>4. QED
    BY <1>5, <1>6, <2>1, <2>3
<1> DEFINE j == i - Len(before)
<1>8. j \in 1 .. Len(records) /\ Len(before) + j = i
  BY <1>4, <1>6, <1>7
<1> HIDE DEF j
<1>9. new[i] = entry(records, j)
  BY <1>7, <1>8 DEF j
<1>10. records[j] \in Says /\ (fallen = None => records[j].kind = "Boot")
  BY <1>3, <1>4, <1>8
<1>11. QED
  <2>1. "Boot" \notin Crashed
    BY DEF Crashed
  <2>2. QED
    BY <1>8, <1>9, <1>10, <2>1

\* The machine starts: what was logged before is of earlier boots.
LEMMA PowerOnFacts ==
  ASSUME IInv, Facts, PowerOn
  PROVE  Facts'
<1> DEFINE n == Len(boots)
           m == Len(log')
           run == [at |-> clock', fell |-> fell]
<1>1. /\ ~on /\ clock' = clock + 1 /\ on' = TRUE /\ fell' = None
      /\ boots' = Append(boots, run) /\ log' \in Logged(log, Len(boots'), clock', fell)
      /\ UNCHANGED <<up, sessions, scan, stored, linked>>
  BY DEF PowerOn, tables
<1>2. /\ n \in DOMAIN boots /\ n \in Nat /\ DOMAIN boots = 1 .. n
      /\ DOMAIN log = 1 .. Len(log) /\ Len(log) \in Nat /\ clock \in Nat
  BY BootTypes
<1>3. fell \in Nat \cup {None}
  BY BootTypes DEF IInv, MachineOK
<1>4. /\ Len(boots') = n + 1 /\ DOMAIN boots' = 1 .. n + 1
      /\ \A k \in DOMAIN boots : boots'[k] = boots[k]
      /\ boots'[n + 1] = run
  <2> DEFINE any == [at : Time, fell : Time \cup {None}] \cup {run}
  <2>1. boots \in Seq(any) /\ run \in any
    <3>1. boots \in Seq([at : Time, fell : Time \cup {None}])
      BY DEF IInv, MachineOK
    <3>2. QED
      BY <3>1, SeqMonotonic
  <2> HIDE DEF any, run
  <2>2. QED
    BY <1>1, <1>2, <2>1
<1>5. boots'[n + 1].at = clock + 1 /\ boots'[n + 1].fell = fell
  BY <1>1, <1>4
<1> HIDE DEF run
<1>6. /\ \A k \in DOMAIN boots : boots[k].at \in Nat /\ boots[k].at <= clock
      /\ \A k, l \in DOMAIN boots : k < l => boots[k].at < boots[l].at
      /\ \A k \in DOMAIN boots : k \in Nat /\ k <= n
      /\ \A k \in DOMAIN boots' : k \in DOMAIN boots \/ k = n + 1
  BY <1>2, <1>4, RowTypes DEF Facts, BootsOK
<1>7. BootsOK'
  <2>1. \A k \in DOMAIN boots' : boots'[k].at <= clock'
    BY <1>1, <1>2, <1>4, <1>5, <1>6
  <2>2. \A k, l \in DOMAIN boots' : k < l => boots'[k].at < boots'[l].at
    BY <1>2, <1>4, <1>5, <1>6
  <2>3. ASSUME NEW k \in DOMAIN boots', boots'[k].fell # None
        PROVE  /\ boots'[k].fell < boots'[k].at
               /\ \A l \in DOMAIN boots' : l < k => boots'[l].at < boots'[k].fell
    <3>1. CASE k \in DOMAIN boots
      <4>1. /\ boots[k].fell # None /\ boots'[k] = boots[k]
            /\ \A l \in DOMAIN boots' : l < k => l \in DOMAIN boots /\ boots'[l] = boots[l]
        BY <1>2, <1>4, <1>6, <2>3, <3>1
      <4>2. boots[k].fell < boots[k].at
            /\ \A l \in DOMAIN boots : l < k => boots[l].at < boots[k].fell
        BY <3>1, <4>1 DEF Facts, BootsOK
      <4>3. QED
        BY <4>1, <4>2
    <3>2. CASE k = n + 1
      <4>1. fell # None /\ boots'[k].fell = fell /\ boots'[k].at = clock + 1
        BY <1>5, <2>3, <3>2
      <4>2. fell <= clock /\ boots[n].at < fell
        BY <4>1 DEF Facts, BootsOK
      <4>3. \A l \in DOMAIN boots' : l < k => boots'[l].at <= boots[n].at /\ boots'[l].at \in Nat
        BY <1>2, <1>4, <1>6, <3>2
      <4>4. QED
        BY <1>2, <1>3, <1>6, <4>1, <4>2, <4>3
    <3>3. QED
      BY <1>6, <3>1, <3>2
  <2>4. fell' = None
    BY <1>1
  <2>5. QED
    BY <2>1, <2>2, <2>3, <2>4 DEF BootsOK
<1>8. log \in Seq(Events)
  BY DEF IInv, MachineOK
<1>9. /\ m \in Nat /\ Len(log) <= m /\ DOMAIN log' = 1 .. m
      /\ \A i \in DOMAIN log : log'[i] = log[i]
      /\ \A i \in 1 .. m : i > Len(log) =>
           /\ log'[i].id = i /\ log'[i].at = clock' /\ log'[i].boot = n + 1
           /\ log'[i].kind \in Crashed \cup {"Boot"} /\ log'[i].prev \in {fell, None}
           /\ log'[i].kind \in Crashed => fell # None
  <2>1. load.time \in Nat /\ clock' \in Time /\ fell \in Time \cup {None}
    BY BootTypes DEF PowerOn, Time, IInv, MachineOK
  <2>2. /\ Len(log) \in Nat /\ Len(log') \in Nat /\ Len(log) <= Len(log')
        /\ DOMAIN log = 1 .. Len(log) /\ DOMAIN log' = 1 .. Len(log')
        /\ log' \in Seq(Events \cup StartRow(Len(boots'), Len(log')))
        /\ \A i \in 1 .. Len(log) : log'[i] = log[i]
        /\ \A i \in 1 .. Len(log') : i > Len(log) =>
             log'[i] \in StartRow(Len(boots'), Len(log'))
    BY <1>1, <1>8, <2>1, LoggedTypes
  <2>3. ASSUME NEW i \in 1 .. m, i > Len(log)
        PROVE  /\ log'[i].id = i /\ log'[i].at = clock' /\ log'[i].boot = n + 1
               /\ log'[i].kind \in Crashed \cup {"Boot"} /\ log'[i].prev \in {fell, None}
               /\ log'[i].kind \in Crashed => fell # None
    BY <1>1, <1>4, <1>8, <2>3, LoggedEntries
  <2>4. QED
    BY <1>2, <2>2, <2>3
<1>10. ASSUME NEW i \in 1 .. m
       PROVE  Entry(log[i])'
  <2>1. CASE i \in DOMAIN log
    <3>1. /\ Entry(log[i]) /\ log[i].at <= clock /\ log[i].at \in Nat
          /\ log[i].boot \in DOMAIN boots
      BY <2>1, RowTypes DEF Facts, LogOK
    <3>2. log'[i] = log[i] /\ boots'[log[i].boot] = boots[log[i].boot]
      BY <1>4, <1>9, <2>1, <3>1
    <3>3. \A k \in DOMAIN boots' : log[i].boot < k => log[i].at < boots'[k].at
      BY <1>2, <1>4, <1>5, <1>6, <3>1 DEF Entry
    <3>4. ASSUME log[i].kind = "Shutdown"
          PROVE  log[i].boot # Len(boots') /\ boots'[log[i].boot + 1].fell = None
      <4>1. CASE log[i].boot = n
        <5>1. fell = None
          BY <3>1, <3>4, <4>1 DEF Entry
        <5>2. log[i].boot + 1 = n + 1 /\ log[i].boot # n + 1
          <6>1. n \in Nat
            BY <1>2
          <6> HIDE DEF n
          <6>2. n # n + 1
            BY <6>1
          <6>3. QED
            BY <4>1, <6>2
        <5>3. boots'[n + 1].fell = None /\ Len(boots') = n + 1
          BY <1>4, <1>5, <5>1
        <5>4. QED
          BY <5>2, <5>3
      <4>2. CASE log[i].boot # n
        <5>1. log[i].boot + 1 \in DOMAIN boots
          BY <1>2, <3>1, <4>2
        <5>2. boots[log[i].boot + 1].fell = None
          BY <3>1, <3>4, <4>2 DEF Entry
        <5>3. QED
          BY <1>2, <1>4, <3>1, <5>1, <5>2
      <4>3. QED
        BY <4>1, <4>2
    <3>5. QED
      BY <3>1, <3>2, <3>3, <3>4 DEF Entry
  <2>2. CASE i \notin DOMAIN log
    <3>1. i > Len(log)
      BY <1>2, <1>9, <2>2
    <3>2. /\ log'[i].at = clock' /\ log'[i].boot = n + 1
          /\ log'[i].kind \in Crashed \cup {"Boot"} /\ log'[i].prev \in {fell, None}
          /\ log'[i].kind \in Crashed => fell # None
      BY <1>9, <3>1
    <3>3. \A k \in DOMAIN boots' : ~(n + 1 < k)
      BY <1>2, <1>6
    <3>4. log'[i].kind # "Shutdown"
      BY <3>2 DEF Crashed
    <3>5. QED
      BY <1>1, <1>2, <1>5, <3>2, <3>3, <3>4 DEF Entry
  <2>3. QED
    BY <2>1, <2>2
<1>11. LogOK'
  <2>1. clock <= clock' /\ clock' \in Nat /\ LogOK
    BY <1>1, <1>2 DEF Facts
  <2>2. \A i \in 1 .. m : i > Len(log) => log'[i].id = i /\ log'[i].at = clock'
    BY <1>9
  <2> HIDE DEF m
  <2>3. QED
    BY <1>9, <1>10, <2>1, <2>2, LogGrows
<1>12. SessionsOK'
  <2>1. ~up
    BY <1>1 DEF IInv, MachineOK
  <2>2. ASSUME NEW s \in sessions
        PROVE  /\ s.at = boots'[s.boot].at /\ s.at <= s.start /\ s.start <= clock'
               /\ \A k \in DOMAIN boots' : s.boot < k => s.start < boots'[k].at
    <3>1. /\ s.boot \in DOMAIN boots /\ s.start \in Nat /\ s.start <= clock
          /\ s.at = boots[s.boot].at /\ s.at <= s.start
          /\ \A k \in DOMAIN boots : s.boot < k => s.start < boots[k].at
      BY RowTypes DEF Facts, SessionsOK
    <3>2. QED
      BY <1>1, <1>2, <1>4, <1>5, <1>6, <3>1
  <2>3. QED
    BY <1>1, <2>1, <2>2 DEF Facts, SessionsOK
<1>13. LinksOK'
  <2>1. \A k \in DOMAIN boots : k \in DOMAIN boots' /\ boots'[k] = boots[k]
    BY <1>2, <1>4
  <2>2. Len(boots') \in Nat /\ Len(boots) <= Len(boots')
    BY <1>2, <1>4
  <2>3. QED
    BY <1>1, <1>9, <2>1, <2>2, LinksStay DEF Facts
<1>14. QED
  BY <1>7, <1>11, <1>12, <1>13 DEF Facts

\* The boots stay, and the machine stops at most.
LEMMA BootsStay ==
  ASSUME IInv, BootsOK, UNCHANGED <<boots, clock>>,
         fell' # None => ~on' /\ fell' <= clock /\ boots[Len(boots)].at < fell'
  PROVE  BootsOK'
BY DEF BootsOK

\* One more entry in the log of the boot that runs, without a time of its own.
LEMMA OneMoreEntry ==
  ASSUME IInv, LogOK, BootsOK, UNCHANGED <<clock, boots>>,
         NEW kind \in {"Wer", "Shutdown"},
         log' = Append(log, [id |-> Len(log) + 1, at |-> clock, kind |-> kind,
                             prev |-> None, boot |-> Len(boots)]),
         kind = "Wer" => boots[Len(boots)].fell # None,
         kind = "Shutdown" => boots[Len(boots)].at < clock /\ ~on' /\ fell' = None,
         \A i \in DOMAIN log : Entry(log[i])'
  PROVE  LogOK' /\ \A i \in DOMAIN log : log'[i] = log[i]
<1> DEFINE e == [id |-> Len(log) + 1, at |-> clock, kind |-> kind, prev |-> None,
                 boot |-> Len(boots)]
<1>0. PICK n \in Nat : n = Len(log) + 1
  BY BootTypes
<1>1. n \in Nat /\ Len(log) \in Nat /\ DOMAIN log = 1 .. Len(log) /\ clock \in Nat
      /\ Len(boots) \in DOMAIN boots
  BY BootTypes
<1>2. /\ DOMAIN log' = 1 .. n /\ log'[n] = e
      /\ \A i \in 1 .. Len(log) : log'[i] = log[i]
  <2> DEFINE any == Events \cup {e}
  <2>1. log \in Seq(any) /\ e \in any
    <3>1. log \in Seq(Events)
      BY DEF IInv, MachineOK
    <3>2. QED
      BY <3>1, SeqMonotonic
  <2> HIDE DEF any, e
  <2>2. log' = Append(log, e)
    BY DEF e
  <2>3. log' \in Seq(any) /\ Len(log') = n
    BY <1>0, <2>1, <2>2
  <2>4. QED
    BY <1>0, <1>1, <2>1, <2>2, <2>3
<1>3. /\ log'[n].id = n /\ log'[n].at = clock /\ log'[n].kind = kind
      /\ log'[n].prev = None /\ log'[n].boot = Len(boots)
  BY <1>0, <1>2
<1> HIDE DEF e
<1>4. Entry(log[n])'
  <2>1. boots[Len(boots)].at <= clock
    BY <1>1 DEF BootsOK
  <2>2. \A k \in DOMAIN boots : ~(Len(boots) < k)
    BY RowTypes, BootTypes
  <2>3. kind = "Wer" => kind \notin {"Boot", "BugCheck", "Unexpected"} /\ kind # "Shutdown"
    OBVIOUS
  <2>4. kind = "Shutdown" => kind \notin {"Boot", "BugCheck", "Unexpected"} /\ kind \notin Crashed
    BY DEF Crashed
  <2>5. QED
    BY <1>3, <2>1, <2>2, <2>3, <2>4 DEF Entry
<1>5. \A i \in 1 .. n : i > Len(log) => i = n
  BY <1>0, <1>1
<1>6. \A i \in 1 .. n : i \in DOMAIN log \/ i = n
  BY <1>0, <1>1
<1>7. Len(log) <= n /\ clock <= clock' /\ clock' \in Nat
  BY <1>0, <1>1
<1>8. /\ \A i \in 1 .. n : Entry(log[i])'
      /\ \A i \in 1 .. n : i > Len(log) => log'[i].id = i /\ log'[i].at = clock'
  BY <1>3, <1>4, <1>5, <1>6
<1>9. LogOK'
  BY <1>1, <1>2, <1>7, <1>8, LogGrows
<1>10. QED
  BY <1>1, <1>2, <1>9

\* A boot that was on has no shutdown yet.
LEMMA StillOn ==
  ASSUME IInv, LogOK, on, boots' = boots
  PROVE  \A i \in DOMAIN log :
           /\ log[i].kind = "Shutdown" => log[i].boot # Len(boots)
           /\ Entry(log[i]) /\ (log'[i] = log[i] => Entry(log[i])')
<1> SUFFICES ASSUME NEW i \in DOMAIN log
             PROVE  /\ log[i].kind = "Shutdown" => log[i].boot # Len(boots)
                    /\ Entry(log[i]) /\ (log'[i] = log[i] => Entry(log[i])')
  OBVIOUS
<1>1. Entry(log[i])
  BY DEF LogOK
<1>2. log[i].kind = "Shutdown" => log[i].boot # Len(boots)
  BY <1>1 DEF Entry
<1>3. log'[i] = log[i] => Entry(log[i])'
  BY <1>1, <1>2 DEF Entry
<1>4. QED
  BY <1>1, <1>2, <1>3

\* It ends cleanly: only now the boot has its shutdown.
LEMMA ShutDownFacts ==
  ASSUME IInv, Facts, ShutDown
  PROVE  Facts'
<1>1. /\ on /\ clock # boots[Len(boots)].at /\ on' = FALSE /\ up' = FALSE /\ scan' = AtRest
      /\ UNCHANGED <<clock, boots, fell, stored, linked>>
      /\ sessions' = {IF up /\ s.boot = Len(boots) THEN [s EXCEPT !.end = clock] ELSE s :
                        s \in sessions}
      /\ log' = Append(log, [id |-> Len(log) + 1, at |-> clock, kind |-> "Shutdown",
                             prev |-> None, boot |-> Len(boots)])
  BY DEF ShutDown, tables
<1>2. BootsOK /\ LogOK /\ LinksOK /\ SessionsOK
  BY DEF Facts
<1>3. fell = None
  BY <1>1, <1>2 DEF BootsOK
<1>4. BootsOK'
  <2>1. fell' = None
    BY <1>1, <1>3
  <2>2. QED
    BY <1>1, <1>2, <2>1, BootsStay
<1>5. LogOK' /\ \A i \in DOMAIN log : log'[i] = log[i]
  <2>1. Len(boots) \in DOMAIN boots /\ boots[Len(boots)].at \in Nat /\ clock \in Nat
    BY BootTypes
  <2>2. boots[Len(boots)].at < clock
    BY <1>1, <1>2, <2>1 DEF BootsOK
  <2>3. \A i \in DOMAIN log : log'[i] = log[i]
    BY <1>1, BootTypes
  <2>4. \A i \in DOMAIN log : Entry(log[i])'
    BY <1>1, <1>2, <2>3, StillOn
  <2>5. ~on' /\ fell' = None
    BY <1>1, <1>3
  <2> DEFINE kind == "Shutdown"
  <2>6. /\ kind \in {"Wer", "Shutdown"}
        /\ log' = Append(log, [id |-> Len(log) + 1, at |-> clock, kind |-> kind,
                               prev |-> None, boot |-> Len(boots)])
        /\ kind = "Wer" => boots[Len(boots)].fell # None
        /\ kind = "Shutdown" => boots[Len(boots)].at < clock /\ ~on' /\ fell' = None
    BY <1>1, <2>2, <2>5
  <2> HIDE DEF kind
  <2>7. QED
    BY <1>1, <1>2, <2>4, <2>6, OneMoreEntry
<1>6. /\ \A s \in sessions : \E r \in sessions' : r.boot = s.boot
      /\ \A r \in sessions' : \E s \in sessions :
           /\ r.boot = s.boot /\ r.at = s.at /\ r.start = s.start
           /\ r = IF up /\ s.boot = Len(boots) THEN [s EXCEPT !.end = clock] ELSE s
  <2> DEFINE ended(s) == IF up /\ s.boot = Len(boots) THEN [s EXCEPT !.end = clock] ELSE s
  <2>1. ASSUME NEW s \in sessions
        PROVE  ended(s).boot = s.boot /\ ended(s).at = s.at /\ ended(s).start = s.start
    <3>1. s \in [boot : DOMAIN boots, at : Time, start : Time, end : Time \cup {None}]
      BY DEF IInv, MachineOK
    <3>2. QED
      BY <3>1
  <2>2. sessions' = {ended(s) : s \in sessions}
    BY <1>1
  <2> HIDE DEF ended
  <2>3. /\ \A s \in sessions : ended(s) \in sessions' /\ ended(s).boot = s.boot
        /\ \A r \in sessions' : \E s \in sessions :
             r = ended(s) /\ r.boot = s.boot /\ r.at = s.at /\ r.start = s.start
    BY <2>1, <2>2
  <2>4. QED
    BY <2>3 DEF ended
<1>7. SessionsOK'
  <2>1. \A r \in sessions' : \E s \in sessions :
          r.boot = s.boot /\ r.at = s.at /\ r.start = s.start
    BY <1>6
  <2>2. \A r \in sessions' : /\ r.at = boots[r.boot].at /\ r.at <= r.start /\ r.start <= clock
                             /\ \A n \in DOMAIN boots : r.boot < n => r.start < boots[n].at
    BY <1>2, <2>1 DEF SessionsOK
  <2>3. ASSUME NEW r \in sessions', NEW q \in sessions', r.boot = q.boot
        PROVE  r = q
    <3>1. PICK s \in sessions :
            /\ r.boot = s.boot
            /\ r = IF up /\ s.boot = Len(boots) THEN [s EXCEPT !.end = clock] ELSE s
      BY <1>6
    <3>2. PICK t \in sessions :
            /\ q.boot = t.boot
            /\ q = IF up /\ t.boot = Len(boots) THEN [t EXCEPT !.end = clock] ELSE t
      BY <1>6
    <3>3. s = t
      BY <1>2, <2>3, <3>1, <3>2 DEF SessionsOK
    <3>4. QED
      BY <3>1, <3>2, <3>3
  <2>4. ~up' /\ scan'.phase = "rest"
    BY <1>1 DEF AtRest
  <2>5. QED
    BY <1>1, <2>2, <2>3, <2>4 DEF SessionsOK
<1>8. LinksOK'
  <2>1. \A n : (\E s \in sessions : s.boot = n) <=> (\E s \in sessions' : s.boot = n)
    <3>1. \A s \in sessions : \E r \in sessions' : r.boot = s.boot
      BY <1>6
    <3>2. \A r \in sessions' : \E s \in sessions : r.boot = s.boot
      BY <1>6
    <3>3. QED
      BY <3>1, <3>2
  <2>2. /\ Len(boots') \in Nat /\ Len(boots) <= Len(boots')
        /\ \A n \in DOMAIN boots : n \in DOMAIN boots' /\ boots'[n] = boots[n]
    BY <1>1, BootTypes
  <2>3. /\ \A n \in DOMAIN boots :
             (\E s \in sessions : s.boot = n) => (\E s \in sessions' : s.boot = n)
        /\ \A n \in DOMAIN boots : (\E s \in sessions' : s.boot = n) =>
             n = Len(boots) \/ (\E s \in sessions : s.boot = n)
    BY <2>1
  <2>4. stored' = stored /\ linked' = linked /\ \A i \in DOMAIN log : log'[i] = log[i]
    BY <1>1, <1>5
  <2>5. QED
    BY <1>2, <2>2, <2>3, <2>4, LinksStay
<1>9. QED
  BY <1>4, <1>5, <1>7, <1>8 DEF Facts

\* It breaks off, after its start.
LEMMA BreaksOffFacts ==
  ASSUME IInv, Facts, BreaksOff
  PROVE  Facts'
<1>1. /\ on /\ clock # boots[Len(boots)].at /\ on' = FALSE /\ up' = FALSE /\ scan' = AtRest
      /\ fell' = clock /\ UNCHANGED <<clock, boots, log, sessions, stored, linked>>
  BY DEF BreaksOff, tables
<1>2. BootsOK /\ LogOK /\ LinksOK /\ SessionsOK
  BY DEF Facts
<1>3. Len(boots) \in DOMAIN boots /\ Len(boots) \in Nat /\ boots[Len(boots)].at \in Nat
      /\ clock \in Nat
  BY BootTypes
<1>4. BootsOK'
  <2>1. ~on' /\ fell' <= clock /\ boots[Len(boots)].at < fell'
    BY <1>1, <1>2, <1>3 DEF BootsOK
  <2>2. QED
    BY <1>1, <1>2, <2>1, BootsStay
<1>5. LogOK'
  <2>1. \A i \in DOMAIN log : log'[i] = log[i] /\ Entry(log[i])'
    BY <1>1, <1>2, StillOn
  <2>2. QED
    BY <1>1, <1>2, <2>1 DEF LogOK
<1>6. SessionsOK'
  <2>1. ~up' /\ scan'.phase = "rest"
    BY <1>1 DEF AtRest
  <2>2. QED
    BY <1>1, <1>2, <2>1 DEF SessionsOK
<1>7. LinksOK'
  BY <1>1, <1>2, <1>3, LinksStay
<1>8. QED
  BY <1>4, <1>5, <1>6, <1>7 DEF Facts

\* A report is logged after the start of the boot it is about.
LEMMA WerReportsFacts ==
  ASSUME IInv, Facts, WerReports
  PROVE  Facts'
<1>1. /\ on /\ boots[Len(boots)].fell # None
      /\ UNCHANGED <<clock, on, boots, fell, up, sessions, scan, stored, linked>>
      /\ log' = Append(log, [id |-> Len(log) + 1, at |-> clock, kind |-> "Wer",
                             prev |-> None, boot |-> Len(boots)])
  BY DEF WerReports, tables
<1>2. BootsOK /\ LogOK /\ LinksOK /\ SessionsOK
  BY DEF Facts
<1>3. BootsOK'
  BY <1>1, <1>2, BootsStay DEF BootsOK
<1>4. LogOK' /\ \A i \in DOMAIN log : log'[i] = log[i]
  <2>1. \A i \in DOMAIN log : log'[i] = log[i]
    BY <1>1, BootTypes
  <2>2. \A i \in DOMAIN log : Entry(log[i])'
    BY <1>1, <1>2, <2>1, StillOn
  <2> DEFINE kind == "Wer"
  <2>3. /\ kind \in {"Wer", "Shutdown"}
        /\ log' = Append(log, [id |-> Len(log) + 1, at |-> clock, kind |-> kind,
                               prev |-> None, boot |-> Len(boots)])
        /\ kind = "Wer" => boots[Len(boots)].fell # None
        /\ kind = "Shutdown" => boots[Len(boots)].at < clock /\ ~on' /\ fell' = None
    BY <1>1
  <2> HIDE DEF kind
  <2>4. QED
    BY <1>1, <1>2, <2>2, <2>3, OneMoreEntry
<1>5. SessionsOK'
  BY <1>1, <1>2 DEF SessionsOK
<1>6. LinksOK'
  <2>1. Len(boots) \in Nat
    BY BootTypes
  <2>2. QED
    BY <1>1, <1>2, <1>4, <2>1, LinksStay
<1>7. QED
  BY <1>3, <1>4, <1>5, <1>6 DEF Facts

\* The application starts: before it reads, the boot has its session.
LEMMA AppStartsFacts ==
  ASSUME IInv, Facts, AppStarts
  PROVE  Facts'
<1> DEFINE new == [boot |-> Len(boots), at |-> boots[Len(boots)].at, start |-> clock, end |-> None]
<1>1. /\ ~up /\ up' = TRUE /\ UNCHANGED <<clock, on, boots, fell, log, scan, stored, linked>>
      /\ sessions' = IF \E s \in sessions : s.boot = Len(boots) THEN sessions
                     ELSE sessions \cup {new}
  BY DEF AppStarts, machine, tables
<1>2. BootsOK /\ LogOK /\ LinksOK /\ SessionsOK
  BY DEF Facts
<1>3. /\ Len(boots) \in DOMAIN boots /\ Len(boots) \in Nat /\ clock \in Nat
      /\ \A n \in DOMAIN boots : ~(Len(boots) < n)
  BY BootTypes, RowTypes
<1>4. new.boot = Len(boots) /\ new.at = boots[Len(boots)].at /\ new.start = clock
  OBVIOUS
<1> HIDE DEF new
<1>5. BootsOK'
  BY <1>1, <1>2 DEF BootsOK
<1>6. LogOK'
  BY <1>1, <1>2 DEF LogOK, Entry
<1>7. SessionsOK'
  <2>1. scan'.phase # "rest" => up'
    BY <1>1
  <2>2. CASE \E s \in sessions : s.boot = Len(boots)
    BY <1>1, <1>2, <2>1, <2>2 DEF SessionsOK
  <2>3. CASE ~ \E s \in sessions : s.boot = Len(boots)
    <3>1. sessions' = sessions \cup {new}
      BY <1>1, <2>3
    <3>2. /\ new.at = boots[new.boot].at /\ new.at <= new.start /\ new.start <= clock
          /\ \A n \in DOMAIN boots : new.boot < n => new.start < boots[n].at
      BY <1>2, <1>3, <1>4 DEF BootsOK
    <3>3. \A s \in sessions' : /\ s.at = boots[s.boot].at /\ s.at <= s.start /\ s.start <= clock
                               /\ \A n \in DOMAIN boots : s.boot < n => s.start < boots[n].at
      BY <1>2, <3>1, <3>2 DEF SessionsOK
    <3>4. \A s, r \in sessions' : s.boot = r.boot => s = r
      BY <1>2, <1>4, <2>3, <3>1 DEF SessionsOK
    <3>5. \E s \in sessions' : s.boot = Len(boots)
      BY <1>4, <3>1
    <3>6. QED
      BY <1>1, <2>1, <3>3, <3>4, <3>5 DEF SessionsOK
  <2>4. QED
    BY <2>2, <2>3
<1>8. LinksOK'
  <2>1. \A n : (\E s \in sessions : s.boot = n) => (\E s \in sessions' : s.boot = n)
    BY <1>1
  <2>2. \A n : (\E s \in sessions' : s.boot = n) =>
          n = Len(boots) \/ (\E s \in sessions : s.boot = n)
    BY <1>1, <1>4
  <2>3. QED
    BY <1>1, <1>2, <1>3, <2>1, <2>2, LinksStay
<1>9. QED
  BY <1>5, <1>6, <1>7, <1>8 DEF Facts

-----------------------------------------------------------------------------
(* Which reboot an event is taken to belong to.                            *)

\* A startup record, or a later report, is nearest to the session of its boot.
LEMMA OwnSession ==
  ASSUME IInv, Facts, NEW e \in LogRows, NEW s \in sessions, s.boot = e.boot,
         Within(e.at, boots[e.boot].at, Correlation),
         e.kind = "Wer" \/ e.at = boots[e.boot].at
  PROVE  Around(sessions, e, Correlation) = {s}
<1>1. /\ s.at = boots[e.boot].at /\ s.at \in Nat /\ e.at \in Nat /\ e.boot \in DOMAIN boots
      /\ s.boot \in Nat /\ Correlation \in Nat
      /\ \A y \in sessions : y.at \in Nat /\ y.boot \in DOMAIN boots /\ y.at = boots[y.boot].at
      /\ \A n \in DOMAIN boots : n \in Nat
  BY RowTypes, CrashAssumption DEF Facts, SessionsOK
<1>2. Entry(e)
  BY DEF Facts, LogOK, LogRows
<1>3. s.at <= e.at /\ Within(s.at, e.at, Correlation)
  BY <1>1, <1>2 DEF Entry, Within, Distance
<1>4. ASSUME NEW y \in sessions, y.at <= e.at, y # s
      PROVE  y.at < s.at
  <2>1. y.boot # e.boot
    BY <1>4 DEF Facts, SessionsOK
  <2>2. ~(e.boot < y.boot)
    BY <1>1, <1>2, <1>4 DEF Entry
  <2>3. y.boot < e.boot
    BY <1>1, <2>1, <2>2
  <2>4. QED
    BY <1>1, <2>3 DEF Facts, BootsOK
<1>5. Before(s, s)
  <2>1. s \in [boot : DOMAIN boots, at : Time, start : Time, end : Time \cup {None}]
    BY DEF IInv, MachineOK
  <2>2. "id" \notin DOMAIN s
    BY <2>1
  <2>3. QED
    BY <1>1, <2>2 DEF Before
<1>6. LastUpTo(sessions, e.at, Correlation) = {s}
  <2>1. s \in LastUpTo(sessions, e.at, Correlation)
    BY <1>3, <1>4, <1>5 DEF LastUpTo
  <2>2. ASSUME NEW x \in LastUpTo(sessions, e.at, Correlation), x # s
        PROVE  FALSE
    <3>1. x \in sessions /\ x.at <= e.at /\ (s.at < x.at \/ s.at = x.at)
      BY <1>3, <2>2 DEF LastUpTo
    <3>2. x.at < s.at
      BY <1>4, <2>2, <3>1
    <3>3. QED
      BY <1>1, <3>1, <3>2
  <2>3. QED
    BY <2>1, <2>2
<1>7. CASE e.kind = "Wer"
  BY <1>6, <1>7 DEF Around
<1>8. CASE e.kind # "Wer"
  <2> DEFINE future == FirstAfter(sessions, e.at, Correlation)
  <2>1. Around(sessions, e, Correlation) = Closest({s} \cup future, e.at)
    BY <1>6, <1>8 DEF Around
  <2>2. Distance(s.at, e.at) = 0
    BY <1>1, <1>8 DEF Distance
  <2>3. \A x \in future : Distance(s.at, e.at) < Distance(x.at, e.at) /\ x # s
    BY <1>1, <1>3, <2>2 DEF FirstAfter, Distance
  <2>4. ~(Distance(s.at, e.at) < Distance(s.at, e.at))
    BY <2>2
  <2> HIDE DEF future
  <2>5. Closest({s} \cup future, e.at) = {s}
    <3>1. s \in Closest({s} \cup future, e.at)
      BY <1>5, <2>3 DEF Closest
    <3>2. ASSUME NEW x \in Closest({s} \cup future, e.at), x # s
          PROVE  FALSE
      <4>1. x \in future /\ (Distance(x.at, e.at) < 0 \/ Distance(x.at, e.at) = 0)
        BY <2>2, <3>2 DEF Closest
      <4>2. Distance(x.at, e.at) \in Nat /\ 0 < Distance(x.at, e.at)
        <5>1. x \in sessions
          BY <4>1, AroundIsAmong DEF future
        <5>2. QED
          BY <1>1, <2>2, <2>3, <4>1, <5>1 DEF Distance
      <4>3. QED
        BY <4>1, <4>2
    <3>3. QED
      BY <3>1, <3>2
  <2>6. QED
    BY <2>1, <2>5
<1>9. QED
  BY <1>7, <1>8

\* An event that can be placed is of the reboot of its session.
LEMMA PlacedEpisode ==
  ASSUME IInv, Facts, NEW c, c.sessions = sessions, NEW e \in LogRows,
         NEW s \in sessions, s.boot = e.boot,
         Within(e.at, boots[e.boot].at, Correlation),
         e.kind = "Wer" \/ e.at = boots[e.boot].at
  PROVE  Episode(c, e).key = {<<"session", e.boot>>}
<1>1. Around(c.sessions, e, Correlation) = {s}
  BY OwnSession
<1> DEFINE logged == BootOf(c.events, e)
           boot == BootEventOf(c, logged, {s})
<1>2. Episode(c, e) = EpisodeOf({s}, boot)
  BY <1>1 DEF Episode, EpisodeFrom, SessionOf
<1> HIDE DEF boot
<1>3. EpisodeOf({s}, boot).key = {<<"session", s.boot>>}
  BY DEF EpisodeOf
<1>4. QED
  BY <1>2, <1>3

\* What a page is read with: the sessions, and events that were read.
LEMMA ContextParts ==
  ASSUME NEW page, NEW kept
  PROVE  ContextOf(page, kept).sessions = sessions /\ ContextOf(page, kept).events \subseteq kept
BY DEF ContextOf

\* A page is read: a placed event goes into the case of its boot's session.
LEMMA ReadPageFacts ==
  ASSUME IInv, Facts, ReadPage
  PROVE  Facts'
<1> DEFINE context == ContextOf(NextPage, stored')
<1>1. /\ scan.phase = "read" /\ stored' = stored \cup NextPage
      /\ UNCHANGED <<clock, on, boots, fell, log, up, sessions>>
      /\ linked' = linked \cup Links(context)
  BY DEF ReadPage, MoveCursor, machine, Persist
<1>2. BootsOK /\ LogOK /\ LinksOK /\ SessionsOK
  BY DEF Facts
<1>3. up
  BY <1>1, <1>2 DEF SessionsOK
<1>4. BootsOK' /\ LogOK'
  BY <1>1, <1>2 DEF BootsOK, LogOK, Entry
<1>5. SessionsOK'
  BY <1>1, <1>2, <1>3 DEF SessionsOK
<1>6. LinksOK'
  <2>1. \E s \in sessions : s.boot = Len(boots)
    BY <1>2, <1>3 DEF SessionsOK
  <2>2. context.sessions = sessions /\ context.events \subseteq stored'
    BY ContextParts
  <2>3. stored' \subseteq LogRows
    BY <1>1, PageIsLogged DEF IInv, TablesOK
  <2> HIDE DEF context
  <2>4. ASSUME NEW l \in Links(context)
        PROVE  \E e \in stored' : l.event = e.id /\ l.boot = e.boot
    BY <2>2 DEF Links, Boundaries
  <2>5. ASSUME NEW l \in Links(context), Placed(l)'
        PROVE  l.case = <<"session", l.boot>>
    <3>0. PICK e \in Boundaries(context.events) : \E x \in Candidate(context, e) :
            l = [event |-> e.id, boot |-> e.boot,
                 case |-> IF x.key = None THEN <<"at", x.anchor>> ELSE x.key]
      BY DEF Links
    <3>1. PICK x \in Candidate(context, e) :
            l = [event |-> e.id, boot |-> e.boot,
                 case |-> IF x.key = None THEN <<"at", x.anchor>> ELSE x.key]
      BY <3>0
    <3>2. e \in LogRows /\ e.kind \in Crashed
      BY <2>2, <2>3 DEF Boundaries
    <3>3. /\ e.id \in DOMAIN log /\ e.boot \in DOMAIN boots /\ e.boot \in Nat
          /\ log[e.id] = e /\ Entry(e)
      BY <1>2, <3>2, RowTypes DEF LogRows, LogOK
    <3>4. Within(e.at, boots[e.boot].at, Correlation)
      BY <1>1, <2>5, <3>1, <3>3 DEF Placed, Within, Distance
    <3>5. PICK s \in sessions : s.boot = e.boot
      BY <1>1, <2>5, <3>1 DEF Placed
    <3>6. e.kind = "Wer" \/ e.at = boots[e.boot].at
      BY <3>2, <3>3 DEF Entry, Crashed
    <3>7. Episode(context, e).key = {<<"session", e.boot>>}
      BY <2>2, <3>2, <3>4, <3>5, <3>6, PlacedEpisode
    <3>8. x.key = <<"session", e.boot>>
      <4> DEFINE episode == Episode(context, e)
      <4>1. x.key = IF episode.key = {} THEN None ELSE CHOOSE k \in episode.key : TRUE
        <5> DEFINE anchors == {a \in Anchors(e, episode, Told(context, episode),
                                             LastSeen(context, e, episode)) :
                                 /\ Supported(context, e, episode)
                                 /\ ~StoppedCleanly(context, e, a.at)}
                   key == IF episode.key = {} THEN None ELSE CHOOSE k \in episode.key : TRUE
        <5>1. Candidate(context, e) = {[key |-> key, rank |-> Rank(e.kind), anchor |-> a.at,
                                        quality |-> a.quality] : a \in anchors}
          BY Zenon DEF Candidate, CandidateOf
        <5> HIDE DEF anchors, key, episode
        <5>2. x.key = key
          BY <5>1
        <5>3. QED
          BY <5>2 DEF key
      <4>2. episode.key = {<<"session", e.boot>>}
        BY <3>7
      <4> HIDE DEF episode
      <4>3. QED
        BY <4>1, <4>2
    <3>9. <<"session", e.boot>> # None
      BY <3>3, CrashAssumption
    <3>10. QED
      BY <3>1, <3>8, <3>9
  <2>6. \A l \in linked : \E e \in stored' : l.event = e.id /\ l.boot = e.boot
    BY <1>1, <1>2 DEF LinksOK
  <2>7. ASSUME NEW l \in linked, Placed(l)'
        PROVE  l.case = <<"session", l.boot>>
    <3>1. Placed(l)
      BY <1>1, <2>7 DEF Placed
    <3>2. QED
      BY <1>2, <3>1 DEF LinksOK
  <2>8. QED
    <3>1. linked' = linked \cup Links(context) /\ boots' = boots /\ sessions' = sessions
      BY <1>1 DEF context
    <3>2. \A l \in linked' : \E e \in stored' : l.event = e.id /\ l.boot = e.boot
      BY <2>4, <2>6, <3>1
    <3>3. \A l \in linked' : Placed(l)' => l.case = <<"session", l.boot>>
      BY <2>5, <2>7, <3>1
    <3>4. QED
      BY <2>1, <3>1, <3>2, <3>3 DEF LinksOK
<1>7. QED
  BY <1>4, <1>5, <1>6 DEF Facts

\* All of it holds at the first start.
LEMMA InitFacts ==
  ASSUME Init
  PROVE  Facts
<1>1. /\ clock = 1 /\ on = TRUE /\ fell = None /\ boots = <<[at |-> 1, fell |-> 0]>>
      /\ log \in Logged(<<>>, 1, 1, 0) /\ up = FALSE /\ sessions = {} /\ stored = {}
      /\ linked = {} /\ scan = AtRest
  BY DEF Init
<1>2. /\ DOMAIN boots = {1} /\ boots[1].at = 1 /\ boots[1].fell = 0 /\ Len(boots) = 1
  BY <1>1
<1>3. BootsOK
  BY <1>1, <1>2 DEF BootsOK
<1>4. DOMAIN log = 1 .. Len(log) /\ Len(log) \in Nat
  BY InitHolds, BootTypes
<1>5. ASSUME NEW i \in 1 .. Len(log)
      PROVE  /\ log[i].id = i /\ log[i].at = 1 /\ log[i].boot = 1
             /\ log[i].kind \in Crashed \cup {"Boot"} /\ log[i].prev \in {0, None}
             /\ log[i].kind \in Crashed => 0 # None
  <2> DEFINE start == <<>>
             nothing == {}
  <2>1. start \in Seq(nothing) /\ log \in Logged(start, 1, 1, 0) /\ i > Len(start)
    BY <1>1
  <2> HIDE DEF start, nothing
  <2>2. QED
    BY <2>1, LoggedEntries
<1>6. LogOK
  <2>1. ASSUME NEW i \in 1 .. Len(log)
        PROVE  Entry(log[i])
    <3>1. log[i].kind # "Shutdown"
      BY <1>5 DEF Crashed
    <3>2. QED
      BY <1>2, <1>5, <3>1 DEF Entry
  <2>2. QED
    BY <1>1, <1>4, <1>5, <2>1 DEF LogOK
<1>7. SessionsOK /\ LinksOK
  BY <1>1 DEF SessionsOK, LinksOK, AtRest
<1>8. QED
  BY <1>3, <1>6, <1>7 DEF Facts

\* Time, the application at work, and the detector outside of its reading.
LEMMA QuietSteps ==
  ASSUME IInv, Facts,
         \/ Tick \/ AppEnds \/ Sample \/ BeginRound \/ CaughtUp \/ Build \/ BuildBreaks
         \/ ReadFails \/ Prune \/ Clear \/ Release \/ Rebuild \/ UNCHANGED vars
  PROVE  /\ UNCHANGED <<boots, on, fell, log, stored, linked, cursor, sessions>>
         /\ Facts'
<1>1. UNCHANGED <<boots, on, fell, log, stored, linked, cursor, sessions>>
  BY DEF Tick, AppEnds, Sample, BeginRound, CaughtUp, Build, BuildBreaks, ReadFails, Prune,
         Clear, Release, Rebuild, machine, tables, vars
<1>2. clock' = clock \/ clock' = clock + 1
  BY DEF Tick, AppEnds, Sample, BeginRound, CaughtUp, Build, BuildBreaks, ReadFails, Prune,
         Clear, Release, Rebuild, vars
<1>3. clock \in Nat
  BY BootTypes
<1>4. clock <= clock' /\ clock' \in Nat
  BY <1>2, <1>3
<1>5. scan.phase # "rest" => up
  BY DEF Facts, SessionsOK
<1>6. (up' => up) /\ (scan'.phase # "rest" => up')
  <2>1. CASE Tick \/ Sample \/ Prune \/ Clear \/ Release \/ Rebuild \/ UNCHANGED vars
    BY <1>5, <2>1 DEF Tick, Sample, Prune, Clear, Release, Rebuild, vars
  <2>2. CASE AppEnds
    BY <2>2 DEF AppEnds, AtRest
  <2>3. CASE ReadFails
    BY <2>3 DEF ReadFails, AtRest
  <2>4. CASE BeginRound
    BY <2>4 DEF BeginRound
  <2>5. CASE CaughtUp
    BY <1>5, <2>5 DEF CaughtUp
  <2>6. CASE Build \/ BuildBreaks
    <3>1. PICK failed : scan' = AfterBuild(failed)
      BY <2>6 DEF Build, BuildBreaks
    <3>2. up' = up
      BY <2>6 DEF Build, BuildBreaks
    <3>3. scan \in [phase : {"rest", "read", "build", "due"}, now : Time, todo : Seq(DOMAIN cases)]
      BY DEF IInv, TablesOK
    <3>4. scan'.phase # "rest" => scan.phase # "rest"
      BY <3>1, <3>3 DEF AfterBuild, AtRest
    <3>5. QED
      BY <1>5, <3>2, <3>4
  <2>7. QED
    BY <2>1, <2>2, <2>3, <2>4, <2>5, <2>6
<1>7. QED
  BY <1>1, <1>4, <1>6, QuietFacts

\* Every step keeps it.
LEMMA FactsKept ==
  ASSUME IInv, Facts, [Next]_vars
  PROVE  Facts'
<1>1. CASE PowerOn \/ ShutDown \/ BreaksOff
  BY <1>1, PowerOnFacts, ShutDownFacts, BreaksOffFacts
<1>2. CASE WerReports \/ AppStarts \/ ReadPage
  BY <1>2, WerReportsFacts, AppStartsFacts, ReadPageFacts
<1>3. CASE \/ Tick \/ AppEnds \/ Sample \/ BeginRound \/ CaughtUp \/ Build \/ BuildBreaks
           \/ ReadFails \/ Prune \/ Clear \/ Release \/ Rebuild \/ UNCHANGED vars
  BY <1>3, QuietSteps
<1>4. QED
  BY <1>1, <1>2, <1>3 DEF Next

\* So it always holds.
LEMMA FactsHold == Spec => [](IInv /\ Facts)
<1>1. Init => Facts
  BY InitFacts
<1>2. IInv /\ Facts /\ [Next]_vars => Facts'
  BY FactsKept
<1>3. QED
  BY <1>1, <1>2, Inductive, PTL DEF Spec

\* All reports of one crash go into one case and those of two crashes into
\* two, in whatever order they are logged and read and however short a boot
\* is: resolve_reboot_episode takes the boot session of the event, and that
\* session is there, and stays, when the event is read.
THEOREM EveryCrashIsOneCase == Spec => []OneCasePerCrash
<1>1. IInv /\ Facts => OneCasePerCrash
  <2> SUFFICES ASSUME IInv, Facts, NEW k \in linked, NEW l \in linked, Placed(k), Placed(l)
               PROVE  k.case = l.case <=> k.boot = l.boot
    BY DEF OneCasePerCrash
  <2>1. k.case = <<"session", k.boot>> /\ l.case = <<"session", l.boot>>
    BY DEF Facts, LinksOK
  <2>2. QED
    BY <2>1
<1>2. QED
  BY <1>1, FactsHold, PTL

\* What is found around a time is in the set and in the window.
LEMMA AroundIsWithin ==
  ASSUME NEW S, NEW e, NEW t, NEW w
  PROVE  /\ \A x \in LastUpTo(S, t, w) \cup FirstAfter(S, t, w) : x \in S /\ Within(x.at, t, w)
         /\ \A x \in Closest(S, t) : x \in S
         /\ \A x \in Around(S, e, w) : x \in S /\ Within(x.at, e.at, w)
<1>1. \A T, u, v : \A x \in LastUpTo(T, u, v) \cup FirstAfter(T, u, v) :
        x \in T /\ Within(x.at, u, v)
  BY Zenon DEF LastUpTo, FirstAfter
<1>2. \A T, u : Closest(T, u) \subseteq T
  BY Zenon DEF Closest
<1>3. Around(S, e, w) \subseteq LastUpTo(S, e.at, w) \cup FirstAfter(S, e.at, w)
  BY <1>2, Zenon DEF Around
<1>4. QED
  BY <1>1, <1>2, <1>3, Zenon

\* Boots that are apart are told apart by either window.
LEMMA Spaced ==
  ASSUME IInv, Apart, NEW m \in DOMAIN boots, NEW n \in DOMAIN boots
  PROVE  /\ m < n => boots[m].at + Correlation < boots[n].at
         /\ Within(boots[m].at, boots[n].at, Correlation) => m = n
         /\ Within(boots[m].at, boots[n].at, BootMatch) => m = n
         /\ boots[m].at <= boots[n].at + Correlation => m <= n
<1>1. /\ boots[m].at \in Nat /\ boots[n].at \in Nat /\ m \in Nat /\ n \in Nat
      /\ Correlation \in Nat /\ BootMatch \in Nat /\ BootMatch <= Correlation
  BY RowTypes, CrashAssumption
<1>2. /\ m < n => boots[n].at - boots[m].at > Correlation
      /\ n < m => boots[m].at - boots[n].at > Correlation
  BY DEF Apart
<1>3. m < n => boots[m].at + Correlation < boots[n].at
  BY <1>1, <1>2
<1>4. n < m => boots[n].at + Correlation < boots[m].at
  BY <1>1, <1>2
<1>5. m < n \/ n < m \/ m = n
  BY <1>1
<1> DEFINE p == boots[m].at
           q == boots[n].at
<1>6. p \in Nat /\ q \in Nat
  BY <1>1
<1> HIDE DEF p, q
<1>7. /\ p + Correlation < q => ~Within(p, q, Correlation) /\ ~Within(p, q, BootMatch)
      /\ q + Correlation < p => /\ ~Within(p, q, Correlation) /\ ~Within(p, q, BootMatch)
                                /\ ~(p <= q + Correlation)
  BY <1>1, <1>6 DEF Within, Distance
<1>8. QED
  BY <1>1, <1>3, <1>4, <1>5, <1>7 DEF p, q

\* A later boot did not start earlier.
LEMMA BootsInOrder ==
  ASSUME IInv, BootsOK, NEW m \in DOMAIN boots, NEW n \in DOMAIN boots, m <= n
  PROVE  boots[m].at <= boots[n].at
<1>1. boots[m].at \in Nat /\ m \in Nat /\ n \in Nat /\ boots[n].at \in Nat
  BY RowTypes
<1>2. m < n \/ m = n
  BY <1>1
<1>3. QED
  BY <1>1, <1>2 DEF BootsOK

\* Without a clean end just before boot q, there is none from `a` up to it.
LEMMA NoShutdownBefore ==
  ASSUME IInv, Facts, NEW q \in DOMAIN boots, boots[q].fell # None, NEW a \in Nat,
         \A m \in DOMAIN boots : m < q => boots[m].at <= a,
         NEW s \in LogRows, s.kind = "Shutdown", a <= s.at
  PROVE  boots[q].at < s.at
<1>1. Entry(s)
  BY DEF Facts, LogOK, LogRows
<1>2. /\ s.boot \in DOMAIN boots /\ s.at \in Nat /\ DOMAIN boots = 1 .. Len(boots)
      /\ Len(boots) \in Nat /\ q \in Nat /\ s.boot \in Nat
      /\ \A n \in DOMAIN boots : boots[n].at \in Nat
  BY RowTypes, BootTypes
<1>3. boots[s.boot].at < s.at
  BY <1>1 DEF Entry
<1>4. CASE q <= s.boot
  <2>1. boots[q].at <= boots[s.boot].at
    BY <1>2, <1>4 DEF Facts, BootsOK
  <2>2. QED
    BY <1>2, <1>3, <2>1
<1>5. CASE s.boot < q
  <2>1. s.boot # Len(boots) /\ s.boot + 1 \in DOMAIN boots /\ s.boot < s.boot + 1
    BY <1>2, <1>5
  <2>2. boots[s.boot + 1].fell = None /\ s.at < boots[s.boot + 1].at
    BY <1>1, <2>1 DEF Entry
  <2>3. s.boot + 1 < q
    BY <1>2, <1>5, <2>2
  <2>4. boots[s.boot + 1].at <= a
    BY <2>1, <2>3
  <2>5. QED
    BY <1>2, <2>1, <2>2, <2>4
<1>6. QED
  BY <1>2, <1>4, <1>5

\* Then the crash before boot q is not taken for a clean stop.
LEMMA NotStopped ==
  ASSUME IInv, Facts, Apart, NEW c, c.events \subseteq LogRows, NEW e \in LogRows,
         NEW a \in Nat, NEW q \in DOMAIN boots, a <= boots[q].at, e.at <= boots[q].at,
         \A s \in LogRows : s.kind = "Shutdown" /\ a <= s.at => boots[q].at < s.at
  PROVE  ~StoppedCleanly(c, e, a)
<1> DEFINE ahead == {b \in Boots(c.events) : b.at >= a /\ Within(b.at, a, Correlation)}
           next == Closest(ahead, a)
           until == IF next # {} THEN {b.at : b \in next}
                    ELSE {IF e.at > a THEN e.at ELSE a}
<1>1. /\ boots[q].at \in Nat /\ e.at \in Nat /\ Correlation \in Nat /\ q \in Nat
      /\ \A s \in LogRows : s.at \in Nat
      /\ \A n \in DOMAIN boots : n \in Nat
  BY RowTypes, CrashAssumption
<1>2. \E u \in until : u \in Nat /\ u <= boots[q].at
  <2>1. CASE next = {}
    BY <1>1, <2>1
  <2>2. CASE next # {}
    <3>1. PICK b \in next : TRUE
      BY <2>2
    <3>2. b \in ahead
      <4> HIDE DEF ahead
      <4> QED
        BY <3>1, AroundIsWithin
    <3>3. b \in LogRows /\ b.kind = "Boot" /\ b.at >= a /\ Within(b.at, a, Correlation)
      BY <3>2 DEF Boots
    <3>4. b.at = boots[b.boot].at /\ b.boot \in DOMAIN boots /\ b.at \in Nat
      <4>1. Entry(b)
        BY <3>3 DEF Facts, LogOK, LogRows
      <4>2. QED
        BY <3>3, <4>1, RowTypes DEF Entry
    <3>5. b.at <= a + Correlation
      BY <1>1, <3>3, <3>4 DEF Within, Distance
    <3>6. b.boot <= q
      <4>1. boots[b.boot].at <= boots[q].at + Correlation
        BY <1>1, <3>4, <3>5
      <4>2. QED
        BY <3>4, <4>1, Spaced
    <3>7. b.at <= boots[q].at
      BY <1>1, <3>4, <3>6 DEF Facts, BootsOK
    <3>8. b.at \in until
      BY <2>2, <3>1
    <3>9. QED
      BY <3>4, <3>7, <3>8
  <2>3. QED
    BY <2>1, <2>2
<1>3. StoppedCleanly(c, e, a) =>
        \E s \in c.events : s.kind = "Shutdown" /\ s.at >= a /\ \A u \in until : s.at <= u
  BY DEF StoppedCleanly
<1> HIDE DEF until
<1>4. QED
  BY <1>1, <1>2, <1>3

\* A startup record goes with the boot records of its own boot, if there are any.
LEMMA LoggedReboot ==
  ASSUME IInv, Facts, Apart, NEW events, events \subseteq LogRows, IsFiniteSet(events),
         NEW o \in events, o.at = boots[o.boot].at
  PROVE  /\ \A b \in BootOf(events, o) :
              b \in Boots(events) /\ b.boot = o.boot /\ b.at = boots[o.boot].at
         /\ (\E b \in Boots(events) : b.boot = o.boot) => BootOf(events, o) # {}
<1> DEFINE all == Boots(events)
           past == LastUpTo(all, o.at, BootMatch)
           near == past \cup FirstAfter(all, o.at, BootMatch)
<1>1. \A b \in all : /\ b \in events /\ b.at = boots[b.boot].at /\ b.boot \in DOMAIN boots
                     /\ b.at \in Nat /\ b.id \in Nat /\ b \in EventRow
  <2> SUFFICES ASSUME NEW b \in all
               PROVE  /\ b \in events /\ b.at = boots[b.boot].at /\ b.boot \in DOMAIN boots
                      /\ b.at \in Nat /\ b.id \in Nat /\ b \in EventRow
    OBVIOUS
  <2>1. b \in events /\ b \in LogRows /\ b.kind = "Boot"
    BY DEF Boots
  <2>2. Entry(b)
    BY <2>1 DEF Facts, LogOK, LogRows
  <2>3. b \in EventRow
    BY <2>1, InvGivesTypes, LogTypes
  <2>4. b.boot \in DOMAIN boots /\ b.at \in Nat /\ b.id \in DOMAIN log
    BY <2>1, RowTypes
  <2>5. b.id \in Nat
    BY <2>4, RowTypes
  <2>6. QED
    BY <2>1, <2>2, <2>3, <2>4, <2>5 DEF Entry
<1>2. o.boot \in DOMAIN boots /\ o.at \in Nat /\ BootMatch \in Nat
  BY RowTypes, CrashAssumption
<1>3. \A b \in all : Within(b.at, o.at, BootMatch) \/ Within(b.at, o.at, Correlation)
                       => b.boot = o.boot
  BY <1>1, <1>2, Spaced
<1> HIDE DEF all
<1>4. /\ near = {} => BootOf(events, o) = Around(all, o, Correlation)
      /\ near # {} => BootOf(events, o) = Closest(near, o.at)
  BY DEF BootOf, all
<1>5. ASSUME NEW b \in BootOf(events, o)
      PROVE  b \in all /\ b.boot = o.boot /\ b.at = boots[o.boot].at
  <2>1. CASE near = {}
    <3>1. b \in Around(all, o, Correlation)
      BY <1>4, <2>1
    <3>2. b \in all /\ Within(b.at, o.at, Correlation)
      BY <3>1, AroundIsWithin, Zenon
    <3>3. QED
      BY <1>1, <1>3, <3>2
  <2>2. CASE near # {}
    <3> HIDE DEF near
    <3>1. b \in near
      <4>1. b \in Closest(near, o.at)
        BY <1>4, <2>2
      <4>2. QED
        BY <4>1, Zenon DEF Closest
    <3>2. b \in all /\ Within(b.at, o.at, BootMatch)
      BY <3>1, AroundIsWithin DEF near
    <3>3. QED
      BY <1>1, <1>3, <3>2
  <2>3. QED
    BY <2>1, <2>2
<1>6. ASSUME NEW own \in all, own.boot = o.boot
      PROVE  BootOf(events, o) # {}
  <2> DEFINE same == {b \in all : b.at = o.at}
             later == {p \in same \X same : p[1].id <= p[2].id}
  <2>1. own \in same /\ same \subseteq events /\ IsFiniteSet(same)
    <3>1. own \in same /\ same \in SUBSET events
      BY <1>1, <1>6
    <3>2. QED
      BY <3>1, FS_Subset
  <2>2. \A b, d \in same : <<b, d>> \in later <=> b.id <= d.id
    OBVIOUS
  <2>3. \A b \in same : b \in all /\ b.at = o.at /\ b.id \in Nat /\ b \in EventRow
    BY <1>1
  <2> HIDE DEF same, later
  <2>4. Preorders(same, later)
    BY <2>2, <2>3 DEF Preorders
  <2>5. PICK x \in same : \A b \in same : <<b, x>> \in later
    BY <2>1, <2>4, LastOfOrder
  <2>6. /\ \A b \in same : b.id <= x.id
        /\ \A b \in all : b.at = o.at => b \in same
    BY <2>2, <2>5 DEF same
  <2>7. \A b \in all : DOMAIN b = {"id", "at", "kind", "prev", "boot"}
    BY <1>1 DEF EventRow
  <2>8. \A b, d \in all : Before(b, d) <=> b.id <= d.id
    BY <2>7 DEF Before
  <2>9. x \in all /\ x.at = o.at /\ Distance(x.at, o.at) = 0
    BY <1>2, <2>3 DEF Distance
  <2>10. Within(x.at, o.at, BootMatch)
    BY <1>2, <2>9 DEF Within
  <2>11. ASSUME NEW y \in all, y.at <= o.at
         PROVE  y.at < x.at \/ (y.at = x.at /\ Before(y, x))
    BY <1>1, <1>2, <2>6, <2>8, <2>9, <2>11
  <2>12. x \in past
    BY <1>2, <2>9, <2>10, <2>11 DEF LastUpTo
  <2>13. ASSUME NEW y \in near
         PROVE  \/ Distance(x.at, o.at) < Distance(y.at, o.at)
                \/ (Distance(x.at, o.at) = Distance(y.at, o.at) /\ Before(x, y))
    <3>1. y \in all /\ y.at \in Nat
      BY <1>1, AroundIsWithin
    <3>2. CASE y.at # o.at
      <4>1. 0 < Distance(y.at, o.at)
        BY <1>2, <3>1, <3>2 DEF Distance
      <4>2. QED
        BY <2>9, <4>1
    <3>3. CASE y.at = o.at
      <4>1. y \in past
        BY <1>2, <3>3 DEF FirstAfter
      <4>2. \/ x.at < y.at
            \/ (x.at = y.at /\ Before(x, y))
        BY <1>2, <2>9, <4>1 DEF LastUpTo
      <4>3. Before(x, y)
        BY <1>2, <2>9, <3>3, <4>2
      <4>4. QED
        BY <2>9, <3>3, <4>3
    <3>4. QED
      BY <3>2, <3>3
  <2>14. x \in near
    BY <2>12
  <2> HIDE DEF near
  <2>15. x \in Closest(near, o.at)
    BY <2>13, <2>14 DEF Closest
  <2>16. QED
    BY <1>4, <2>14, <2>15
<1>7. QED
  BY <1>5, <1>6 DEF all

\* The session of its boot, or one of the boot before it that began late.
LEMMA SessionOfReboot ==
  ASSUME IInv, Facts, Apart, NEW c, c.sessions = sessions, c.events \subseteq LogRows,
         IsFiniteSet(c.events), NEW o \in c.events, o.at = boots[o.boot].at,
         NEW session,
         session = SessionOf(c, Around(c.sessions, o, Correlation), BootOf(c.events, o))
  PROVE  /\ \E r \in {o.boot, o.boot - 1} : \A s \in session : s \in sessions /\ s.boot = r
         /\ (\E s \in sessions : s.boot = o.boot) => session # {}
<1> DEFINE direct == Around(sessions, o, Correlation)
           logged == BootOf(c.events, o)
<1>1. /\ o \in LogRows /\ o.boot \in DOMAIN boots /\ o.at \in Nat
      /\ Correlation \in Nat /\ BootMatch \in Nat /\ BootMatch <= Correlation
      /\ \A n \in DOMAIN boots : n \in Nat /\ boots[n].at \in Nat
      /\ DOMAIN boots = 1 .. Len(boots) /\ Len(boots) \in Nat
  BY RowTypes, BootTypes, CrashAssumption
<1>2. \A s \in sessions :
        /\ s.boot \in DOMAIN boots /\ s.at = boots[s.boot].at /\ s.at <= s.start
        /\ s.at \in Nat /\ s.start \in Nat
        /\ \A n \in DOMAIN boots : s.boot < n => s.start < boots[n].at
  BY RowTypes DEF Facts, SessionsOK
<1>3. ASSUME NEW s \in direct
      PROVE  s \in sessions /\ s.boot = o.boot
  <2>1. s \in sessions /\ Within(s.at, o.at, Correlation)
    BY <1>3, AroundIsWithin, Zenon
  <2>2. QED
    BY <1>1, <1>2, <2>1, Spaced
<1>4. ASSUME NEW s \in sessions, s.boot = o.boot
      PROVE  direct # {}
  <2>1. Within(o.at, boots[o.boot].at, Correlation)
    BY <1>1 DEF Within, Distance
  <2>2. QED
    BY <1>1, <1>4, <2>1, OwnSession
<1>5. \A b \in logged : b.at = boots[o.boot].at
  BY LoggedReboot
<1>6. session = IF direct # {} THEN direct ELSE UNION {SessionNear(sessions, b.at) : b \in logged}
  BY DEF SessionOf
<1> HIDE DEF direct, logged
<1>7. CASE direct # {}
  BY <1>3, <1>6, <1>7
<1>8. CASE direct = {}
  <2>1. ASSUME NEW s \in session
        PROVE  s \in sessions /\ s.boot = o.boot - 1
    <3> DEFINE t == boots[o.boot].at
               far == IF Distance(s.at, t) <= Distance(s.start, t)
                        THEN Distance(s.at, t) ELSE Distance(s.start, t)
    <3>1. s \in SessionNear(sessions, t)
      BY <1>5, <1>6, <1>8
    <3>2. s \in sessions /\ far <= BootMatch
      BY <3>1 DEF SessionNear
    <3>3. s.boot # o.boot
      BY <1>4, <1>8, <3>2
    <3>4. t \in Nat /\ s.at \in Nat /\ s.start \in Nat /\ s.boot \in Nat /\ s.boot \in DOMAIN boots
          /\ s.at = boots[s.boot].at /\ s.at <= s.start
      BY <1>1, <1>2, <3>2
    <3>5. Within(s.at, t, BootMatch) \/ Within(s.start, t, BootMatch)
      <4>1. far = Distance(s.at, t) \/ far = Distance(s.start, t)
        OBVIOUS
      <4> HIDE DEF far
      <4>2. QED
        BY <3>2, <4>1 DEF Within
    <3>6. CASE o.boot < s.boot
      <4>1. t + Correlation < s.at
        BY <1>1, <3>4, <3>6, Spaced
      <4> HIDE DEF t
      <4>2. QED
        BY <1>1, <3>4, <3>5, <4>1 DEF Within, Distance
    <3>7. CASE s.boot < o.boot - 1
      <4>1. /\ s.boot < o.boot - 1 /\ o.boot - 1 \in DOMAIN boots /\ o.boot - 1 < o.boot
        BY <1>1, <3>4, <3>7
      <4>2. s.start < boots[o.boot - 1].at /\ boots[o.boot - 1].at \in Nat
        BY <1>1, <1>2, <3>2, <4>1
      <4>3. boots[o.boot - 1].at + Correlation < t
        BY <1>1, <4>1, Spaced
      <4>4. s.start + Correlation < t
        BY <1>1, <3>4, <4>2, <4>3
      <4> HIDE DEF t
      <4>5. QED
        BY <1>1, <3>4, <3>5, <4>4 DEF Within, Distance
    <3>8. s.boot = o.boot - 1
      BY <1>1, <3>3, <3>4, <3>6, <3>7
    <3>9. QED
      BY <3>2, <3>8
  <2>2. ~ \E s \in sessions : s.boot = o.boot
    BY <1>4, <1>8
  <2>3. QED
    BY <2>1, <2>2
<1>9. QED
  BY <1>7, <1>8, <1>4, <1>6

\* So the reboot is that of the event's own boot or of the one before.
LEMMA EpisodeOfReboot ==
  ASSUME IInv, Facts, Apart, NEW c, c.sessions = sessions, c.events \subseteq LogRows,
         IsFiniteSet(c.events), NEW o \in c.events, o.at = boots[o.boot].at
  PROVE  /\ \E r \in {o.boot, o.boot - 1} :
              /\ \A t \in Episode(c, o).at : r \in DOMAIN boots /\ t = boots[r].at
              /\ \A k \in Episode(c, o).key :
                   \/ k = <<"session", r>>
                   \/ r = o.boot /\ \E b \in Boots(c.events) : k = <<"boot", b.id>> /\ b.boot = r
         /\ ((\E s \in sessions : s.boot = o.boot) \/ (\E b \in Boots(c.events) : b.boot = o.boot))
              => Episode(c, o).at # {}
<1> DEFINE logged == BootOf(c.events, o)
           session == SessionOf(c, Around(c.sessions, o, Correlation), logged)
           boot == BootEventOf(c, logged, session)
<1>1. Episode(c, o) = EpisodeOf(session, boot)
  BY DEF Episode, EpisodeFrom
<1>2. /\ \A b \in logged : b \in Boots(c.events) /\ b.boot = o.boot /\ b.at = boots[o.boot].at
      /\ (\E b \in Boots(c.events) : b.boot = o.boot) => logged # {}
  BY LoggedReboot
<1>3. /\ \E r \in {o.boot, o.boot - 1} : \A s \in session : s \in sessions /\ s.boot = r
      /\ (\E s \in sessions : s.boot = o.boot) => session # {}
  BY SessionOfReboot
<1>4. boot = IF session = {} THEN logged
             ELSE UNION {Closest({b \in Boots(c.events) : Within(b.at, s.at, BootMatch)}, s.at) :
                           s \in session}
  BY DEF BootEventOf
<1>5. o.boot \in DOMAIN boots
  BY RowTypes
<1> HIDE DEF logged, session, boot
<1>6. CASE session = {}
  <2>1. boot = logged
    BY <1>4, <1>6
  <2>2. /\ \A t \in EpisodeOf(session, boot).at : t = boots[o.boot].at
        /\ \A k \in EpisodeOf(session, boot).key :
             \E b \in Boots(c.events) : k = <<"boot", b.id>> /\ b.boot = o.boot
        /\ logged # {} => EpisodeOf(session, boot).at # {}
    BY <1>2, <1>6, <2>1 DEF EpisodeOf
  <2>3. QED
    BY <1>1, <1>2, <1>3, <1>5, <1>6, <2>2
<1>7. CASE session # {}
  <2>1. PICK r \in {o.boot, o.boot - 1} : \A s \in session : s \in sessions /\ s.boot = r
    BY <1>3
  <2>2. r \in DOMAIN boots /\ \A s \in session : s.at = boots[r].at
    <3>1. \A s \in sessions : s.boot \in DOMAIN boots /\ s.at = boots[s.boot].at
      BY RowTypes DEF Facts, SessionsOK
    <3>2. QED
      BY <1>7, <2>1, <3>1
  <2>3. ASSUME NEW b \in boot
        PROVE  b.at = boots[r].at
    <3>1. PICK s \in session :
            b \in Closest({d \in Boots(c.events) : Within(d.at, s.at, BootMatch)}, s.at)
      BY <1>4, <1>7
    <3>2. b \in Boots(c.events) /\ Within(b.at, s.at, BootMatch)
      <4> DEFINE close == {d \in Boots(c.events) : Within(d.at, s.at, BootMatch)}
      <4>1. b \in Closest(close, s.at)
        BY <3>1
      <4> HIDE DEF close
      <4>2. b \in close
        BY <4>1, AroundIsWithin
      <4>3. QED
        BY <4>2 DEF close
    <3>3. b \in LogRows /\ b.kind = "Boot"
      BY <3>2 DEF Boots
    <3>4. Entry(b)
      BY <3>3 DEF Facts, LogOK, LogRows
    <3>5. b.at = boots[b.boot].at /\ b.boot \in DOMAIN boots
      BY <3>3, <3>4, RowTypes DEF Entry
    <3>6. b.boot = r
      BY <2>2, <3>2, <3>5, Spaced
    <3>7. QED
      BY <3>5, <3>6
  <2>4. /\ \A t \in EpisodeOf(session, boot).at : t = boots[r].at
        /\ \A k \in EpisodeOf(session, boot).key : k = <<"session", r>>
        /\ EpisodeOf(session, boot).at # {}
    BY <1>7, <2>1, <2>2, <2>3 DEF EpisodeOf
  <2>5. QED
    BY <1>1, <2>1, <2>2, <2>4
<1>8. QED
  BY <1>6, <1>7

\* A crash that can be attributed is never explained away: whichever evidence
\* the time it stopped comes from, no clean shutdown lies from there up to the
\* boot after it.
LEMMA CrashHasCandidate ==
  ASSUME IInv, Facts, Apart, NEW c, Readable(c), c.sessions = sessions, c.events \subseteq LogRows,
         NEW e \in c.events, e.kind \in {"BugCheck", "Unexpected"},
         \/ \E s \in sessions : s.boot = e.boot
         \/ \E b \in Boots(c.events) : b.boot = e.boot
         \/ Physical(e)
  PROVE  Candidate(c, e) # {}
<1> DEFINE n == e.boot
           episode == Episode(c, e)
           anchors == Anchors(e, episode, Told(c, episode), LastSeen(c, e, episode))
<1>1. /\ e \in LogRows /\ e \in EventRow /\ n \in DOMAIN boots /\ n \in Nat /\ e.at \in Nat
      /\ Correlation \in Nat /\ Time \subseteq Nat /\ IsFiniteSet(c.events) /\ load.time \in Nat
      /\ DOMAIN boots = 1 .. Len(boots) /\ Len(boots) \in Nat
      /\ \A k \in DOMAIN boots : k \in Nat /\ boots[k].at \in Nat
  BY RowTypes, BootTypes, InvGivesTypes, LogTypes, CrashAssumption DEF Readable
<1>2. \A o \in LogRows : Entry(o)
  BY DEF Facts, LogOK, LogRows
<1>3. e.at = boots[n].at /\ boots[n].fell # None
  BY <1>1, <1>2 DEF Entry, Crashed
<1>4. PICK r \in {n, n - 1} :
        /\ \A t \in episode.at : r \in DOMAIN boots /\ t = boots[r].at
        /\ \A k \in episode.key :
             \/ k = <<"session", r>>
             \/ r = n /\ \E b \in Boots(c.events) : k = <<"boot", b.id>> /\ b.boot = r
  BY <1>1, <1>3, EpisodeOfReboot
<1>5. Physical(e) \/ episode.at # {}
  BY <1>1, <1>3, EpisodeOfReboot
<1>6. PICK a \in anchors : TRUE
  BY <1>5 DEF Anchors
<1>7. episode.at \subseteq Time
  BY EpisodeTypes
<1> HIDE DEF episode
<1>8. /\ a.at \in Nat
      /\ \/ Physical(e) /\ a.at = e.prev
         \/ episode.key # {} /\ a.at \in Told(c, episode)
         \/ episode.at # {} /\ a.at \in LastSeen(c, e, episode)
         \/ a.at \in episode.at
  <2>1. \E q \in {1, 2, 3} :
           /\ a = [at |-> a.at, quality |-> q] /\ a.at \in Time
           /\ \/ Physical(e) /\ a.at = e.prev
              \/ episode.key # {} /\ a.at \in Told(c, episode)
              \/ episode.at # {} /\ a.at \in LastSeen(c, e, episode)
              \/ a.at \in episode.at
    BY <1>1, <1>7, AnchorIsOneOf
  <2>2. QED
    BY <1>1, <2>1
<1> HIDE DEF anchors
\* The runs before boot q, if it broke off at `t`, end before `t`.
<1>9. ASSUME NEW q \in DOMAIN boots, boots[q].fell # None
      PROVE  /\ boots[q].fell < boots[q].at /\ boots[q].fell \in Nat
             /\ \A m \in DOMAIN boots : m < q => boots[m].at <= boots[q].fell
  <2>1. boots[q].fell \in Nat
    BY <1>9, RowTypes
  <2>2. /\ boots[q].fell < boots[q].at
        /\ \A m \in DOMAIN boots : m < q => boots[m].at < boots[q].fell
    BY <1>9 DEF Facts, BootsOK
  <2>3. QED
    BY <1>1, <2>1, <2>2
<1>10. \E q \in DOMAIN boots : /\ a.at <= boots[q].at /\ e.at <= boots[q].at
                               /\ \A s \in LogRows : s.kind = "Shutdown" /\ a.at <= s.at
                                                       => boots[q].at < s.at
  <2>1. ASSUME \A m \in DOMAIN boots : m < n => boots[m].at <= a.at
        PROVE  \A s \in LogRows : s.kind = "Shutdown" /\ a.at <= s.at => boots[n].at < s.at
    BY <1>1, <1>3, <1>8, <2>1, NoShutdownBefore
  <2>2. CASE Physical(e) /\ a.at = e.prev
    <3>1. a.at = boots[n].fell
      BY <1>1, <1>2, <2>2 DEF Physical, Entry
    <3>2. a.at < boots[n].at /\ \A m \in DOMAIN boots : m < n => boots[m].at <= a.at
      BY <1>1, <1>3, <1>9, <3>1
    <3>3. a.at <= boots[n].at /\ e.at <= boots[n].at
      BY <1>1, <1>3, <1>8, <3>2
    <3>4. QED
      BY <1>1, <2>1, <3>2, <3>3
  <2>3. CASE episode.key # {} /\ a.at \in Told(c, episode)
    <3>1. PICK o \in c.events : /\ Physical(o) /\ a.at = o.prev
                                /\ Episode(c, o).key = episode.key
      BY <2>3 DEF Told
    <3> DEFINE j == o.boot
    <3>2. o \in LogRows /\ j \in DOMAIN boots /\ j \in Nat
      BY <1>1, RowTypes
    <3>3. o.at = boots[j].at /\ a.at = boots[j].fell /\ boots[j].fell # None
      BY <1>2, <3>1, <3>2 DEF Physical, Entry
    <3>4. PICK p \in {j, j - 1} :
            \A k \in Episode(c, o).key :
              \/ k = <<"session", p>>
              \/ p = j /\ \E b \in Boots(c.events) : k = <<"boot", b.id>> /\ b.boot = p
      BY <1>1, <3>3, EpisodeOfReboot
    <3>5. j \in {n - 1, n, n + 1}
      <4>1. PICK k \in episode.key : TRUE
        BY <2>3
      <4>2. \/ k = <<"session", r>>
            \/ r = n /\ \E b \in Boots(c.events) : k = <<"boot", b.id>> /\ b.boot = r
        BY <1>4, <4>1
      <4>3. \/ k = <<"session", p>>
            \/ p = j /\ \E b \in Boots(c.events) : k = <<"boot", b.id>> /\ b.boot = p
        BY <3>1, <3>4, <4>1
      <4>4. \A b, d \in Boots(c.events) : b.id = d.id => b = d
        BY DEF Boots, Facts, LogOK, LogRows
      <4>5. r = p
        <5>1. CASE k = <<"session", r>>
          BY <4>3, <5>1
        <5>2. CASE k # <<"session", r>>
          <6>1. PICK b \in Boots(c.events) : k = <<"boot", b.id>> /\ b.boot = r
            BY <4>2, <5>2
          <6>2. PICK d \in Boots(c.events) : k = <<"boot", d.id>> /\ d.boot = p
            BY <4>3, <6>1
          <6>3. b = d
            BY <4>4, <6>1, <6>2
          <6>4. QED
            BY <6>1, <6>2, <6>3
        <5>3. QED
          BY <5>1, <5>2
      <4>6. QED
        BY <1>1, <3>2, <4>5
    <3>6. /\ a.at < boots[j].at /\ \A m \in DOMAIN boots : m < j => boots[m].at <= a.at
      BY <3>2, <3>3, <1>9
    <3>7. \A s \in LogRows : s.kind = "Shutdown" /\ a.at <= s.at => boots[j].at < s.at
      BY <1>8, <3>2, <3>3, <3>6, NoShutdownBefore
    <3>8. CASE j \in {n, n + 1}
      <4>1. boots[n].at <= boots[j].at
        <5>1. n <= j
          BY <1>1, <3>8
        <5>2. QED
          BY <1>1, <3>2, <5>1, BootsInOrder DEF Facts
      <4>2. e.at <= boots[j].at /\ a.at <= boots[j].at
        BY <1>1, <1>3, <1>8, <3>2, <3>6, <4>1
      <4>3. QED
        BY <3>2, <3>7, <4>2
    <3>9. CASE j = n - 1
      <4>1. boots[j].at < boots[n].at /\ j < n
        BY <1>1, <3>2, <3>9 DEF Facts, BootsOK
      <4>2. a.at <= boots[n].at
        BY <1>1, <1>8, <3>2, <3>6, <4>1
      <4>3. \A m \in DOMAIN boots : m < n => boots[m].at <= boots[j].at
        <5>1. ASSUME NEW m \in DOMAIN boots, m < n
              PROVE  boots[m].at <= boots[j].at
          <6>1. m < j \/ m = j
            BY <1>1, <3>2, <3>9, <5>1
          <6>2. QED
            BY <1>1, <3>2, <6>1 DEF Facts, BootsOK
        <5>2. QED
          BY <5>1
      <4>4. ASSUME NEW s \in LogRows, s.kind = "Shutdown", a.at <= s.at
            PROVE  boots[n].at < s.at
        <5>1. boots[j].at < s.at /\ s.at \in Nat /\ boots[j].at \in Nat
          BY <1>1, <3>2, <3>7, <4>4, RowTypes
        <5>2. boots[j].at <= s.at
          BY <5>1
        <5>3. QED
          BY <1>1, <1>3, <4>3, <4>4, <5>1, <5>2, NoShutdownBefore
      <4>5. e.at <= boots[n].at
        BY <1>1, <1>3
      <4>6. QED
        BY <1>1, <4>2, <4>4, <4>5
    <3>10. QED
      BY <3>5, <3>8, <3>9
  <2>4. CASE episode.at # {} /\ a.at \in LastSeen(c, e, episode)
    <3>1. r \in DOMAIN boots /\ boots[r].at \in episode.at
      BY <1>4, <2>4
    <3>2. a.at < boots[r].at /\ Within(a.at, e.at, Correlation)
      BY <2>4, <3>1 DEF LastSeen
    <3>3. boots[n].at <= a.at + Correlation
      BY <1>1, <1>3, <1>8, <3>2 DEF Within, Distance
    <3>4. \A m \in DOMAIN boots : m < n => boots[m].at <= a.at
      <4>1. ASSUME NEW m \in DOMAIN boots, m < n
            PROVE  boots[m].at <= a.at
        <5>1. boots[m].at + Correlation < boots[n].at /\ boots[m].at \in Nat
          BY <1>1, <4>1, Spaced
        <5>2. QED
          BY <1>1, <1>8, <3>3, <5>1
      <4>2. QED
        BY <4>1
    <3>5. boots[r].at <= boots[n].at
      BY <1>1, <3>1 DEF Facts, BootsOK
    <3>6. a.at <= boots[n].at /\ e.at <= boots[n].at
      BY <1>1, <1>3, <1>8, <3>1, <3>2, <3>5
    <3>7. QED
      BY <1>1, <2>1, <3>4, <3>6
  <2>5. CASE a.at \in episode.at
    <3>1. r \in DOMAIN boots /\ a.at = boots[r].at
      BY <1>4, <2>5
    <3>2. a.at <= boots[n].at /\ \A m \in DOMAIN boots : m < n => boots[m].at <= a.at
      <4>1. a.at <= boots[n].at
        <5>1. r <= n
          BY <1>1
        <5>2. QED
          BY <1>1, <3>1, <5>1, BootsInOrder DEF Facts
      <4>2. ASSUME NEW m \in DOMAIN boots, m < n
            PROVE  boots[m].at <= a.at
        <5>1. m < r \/ m = r
          BY <1>1, <4>2
        <5>2. QED
          BY <1>1, <3>1, <5>1 DEF Facts, BootsOK
      <4>3. QED
        BY <4>1, <4>2
    <3>3. e.at <= boots[n].at
      BY <1>1, <1>3
    <3>4. QED
      BY <1>1, <2>1, <3>2, <3>3
  <2>6. QED
    BY <1>8, <2>2, <2>3, <2>4, <2>5
<1>11. ~StoppedCleanly(c, e, a.at)
  BY <1>1, <1>8, <1>10, NotStopped
<1>12. Supported(c, e, episode)
  BY DEF Supported
<1>13. QED
  <2> DEFINE key == IF episode.key = {} THEN None ELSE CHOOSE k \in episode.key : TRUE
             good == {x \in anchors : Supported(c, e, episode) /\ ~StoppedCleanly(c, e, x.at)}
  <2>1. Candidate(c, e) = {[key |-> key, rank |-> Rank(e.kind), anchor |-> x.at,
                            quality |-> x.quality] : x \in good}
    BY Zenon DEF Candidate, CandidateOf, anchors, episode
  <2>2. a \in good
    BY <1>6, <1>11, <1>12
  <2> HIDE DEF key, good
  <2>3. QED
    BY <2>1, <2>2

-----------------------------------------------------------------------------
(* What has been read, and that no crash in it is missed.                  *)

\* The cursor stands on an event, what it has passed is stored, and no crash
\* in it is missed.
ReadOK ==
  /\ cursor # None => cursor.at = log[cursor.id].at
  /\ stored = {log[i] : i \in {i \in DOMAIN log : Passed(log[i])}}
  /\ NoCrashIsMissed

\* The cursor has passed a prefix of the log.
LEMMA PassedIsPrefix ==
  ASSUME IInv, LogOK, cursor # None => cursor.at = log[cursor.id].at
  PROVE  \E k \in Nat : \A i \in DOMAIN log : Passed(log[i]) <=> i <= k
<1>1. \A i \in DOMAIN log : i \in Nat /\ log[i].at \in Nat /\ log[i].id = i /\ 1 <= i
  BY RowTypes DEF LogOK
<1>2. CASE cursor = None
  <2>1. \A i \in DOMAIN log : ~Passed(log[i]) /\ ~(i <= 0)
    BY <1>1, <1>2 DEF Passed, IsAfter
  <2>2. QED
    BY <2>1
<1>3. CASE cursor # None
  <2> DEFINE k == cursor.id
  <2>1. k \in DOMAIN log /\ cursor.at = log[k].at
    BY <1>3 DEF IInv, TablesOK
  <2>2. \A i, j \in DOMAIN log : i <= j => log[i].at <= log[j].at
    BY DEF LogOK
  <2>3. \A i \in DOMAIN log :
          Passed(log[i]) <=> ~(log[i].at > log[k].at \/ (log[i].at = log[k].at /\ i > k))
    BY <1>1, <1>3, <2>1 DEF Passed, IsAfter
  <2> HIDE DEF k
  <2>4. ASSUME NEW i \in DOMAIN log
        PROVE  Passed(log[i]) <=> i <= k
    <3>1. i <= k \/ k <= i
      BY <1>1, <2>1
    <3>2. i <= k => log[i].at <= log[k].at
      BY <2>1, <2>2
    <3>3. k <= i => log[k].at <= log[i].at
      BY <2>1, <2>2
    <3>4. QED
      BY <1>1, <2>1, <2>3, <3>1, <3>2, <3>3
  <2>5. QED
    BY <1>1, <2>1, <2>4
<1>4. QED
  BY <1>2, <1>3

\* The log and the boots go on, and nothing is read.
LEMMA ReadStays ==
  ASSUME IInv, Facts, ReadOK, LogOK', UNCHANGED <<cursor, stored, linked>>,
         DOMAIN log \subseteq DOMAIN log', DOMAIN log' \subseteq Nat \ {0},
         \A i \in DOMAIN log' : log'[i].at \in Nat,
         \A i \in DOMAIN log : log'[i] = log[i],
         \A n \in DOMAIN boots : n \in DOMAIN boots' /\ boots'[n] = boots[n],
         \A n \in DOMAIN boots :
           (\E s \in sessions' : s.boot = n) => n = Len(boots) \/ (\E s \in sessions : s.boot = n)
  PROVE  ReadOK'
<1>1. cursor # None => cursor.id \in DOMAIN log /\ cursor.id \in Nat
                       /\ cursor.at = log[cursor.id].at
  <2>1. cursor # None => cursor.id \in DOMAIN log
    BY DEF IInv, TablesOK
  <2>2. QED
    BY <2>1, RowTypes DEF ReadOK
<1>2. cursor' # None => cursor'.at = log'[cursor'.id].at
  BY <1>1
<1>3. \A i \in DOMAIN log : Passed(log[i])' <=> Passed(log[i])
  BY DEF Passed, IsAfter
<1>4. ASSUME NEW i \in DOMAIN log', i \notin DOMAIN log
      PROVE  ~Passed(log[i])'
  <2>1. CASE cursor = None
    BY <2>1 DEF Passed, IsAfter
  <2>2. CASE cursor # None
    <3> DEFINE k == cursor.id
    <3>1. k \in DOMAIN log /\ k \in DOMAIN log' /\ k \in Nat /\ i \in Nat
          /\ cursor.at = log'[k].at
      BY <1>1, <2>2
    <3>2. k < i
      BY <1>4, <3>1, BootTypes
    <3>3. log'[k].at <= log'[i].at /\ log'[i].id = i
      BY <3>1, <3>2 DEF LogOK
    <3>4. log'[k].at \in Nat /\ log'[i].at \in Nat
      BY <3>1
    <3>5. log'[i].at > cursor.at \/ (log'[i].at = cursor.at /\ log'[i].id > k)
      BY <3>1, <3>2, <3>3, <3>4
    <3>6. QED
      BY <3>5 DEF Passed, IsAfter
  <2>3. QED
    BY <2>1, <2>2
<1>5. stored' = {log'[i] : i \in {i \in DOMAIN log' : Passed(log[i])'}}
  BY <1>3, <1>4 DEF ReadOK
<1>6. ASSUME Apart'
      PROVE  EvidenceMakesACase'
  <2>1. Apart
    BY <1>6 DEF Apart
  <2>2. ASSUME NEW i \in DOMAIN log', log'[i].kind \in {"BugCheck", "Unexpected"},
               Passed(log[i])', Attributable(log[i])'
        PROVE  \E l \in linked' : l.event = log'[i].id
    <3>1. i \in DOMAIN log /\ log'[i] = log[i] /\ Passed(log[i])
      BY <1>3, <1>4, <2>2
    <3>2. Attributable(log[i])
      <4>1. CASE \E s \in sessions' : s.boot = log[i].boot
        <5>1. log[i].boot \in DOMAIN boots /\ log[i].boot \in Nat
          BY <3>1, RowTypes
        <5>2. log[i] \in stored
          BY <3>1 DEF ReadOK
        <5>3. \E s \in sessions : s.boot = log[i].boot
          <6>1. CASE log[i].boot = Len(boots)
            BY <5>1, <5>2, <6>1 DEF Facts, LinksOK
          <6>2. QED
            BY <4>1, <5>1, <6>1
        <5>4. QED
          BY <5>3 DEF Attributable
      <4>2. CASE \E j \in DOMAIN log' : /\ log'[j].kind = "Boot" /\ log'[j].boot = log[i].boot
                                        /\ Passed(log[j])'
        BY <1>3, <1>4, <4>2 DEF Attributable
      <4>3. CASE Physical(log[i])
        BY <4>3 DEF Attributable
      <4>4. QED
        BY <2>2, <3>1, <4>1, <4>2, <4>3 DEF Attributable, Physical
    <3>3. \E l \in linked : l.event = log[i].id
      BY <2>1, <2>2, <3>1, <3>2 DEF ReadOK, NoCrashIsMissed, EvidenceMakesACase
    <3>4. QED
      BY <3>1, <3>3
  <2>3. QED
    BY <2>2 DEF EvidenceMakesACase
<1>7. QED
  BY <1>2, <1>5, <1>6 DEF ReadOK, NoCrashIsMissed

\* A page is what lies between two positions of the cursor.
LEMMA PageIsNext ==
  ASSUME IInv, LogOK, NextPage # {}, cursor' = CursorAfter(NextPage), log' = log,
         NEW k \in Nat, \A i \in DOMAIN log : Passed(log[i]) <=> i <= k
  PROVE  \E m \in DOMAIN log :
           /\ k < m /\ cursor' # None /\ cursor'.id = m /\ cursor'.at = log[m].at
           /\ \A i \in DOMAIN log : log[i] \in NextPage <=> k < i /\ i <= m
           /\ \A i \in DOMAIN log : Passed(log[i])' <=> i <= m
<1> DEFINE fresh == {i \in DOMAIN log : IsAfter(log[i], cursor)}
           near == {i \in fresh : Cardinality({j \in fresh : j <= i}) <= Page}
<1>1. /\ TypeOK /\ Page \in Nat
      /\ \A i \in DOMAIN log : i \in Nat /\ log[i].at \in Nat /\ log[i].id = i
      /\ \A i, j \in DOMAIN log : i <= j => log[i].at <= log[j].at
  BY InvGivesTypes, RowTypes, CrashAssumption DEF LogOK
<1>2. \A i \in DOMAIN log : i \in fresh <=> k < i
  BY <1>1 DEF Passed
<1>3. NextPage = {log[i] : i \in near}
  BY DEF NextPage
<1>4. PICK last \in NextPage :
        /\ CursorAfter(NextPage) = [at |-> last.at, id |-> last.id]
        /\ \A f \in NextPage : ~IsAfter(f, [at |-> last.at, id |-> last.id])
  BY <1>1, CursorIsLast
<1>5. PICK m \in near : last = log[m]
  BY <1>3, <1>4
<1>6. m \in DOMAIN log /\ m \in fresh /\ last.id = m /\ last.at = log[m].at
  BY <1>1, <1>5
<1> DEFINE mark == [at |-> log[m].at, id |-> m]
<1>7. mark # None /\ cursor' = mark
  <2>1. mark \in [at : Nat, id : Nat]
    BY <1>1, <1>6
  <2>2. QED
    BY <1>4, <1>6, <2>1, CrashAssumption
<1>8. \A i \in DOMAIN log :
        IsAfter(log[i], mark) <=> log[i].at > log[m].at \/ (log[i].at = log[m].at /\ i > m)
  BY <1>1, <1>7 DEF IsAfter
<1>9. \A i \in DOMAIN log : IsAfter(log[i], mark) <=> m < i
  <2> SUFFICES ASSUME NEW i \in DOMAIN log
               PROVE  IsAfter(log[i], mark) <=> m < i
    OBVIOUS
  <2>1. log[i].at \in Nat /\ log[m].at \in Nat /\ i \in Nat /\ m \in Nat
    BY <1>1, <1>6
  <2>2. (i <= m => log[i].at <= log[m].at) /\ (m <= i => log[m].at <= log[i].at)
    BY <1>1, <1>6
  <2>3. i <= m \/ m < i
    BY <2>1
  <2> HIDE DEF mark
  <2>4. QED
    BY <1>8, <2>1, <2>2, <2>3
<1>10. \A i \in near : i <= m
  <2> SUFFICES ASSUME NEW i \in near
               PROVE  i <= m
    OBVIOUS
  <2>1. i \in DOMAIN log /\ ~IsAfter(log[i], mark)
    BY <1>3, <1>4, <1>6
  <2>2. QED
    BY <1>1, <1>6, <1>9, <2>1
<1>11. ASSUME NEW i \in DOMAIN log, k < i, i <= m
       PROVE  i \in near
  <2> DEFINE upTo(n) == {j \in fresh : j <= n}
  <2>1. IsFiniteSet(upTo(m)) /\ upTo(i) \in SUBSET upTo(m)
    <3>1. \A j \in fresh : j \in DOMAIN log /\ j \in Nat
      BY <1>1
    <3>2. DOMAIN log = 1 .. Len(log) /\ Len(log) \in Nat
      BY BootTypes
    <3>3. IsFiniteSet(DOMAIN log) /\ upTo(m) \in SUBSET DOMAIN log
      BY <3>1, <3>2, FS_Interval
    <3>4. IsFiniteSet(upTo(m))
      BY <3>3, FS_Subset
    <3>5. \A j \in fresh : j <= i => j <= m
      BY <1>1, <1>6, <1>11, <3>1
    <3>6. QED
      BY <3>4, <3>5
  <2>2. /\ Cardinality(upTo(i)) <= Cardinality(upTo(m))
        /\ Cardinality(upTo(i)) \in Nat /\ Cardinality(upTo(m)) \in Nat
    <3> HIDE DEF upTo
    <3>1. IsFiniteSet(upTo(i))
      BY <2>1, FS_Subset
    <3>2. QED
      BY <2>1, <3>1, FS_Subset, FS_CardinalityType
  <2>3. Cardinality(upTo(m)) <= Page
    BY <1>5
  <2>4. Cardinality(upTo(i)) <= Page
    <3> HIDE DEF upTo
    <3> QED
      BY <1>1, <2>2, <2>3
  <2>5. i \in fresh
    BY <1>2, <1>11
  <2>6. QED
    BY <2>4, <2>5
<1>12. \A i \in near : i \in DOMAIN log /\ k < i
  BY <1>2
<1>13. \A i, j \in DOMAIN log : log[i] = log[j] => i = j
  BY <1>1
<1> HIDE DEF near, fresh
<1>14. \A i \in DOMAIN log : log[i] \in NextPage <=> i \in near
  BY <1>3, <1>12, <1>13
<1>15. \A i \in DOMAIN log : Passed(log[i])' <=> i <= m
  <2>1. \A i \in DOMAIN log : Passed(log[i])' <=> ~IsAfter(log[i], mark)
    BY <1>7 DEF Passed, IsAfter
  <2>2. QED
    BY <1>1, <1>6, <1>9, <2>1
<1>16. cursor' # None /\ cursor'.id = m /\ cursor'.at = log[m].at
  BY <1>7
<1> HIDE DEF mark
<1>17. k < m
  BY <1>5, <1>12
<1>18. \A i \in DOMAIN log : log[i] \in NextPage <=> k < i /\ i <= m
  BY <1>10, <1>11, <1>12, <1>14
<1>19. QED
  BY <1>6, <1>15, <1>16, <1>17, <1>18

\* What was logged at the time of an event of the page is in its context.
LEMMA ContextHas ==
  ASSUME IInv, NEW page, page \subseteq LogRows, NEW kept, NEW p \in page, NEW e \in kept,
         e.at = p.at
  PROVE  e \in ContextOf(page, kept).events
<1> DEFINE times == {x.at : x \in page}
           first == CHOOSE t \in times : \A x \in page : t <= x.at
           latest == CHOOSE t \in times : \A x \in page : t >= x.at
<1>1. times \subseteq Time /\ times \subseteq Nat /\ times # {} /\ load.time \in Nat
      /\ p.at \in Nat /\ {Pre, Correlation} \subseteq Nat
  <2>1. \A x \in page : x.at \in Time /\ x.at \in Nat
    BY InvGivesTypes, LogTypes DEF Events
  <2>2. QED
    BY <2>1, BootTypes, CrashAssumption
<1>2. first \in times /\ first <= p.at
  <2>1. \E t \in times : \A u \in times : t <= u
    <3> HIDE DEF times
    <3> QED
      BY <1>1, LeastNatural
  <2>2. \E t \in times : \A x \in page : t <= x.at
    BY <2>1
  <2>3. first \in times /\ \A x \in page : first <= x.at
    BY <2>2, Zenon
  <2>4. QED
    BY <2>3
<1>3. latest \in times /\ latest >= p.at
  <2>1. \E t \in times : \A u \in times : u <= t
    <3> HIDE DEF times
    <3>1. (CHOOSE t \in times : \A u \in times : u <= t) \in times
      BY <1>1, LatestIsOne
    <3>2. IsFiniteSet(times)
      BY <1>1, TimesAreFinite
    <3> DEFINE earlier == {q \in times \X times : q[1] <= q[2]}
    <3>3. Preorders(times, earlier)
      BY <1>1 DEF Preorders
    <3>4. PICK t \in times : \A u \in times : <<u, t>> \in earlier
      <4> HIDE DEF earlier
      <4> QED
        BY <1>1, <3>2, <3>3, LastOfOrder
    <3>5. QED
      BY <3>4
  <2>2. \E t \in times : \A x \in page : t >= x.at
    BY <1>1, <2>1
  <2>3. latest \in times /\ \A x \in page : latest >= x.at
    BY <2>2, Zenon
  <2>4. QED
    BY <2>3
<1>4. ContextOf(page, kept).events =
        {x \in kept : first - Pre <= x.at /\ x.at <= latest + Correlation}
  BY DEF ContextOf
<1> HIDE DEF first, latest, times
<1>5. first - Pre <= p.at /\ p.at <= latest + Correlation
  BY <1>1, <1>2, <1>3
<1>6. QED
  BY <1>4, <1>5

\* A page is read.  A crash in it, or one before it whose boot record is in it,
\* is in its context with that record and makes a case.
LEMMA ReadPageReads ==
  ASSUME IInv, Facts, ReadOK, ReadPage
  PROVE  ReadOK'
<1> DEFINE context == ContextOf(NextPage, stored')
<1>1. /\ MoveCursor /\ stored' = stored \cup NextPage
      /\ UNCHANGED <<boots, log, sessions>>
      /\ linked' = linked \cup Links(context)
  BY DEF ReadPage, machine, Persist
<1>2. NextPage # {} /\ cursor' = CursorAfter(NextPage) /\ LogOK /\ NextPage \subseteq LogRows
  BY <1>1, PageIsLogged DEF MoveCursor, Facts
<1>3. /\ stored = {log[i] : i \in {i \in DOMAIN log : Passed(log[i])}}
      /\ NoCrashIsMissed
  BY DEF ReadOK
<1>4. PICK k \in Nat : \A i \in DOMAIN log : Passed(log[i]) <=> i <= k
  BY <1>2, PassedIsPrefix DEF ReadOK
<1>5. PICK m \in DOMAIN log :
        /\ k < m /\ cursor' # None /\ cursor'.id = m /\ cursor'.at = log[m].at
        /\ \A i \in DOMAIN log : log[i] \in NextPage <=> k < i /\ i <= m
        /\ \A i \in DOMAIN log : Passed(log[i])' <=> i <= m
  BY <1>1, <1>2, <1>4, PageIsNext
<1>6. \A i \in DOMAIN log : i \in Nat /\ log[i].id = i /\ log[i] \in LogRows
  BY <1>2, RowTypes DEF LogOK
<1>7. \A i \in DOMAIN log : log[i] \in NextPage \/ Passed(log[i]) <=> Passed(log[i])'
  <2> SUFFICES ASSUME NEW i \in DOMAIN log
               PROVE  log[i] \in NextPage \/ Passed(log[i]) <=> Passed(log[i])'
    OBVIOUS
  <2>1. /\ Passed(log[i]) <=> i <= k
        /\ log[i] \in NextPage <=> k < i /\ i <= m
        /\ Passed(log[i])' <=> i <= m
    BY <1>4, <1>5
  <2>2. i \in Nat /\ m \in Nat /\ k < m
    BY <1>5, <1>6
  <2>3. i <= k \/ (k < i /\ i <= m) <=> i <= m
    BY <2>2
  <2>4. QED
    BY <2>1, <2>3
<1>8. stored' = {log[i] : i \in {i \in DOMAIN log : Passed(log[i])'}}
  <2>1. \A e : e \in NextPage => \E i \in DOMAIN log : e = log[i]
    BY <1>2 DEF LogRows
  <2>2. \A e : e \in stored <=> \E i \in DOMAIN log : e = log[i] /\ Passed(log[i])
    BY <1>3
  <2>3. \A e : e \in stored' <=> \E i \in DOMAIN log : e = log[i] /\ Passed(log[i])'
    BY <1>1, <1>7, <2>1, <2>2
  <2>4. QED
    BY <2>3
<1>9. stored' \subseteq LogRows
  BY <1>6, <1>8
<1>10. context.sessions = sessions /\ context.events \subseteq LogRows /\ Readable(context)
  BY <1>9, ContextParts, ContextIsReadable, InvGivesTypes
<1>11. ASSUME NEW p \in NextPage, NEW e \in stored', e.at = p.at
       PROVE  e \in context.events
  BY <1>2, <1>11, ContextHas
<1> HIDE DEF context
\* An event of the context that can be attributed there has its case now.
<1>12. ASSUME Apart, NEW e \in context.events, e.kind \in {"BugCheck", "Unexpected"},
              \/ \E s \in sessions : s.boot = e.boot
              \/ \E b \in Boots(context.events) : b.boot = e.boot
              \/ Physical(e)
       PROVE  \E l \in linked' : l.event = e.id
  <2>1. PICK x \in Candidate(context, e) : TRUE
    BY <1>10, <1>12, CrashHasCandidate
  <2>2. e \in Boundaries(context.events)
    BY <1>12 DEF Boundaries, Crashed
  <2> DEFINE l == [event |-> e.id, boot |-> e.boot,
                   case |-> IF x.key = None THEN <<"at", x.anchor>> ELSE x.key]
  <2>3. l \in Links(context)
    <3> DEFINE row(f, y) == [event |-> f.id, boot |-> f.boot,
                             case |-> IF y.key = None THEN <<"at", y.anchor>> ELSE y.key]
    <3>1. Links(context) =
            UNION {{row(f, y) : y \in Candidate(context, f)} : f \in Boundaries(context.events)}
      BY Zenon DEF Links
    <3>2. l = row(e, x)
      OBVIOUS
    <3> HIDE DEF l, row
    <3>3. QED
      BY <2>1, <2>2, <3>1, <3>2
  <2>4. l.event = e.id
    OBVIOUS
  <2> HIDE DEF l
  <2>5. QED
    BY <1>1, <2>3, <2>4
<1>13. ASSUME Apart, NEW i \in DOMAIN log, log[i].kind \in {"BugCheck", "Unexpected"},
              Passed(log[i])', Attributable(log[i])'
       PROVE  \E l \in linked' : l.event = log[i].id
  <2> DEFINE e == log[i]
  <2>1. e \in stored'
    BY <1>8, <1>13
  <2>2. ASSUME NEW j \in DOMAIN log, log[j].kind = "Boot", log[j].boot = e.boot
        PROVE  log[j].at = e.at
    <3>1. Entry(log[i]) /\ Entry(log[j])
      BY <1>2 DEF LogOK
    <3>2. log[j].at = boots[log[j].boot].at
      BY <2>2, <3>1 DEF Entry
    <3>3. log[i].at = boots[log[i].boot].at
      BY <1>13, <3>1 DEF Entry
    <3>4. QED
      BY <2>2, <3>2, <3>3
  <2>3. CASE e \in NextPage
    <3>1. e \in context.events
      BY <1>11, <2>1, <2>3
    <3>2. \/ \E s \in sessions : s.boot = e.boot
          \/ \E b \in Boots(context.events) : b.boot = e.boot
          \/ Physical(e)
      <4>1. CASE \E j \in DOMAIN log : log[j].kind = "Boot" /\ log[j].boot = e.boot
                                       /\ Passed(log[j])'
        <5>1. PICK j \in DOMAIN log : log[j].kind = "Boot" /\ log[j].boot = e.boot
                                      /\ Passed(log[j])'
          BY <4>1
        <5>2. log[j] \in stored' /\ log[j].at = e.at
          BY <1>8, <2>2, <5>1
        <5>3. log[j] \in context.events
          BY <1>11, <2>3, <5>2
        <5>4. QED
          BY <5>1, <5>3 DEF Boots
      <4>2. QED
        BY <1>1, <1>13, <4>1 DEF Attributable, Physical
    <3>3. QED
      BY <1>12, <1>13, <3>1, <3>2
  <2>4. CASE Passed(e) /\ Attributable(e)
    <3>1. \E l \in linked : l.event = e.id
      BY <1>3, <1>13, <2>4 DEF NoCrashIsMissed, EvidenceMakesACase
    <3>2. QED
      BY <1>1, <3>1
  <2>5. CASE Passed(e) /\ ~Attributable(e)
    <3>1. PICK j \in DOMAIN log : log[j].kind = "Boot" /\ log[j].boot = e.boot
                                  /\ Passed(log[j])'
      BY <1>1, <1>13, <2>5 DEF Attributable, Physical
    <3>2. ~Passed(log[j])
      BY <2>5, <3>1 DEF Attributable
    <3>3. log[j] \in NextPage /\ log[j] \in stored' /\ log[j].at = e.at
      BY <1>7, <1>8, <2>2, <3>1, <3>2
    <3>4. e \in context.events /\ log[j] \in context.events
      BY <1>11, <2>1, <3>3
    <3>5. log[j] \in Boots(context.events)
      BY <3>1, <3>4 DEF Boots
    <3>6. QED
      BY <1>12, <1>13, <3>1, <3>4, <3>5
  <2>6. e \in NextPage \/ Passed(e)
    BY <1>7, <1>13
  <2>7. QED
    BY <2>3, <2>4, <2>5, <2>6
<1>14. NoCrashIsMissed'
  <2>1. Apart' => Apart
    BY <1>1 DEF Apart
  <2>2. ASSUME Apart
        PROVE  EvidenceMakesACase'
    BY <1>1, <1>13, <2>2 DEF EvidenceMakesACase
  <2>3. QED
    BY <2>1, <2>2 DEF NoCrashIsMissed
<1>15. cursor' # None => cursor'.at = log'[cursor'.id].at
  BY <1>1, <1>5
<1>16. QED
  BY <1>1, <1>8, <1>14, <1>15 DEF ReadOK

\* What the invariant says of the log after a step.
LEMMA LogStaysTyped ==
  ASSUME IInv'
  PROVE  /\ DOMAIN log' = 1 .. Len(log') /\ DOMAIN log' \subseteq Nat \ {0} /\ Len(log') \in Nat
         /\ \A i \in DOMAIN log' : log'[i].at \in Nat
<1>1. log' \in Seq(Events') /\ load' \in Loads
  BY DEF IInv, MachineOK
<1>2. load'.time \in Nat
  BY <1>1, CrashAssumption
<1>3. \A e \in Events' : e.at \in Nat
  BY <1>2 DEF Events, Time
<1> DEFINE row == Events'
<1>4. log' \in Seq(row) /\ \A e \in row : e.at \in Nat
  BY <1>1, <1>3
<1> HIDE DEF row
<1>5. \A i \in DOMAIN log' : log'[i] \in row
  BY <1>4, ElementOfSeq, LenProperties
<1>6. Len(log') \in Nat /\ DOMAIN log' = 1 .. Len(log')
  BY <1>4, LenProperties
<1>7. QED
  BY <1>4, <1>5, <1>6

\* Steps that read nothing.
LEMMA UnreadSteps ==
  ASSUME IInv, Facts, ReadOK, IInv', Facts',
         PowerOn \/ ShutDown \/ BreaksOff \/ WerReports \/ AppStarts
  PROVE  ReadOK'
<1> DEFINE starts(n) == (\E s \in sessions' : s.boot = n) =>
                          n = Len(boots) \/ (\E s \in sessions : s.boot = n)
<1>1. UNCHANGED <<cursor, stored, linked>> /\ LogOK'
  BY DEF Facts, PowerOn, ShutDown, BreaksOff, WerReports, AppStarts, tables
<1>2. DOMAIN log = 1 .. Len(log) /\ Len(log) \in Nat
  BY BootTypes
<1>3. /\ DOMAIN log' = 1 .. Len(log') /\ DOMAIN log' \subseteq Nat \ {0} /\ Len(log') \in Nat
      /\ \A i \in DOMAIN log' : log'[i].at \in Nat
  BY LogStaysTyped
<1>4. Len(log) <= Len(log') /\ \A i \in DOMAIN log : log'[i] = log[i]
  <2>1. CASE PowerOn
    <3>1. /\ log \in Seq(Events) /\ load.time \in Nat /\ fell \in Time \cup {None}
          /\ clock' \in Time /\ log' \in Logged(log, Len(boots'), clock', fell)
      BY <2>1, BootTypes DEF IInv, MachineOK, PowerOn, Time
    <3>2. /\ Len(log) \in Nat /\ Len(log') \in Nat /\ Len(log) <= Len(log')
          /\ DOMAIN log = 1 .. Len(log) /\ DOMAIN log' = 1 .. Len(log')
          /\ log' \in Seq(Events \cup StartRow(Len(boots'), Len(log')))
          /\ \A i \in 1 .. Len(log) : log'[i] = log[i]
          /\ \A i \in 1 .. Len(log') : i > Len(log) =>
               log'[i] \in StartRow(Len(boots'), Len(log'))
      BY <3>1, LoggedTypes
    <3>3. QED
      BY <3>2
  <2>2. CASE ShutDown \/ WerReports
    <3>1. PICK e : log' = Append(log, e)
      BY <2>2 DEF ShutDown, WerReports
    <3> DEFINE any == Events \cup {e}
    <3>2. log \in Seq(any) /\ e \in any
      <4>1. log \in Seq(Events)
        BY DEF IInv, MachineOK
      <4>2. QED
        BY <4>1, SeqMonotonic
    <3> HIDE DEF any
    <3>3. QED
      BY <1>2, <3>1, <3>2
  <2>3. CASE BreaksOff \/ AppStarts
    BY <1>2, <2>3 DEF BreaksOff, AppStarts, machine
  <2>4. QED
    BY <2>1, <2>2, <2>3
<1>5. DOMAIN log \subseteq DOMAIN log'
  BY <1>2, <1>3, <1>4
<1>6. \A n \in DOMAIN boots : n \in DOMAIN boots' /\ boots'[n] = boots[n]
  <2>1. CASE PowerOn
    <3> DEFINE run == [at |-> clock', fell |-> fell]
               any == [at : Time, fell : Time \cup {None}] \cup {run}
    <3>1. boots \in Seq(any) /\ run \in any /\ boots' = Append(boots, run)
      <4>1. boots \in Seq([at : Time, fell : Time \cup {None}])
        BY DEF IInv, MachineOK
      <4>2. QED
        BY <2>1, <4>1, SeqMonotonic DEF PowerOn
    <3> HIDE DEF any, run
    <3>2. QED
      BY <3>1, BootTypes
  <2>2. CASE ~PowerOn
    BY <2>2 DEF ShutDown, BreaksOff, WerReports, AppStarts, machine
  <2>3. QED
    BY <2>1, <2>2
<1>7. \A n \in DOMAIN boots : starts(n)
  <2>1. CASE AppStarts
    <3>1. \A s \in sessions' : s \in sessions \/ s.boot = Len(boots)
      BY <2>1 DEF AppStarts
    <3>2. QED
      BY <3>1
  <2>2. CASE ShutDown
    <3>1. sessions' = {IF up /\ s.boot = Len(boots) THEN [s EXCEPT !.end = clock] ELSE s :
                         s \in sessions}
      BY <2>2 DEF ShutDown
    <3>2. \A s \in sessions : s \in [boot : DOMAIN boots, at : Time, start : Time,
                                     end : Time \cup {None}]
      BY DEF IInv, MachineOK
    <3>3. \A s \in sessions' : \E r \in sessions : s.boot = r.boot
      BY <3>1, <3>2
    <3>4. QED
      BY <3>3
  <2>3. CASE PowerOn \/ BreaksOff \/ WerReports
    BY <2>3 DEF PowerOn, BreaksOff, WerReports
  <2>4. QED
    BY <2>1, <2>2, <2>3
<1>8. QED
  BY <1>1, <1>3, <1>4, <1>5, <1>6, <1>7, ReadStays

\* The steps that leave the log and what was read alone.
LEMMA QuietReads ==
  ASSUME IInv, Facts, ReadOK,
         \/ Tick \/ AppEnds \/ Sample \/ BeginRound \/ CaughtUp \/ Build \/ BuildBreaks
         \/ ReadFails \/ Prune \/ Clear \/ Release \/ Rebuild \/ UNCHANGED vars
  PROVE  ReadOK'
<1>1. UNCHANGED <<boots, log, stored, linked, cursor, sessions>>
  BY QuietSteps
<1>2. QED
  BY <1>1 DEF ReadOK, Apart, NoCrashIsMissed, EvidenceMakesACase, Passed, IsAfter,
              Attributable, Physical

\* What has been read, in every state.
LEMMA ReadHolds == Spec => []ReadOK
<1>1. Init => ReadOK
  BY DEF Init, ReadOK, NoCrashIsMissed, EvidenceMakesACase, Passed, IsAfter
<1>2. ASSUME IInv, Facts, ReadOK, IInv', Facts', [Next]_vars
      PROVE  ReadOK'
  <2>1. CASE ReadPage
    BY <1>2, <2>1, ReadPageReads
  <2>2. CASE PowerOn \/ ShutDown \/ BreaksOff \/ WerReports \/ AppStarts
    BY <1>2, <2>2, UnreadSteps
  <2>3. CASE \/ Tick \/ AppEnds \/ Sample \/ BeginRound \/ CaughtUp \/ Build \/ BuildBreaks
             \/ ReadFails \/ Prune \/ Clear \/ Release \/ Rebuild \/ UNCHANGED vars
    BY <1>2, <2>3, QuietReads
  <2>4. QED
    BY <1>2, <2>1, <2>2, <2>3 DEF Next
<1>3. QED
  BY <1>1, <1>2, FactsHold, PTL DEF Spec

\* scan_page stores each page with its cursor in one transaction and
\* classifies it with what is stored around it: if any two starts of the
\* machine lie further apart than the correlation window, a crash the cursor
\* has passed has its case, wherever the pages, the rounds and the runs of the
\* application and the machine end.
THEOREM CrashesAreNotMissed == Spec => []NoCrashIsMissed
<1>1. ReadOK => NoCrashIsMissed
  BY DEF ReadOK
<1>2. QED
  BY <1>1, ReadHolds, PTL
=============================================================================
