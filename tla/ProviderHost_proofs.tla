------------------------- MODULE ProviderHost_proofs -------------------------
(***************************************************************************)
(* What TLAPS proves of ProviderHost for any providers, any categories and *)
(* any set of slow operations.                                             *)
(***************************************************************************)
EXTENDS ProviderHost, FiniteSetTheorems, SequenceTheorems, TLAPS

-----------------------------------------------------------------------------
(* The agenda.                                                             *)

Waits == {"awaitProbe", "awaitStart", "awaitSample", "awaitStop"}
Whys == {"cleanup", "apply", "pause", "shutdown", "shed"}

\* What a step of the call stack may be.
Steps ==
  {s \in [do : {"probe", "sendProbe", "desire", "applyDesired", "sync", "renew", "reconcile",
                "cleanup", "apply", "settle", "shed", "retry", "sample", "attempt", "stop"}
               \union Waits,
          of : Providers \union {""}, cfg : Plans,
          tag : {"", "Start", "Reconfigure"} \union Whys, flag : BOOLEAN] :
     /\ s.do \notin {"sync", "applyDesired"} => s.of \in Providers
     /\ s.do \in {"attempt", "awaitStart"} => s.tag \in {"Start", "Reconfigure"}
     /\ s.do \in {"stop", "awaitStop"} => s.tag \in Whys}

\* A call is only ever sent and awaited by the innermost step.
Plain == {s \in Steps : s.do \notin Waits \union {"attempt"}}

Stacks == {a \in Seq(Steps) : \A i \in 2 .. Len(a) : a[i] \in Plain}

LEMMA SeqNarrows ==
  ASSUME NEW S, NEW T, NEW a \in Seq(S), \A i \in 1 .. Len(a) : a[i] \in T
  PROVE  a \in Seq(T)
<1>1. a \in [1 .. Len(a) -> S] /\ Len(a) \in Nat
  OBVIOUS
<1>2. a \in [1 .. Len(a) -> T]
  BY <1>1
<1>3. QED
  BY <1>1, <1>2

LEMMA PlainIsAStack ==
  ASSUME NEW a \in Seq(Plain)
  PROVE  a \in Stacks /\ (a # <<>> => Head(a) \in Plain)
<1>1. a \in Seq(Steps) /\ \A i \in 1 .. Len(a) : a[i] \in Plain
  BY DEF Plain
<1>2. QED
  BY <1>1 DEF Stacks

LEMMA StackTail ==
  ASSUME NEW a \in Stacks, a # <<>>
  PROVE  Tail(a) \in Seq(Plain) /\ Head(a) \in Steps
<1>1. a \in Seq(Steps) /\ Len(a) \in Nat /\ Len(a) # 0
  BY EmptySeq DEF Stacks
<1>2. Len(Tail(a)) = Len(a) - 1 /\ \A i \in 1 .. Len(a) - 1 : Tail(a)[i] = a[i + 1]
  BY <1>1
<1>3. \A i \in 1 .. Len(a) - 1 : i + 1 \in 2 .. Len(a)
  BY <1>1
<1>4. \A i \in 1 .. Len(Tail(a)) : Tail(a)[i] \in Plain
  BY <1>2, <1>3 DEF Stacks
<1>5. Tail(a) \in Seq(Steps)
  BY <1>1, EmptySeq
<1>6. QED
  <2>1. \A t \in Seq(Steps) : (\A i \in 1 .. Len(t) : t[i] \in Plain) => t \in Seq(Plain)
    BY SeqNarrows
  <2>2. Tail(a) \in Seq(Plain)
    BY <1>4, <1>5, <2>1, Zenon
  <2>3. Head(a) \in Steps
    BY <1>1, EmptySeq
  <2>4. QED
    BY <2>2, <2>3

LEMMA Stacked ==
  ASSUME NEW s \in Stacks, NEW t \in Seq(Plain)
  PROVE  /\ s \o t \in Stacks
         /\ s # <<>> => s \o t # <<>> /\ Head(s \o t) = Head(s)
         /\ s = <<>> /\ s \o t # <<>> => Head(s \o t) \in Plain
<1>1. /\ s \in Seq(Steps) /\ t \in Seq(Steps) /\ Len(s) \in Nat /\ Len(t) \in Nat
      /\ \A i \in 2 .. Len(s) : s[i] \in Plain
      /\ \A i \in 1 .. Len(t) : t[i] \in Plain
  BY DEF Stacks, Plain
<1>2. /\ s \o t \in Seq(Steps) /\ Len(s \o t) = Len(s) + Len(t)
      /\ \A i \in 1 .. Len(s) + Len(t) : (s \o t)[i] = IF i <= Len(s) THEN s[i] ELSE t[i - Len(s)]
  BY <1>1
<1>3. \A i \in 2 .. Len(s \o t) : (s \o t)[i] \in Plain
  <2> SUFFICES ASSUME NEW i \in 2 .. Len(s \o t)
               PROVE  (s \o t)[i] \in Plain
    OBVIOUS
  <2>1. i \in 1 .. Len(s) + Len(t)
    BY <1>1, <1>2
  <2>2. CASE i <= Len(s)
    <3>1. i \in 2 .. Len(s)
      BY <1>1, <2>2
    <3>2. QED
      BY <1>1, <1>2, <2>1, <2>2, <3>1
  <2>3. CASE ~(i <= Len(s))
    <3>1. i - Len(s) \in 1 .. Len(t)
      BY <1>1, <2>1, <2>3
    <3>2. QED
      BY <1>1, <1>2, <2>1, <2>3, <3>1
  <2>4. QED
    BY <2>2, <2>3
<1>4. CASE s = <<>>
  <2>1. s \o t = t
    BY <1>4
  <2>2. QED
    BY <1>4, <2>1, PlainIsAStack
<1>5. CASE s # <<>>
  <2>1. Len(s) >= 1
    BY <1>1, <1>5, EmptySeq
  <2>2. s \o t # <<>> /\ Head(s \o t) = Head(s)
    BY <1>1, <1>2, <2>1, EmptySeq
  <2>3. QED
    BY <1>2, <1>3, <1>5, <2>2 DEF Stacks
<1>6. QED
  BY <1>4, <1>5

\* What a step leaves to do instead of itself.
LEMMA ThenStacks ==
  ASSUME agenda \in Stacks, agenda # <<>>, NEW s \in Stacks, Then(s)
  PROVE  /\ agenda' \in Stacks
         /\ s # <<>> => agenda' # <<>> /\ Head(agenda') = Head(s)
         /\ s = <<>> /\ agenda' # <<>> => Head(agenda') \in Plain
BY StackTail, Stacked DEF Then

-----------------------------------------------------------------------------
(* The loops over the providers.                                           *)

LEMMA OrderIsTyped ==
  /\ Cardinality(Providers) \in Nat
  /\ Order \in [1 .. Cardinality(Providers) -> Providers]
<1>1. Cardinality(Providers) \in Nat /\ ExistsBijection(1 .. Cardinality(Providers), Providers)
  BY FS_CardinalityType, ProvidersAssumption
<1>2. \E f \in [1 .. Cardinality(Providers) -> Providers] : IsInjective(f)
  BY <1>1 DEF ExistsBijection, Bijection, Injection, IsInjective
<1>3. QED
  BY <1>1, <1>2 DEF Order, SetToSeq

LEMMA Rounds ==
  ASSUME NEW n \in Nat \ {0}, NEW k \in Nat, NEW i \in 1 .. n * k
  PROVE  ((i - 1) \div n) + 1 \in 1 .. k /\ ((i - 1) % n) + 1 \in 1 .. n
<1>1. i - 1 \in Nat /\ i - 1 < n * k
  <2>1. n * k \in Nat
    OBVIOUS
  <2>2. QED
    BY <2>1
<1> DEFINE q == (i - 1) \div n
           r == (i - 1) % n
<1>2. q \in Nat /\ r \in 0 .. n - 1 /\ i - 1 = n * q + r
  BY <1>1, SMTT(30)
<1> HIDE DEF q, r
<1>3. q < k
  <2>1. SUFFICES ASSUME k <= q
                 PROVE  FALSE
    BY <1>2
  <2>2. n * k <= n * q
    BY <1>2, <2>1, SMTT(30)
  <2>3. n * k \in Nat /\ n * q \in Nat
    BY <1>2, SMTT(30)
  <2>4. QED
    BY <1>1, <1>2, <2>2, <2>3
<1>4. QED
  BY <1>2, <1>3 DEF q, r

LEMMA NoPlanIsAPlan == NoPlan \in Plans /\ {} \in Plans
<1>1. NoPlan \in {NoPlan} /\ {} \in SUBSET Categories
  OBVIOUS
<1>2. QED
  BY <1>1 DEF Plans

\* The steps as they are made.
LEMMA PlainStep ==
  ASSUME NEW do \in {"reconcile", "sendProbe", "settle", "shed", "sample", "retry", "probe",
                     "desire", "renew", "cleanup", "apply"},
         NEW p \in Providers, NEW cfg \in Plans, NEW flag \in BOOLEAN
  PROVE  Step(do, p) \in Plain /\ StepWith(do, p, cfg, "", flag) \in Plain
BY NoPlanIsAPlan DEF Step, StepWith, Plain, Steps, Waits, Whys

LEMMA PlainStop ==
  ASSUME NEW p \in Providers, NEW why \in Whys, NEW cfg \in Plans
  PROVE  StopStep(p, why, cfg) \in Plain
BY DEF StopStep, StepWith, Plain, Steps, Waits, Whys

LEMMA PlainSync == SyncStep \in Plain /\ Step("applyDesired", "") \in Plain
BY NoPlanIsAPlan DEF SyncStep, Step, StepWith, Plain, Steps, Waits, Whys

\* A loop over the providers only leads to steps of its rounds.
LEMMA LoopIsOfRounds ==
  ASSUME NEW S, NEW n \in Nat \ {0}, NEW rounds \in [Providers -> [1 .. n -> S]]
  PROVE  [i \in 1 .. n * Cardinality(Providers) |->
            rounds[Order[((i - 1) \div n) + 1]][((i - 1) % n) + 1]] \in Seq(S)
<1> DEFINE k == Cardinality(Providers)
           At(i) == rounds[Order[((i - 1) \div n) + 1]][((i - 1) % n) + 1]
<1>1. k \in Nat /\ Order \in [1 .. k -> Providers]
  BY OrderIsTyped
<1> HIDE DEF k
<1>2. ASSUME NEW i \in 1 .. n * k
      PROVE  At(i) \in S
  <2>1. ((i - 1) \div n) + 1 \in 1 .. k /\ ((i - 1) % n) + 1 \in 1 .. n
    BY <1>1, <1>2, Rounds
  <2>2. Order[((i - 1) \div n) + 1] \in Providers
    BY <1>1, <2>1
  <2>3. rounds[Order[((i - 1) \div n) + 1]] \in [1 .. n -> S]
    BY <2>2
  <2>4. QED
    BY <2>1, <2>3
<1> HIDE DEF At
<1>3. n * k \in Nat
  BY <1>1
<1>4. [i \in 1 .. n * k |-> At(i)] \in [1 .. n * k -> S]
  BY <1>2
<1>5. [i \in 1 .. n * k |-> At(i)] \in Seq(S)
  BY <1>3, <1>4
<1>6. QED
  BY <1>5 DEF At, k

LEMMA RoundsAreOfProviders ==
  ASSUME NEW n \in Nat \ {0}, NEW i \in 1 .. n * Cardinality(Providers)
  PROVE  /\ Order[((i - 1) \div n) + 1] \in Providers
         /\ ((i - 1) % n) + 1 \in 1 .. n
BY OrderIsTyped, Rounds

LEMMA PollsArePlain == ForEach(1, LAMBDA p : <<Step("reconcile", p)>>) \in Seq(Plain)
<1> DEFINE rounds == [p \in Providers |-> <<Step("reconcile", p)>>]
<1>1. \A p \in Providers : Step("reconcile", p) \in Plain
  BY PlainStep, NoPlanIsAPlan
<1>2. rounds \in [Providers -> [1 .. 1 -> Plain]]
  BY <1>1
<1>3. ForEach(1, LAMBDA p : <<Step("reconcile", p)>>)
        = [i \in 1 .. 1 * Cardinality(Providers) |->
             rounds[Order[((i - 1) \div 1) + 1]][((i - 1) % 1) + 1]]
  BY RoundsAreOfProviders DEF ForEach
<1> HIDE DEF rounds
<1>4. 1 \in Nat \ {0}
  OBVIOUS
<1>5. [i \in 1 .. 1 * Cardinality(Providers) |->
         rounds[Order[((i - 1) \div 1) + 1]][((i - 1) % 1) + 1]] \in Seq(Plain)
  BY <1>2, <1>4, LoopIsOfRounds, Zenon
<1>6. QED
  BY <1>3, <1>5, Zenon

LEMMA RoundsOfOne ==
  ASSUME NEW S, NEW step \in [Providers -> S]
  PROVE  [i \in 1 .. 1 * Cardinality(Providers) |->
            <<step[Order[((i - 1) \div 1) + 1]]>>[((i - 1) % 1) + 1]] \in Seq(S)
<1> DEFINE rounds == [p \in Providers |-> <<step[p]>>]
<1>1. rounds \in [Providers -> [1 .. 1 -> S]]
  OBVIOUS
<1>2. [i \in 1 .. 1 * Cardinality(Providers) |->
            <<step[Order[((i - 1) \div 1) + 1]]>>[((i - 1) % 1) + 1]]
        = [i \in 1 .. 1 * Cardinality(Providers) |->
             rounds[Order[((i - 1) \div 1) + 1]][((i - 1) % 1) + 1]]
  BY RoundsAreOfProviders
<1> HIDE DEF rounds
<1>3. 1 \in Nat \ {0}
  OBVIOUS
<1>4. QED
  BY <1>1, <1>2, <1>3, LoopIsOfRounds, Zenon

LEMMA ApplyLoopIsPlain ==
  ASSUME NEW next \in [Providers -> Plans], NEW force \in BOOLEAN
  PROVE  ApplyLoop(next, force) \in Seq(Plain)
<1> DEFINE steps == [p \in Providers |-> ApplyStep(p, next[p], force)]
<1>1. steps \in [Providers -> Plain]
  BY PlainStep DEF ApplyStep
<1>2. ForEach(1, LAMBDA p : <<ApplyStep(p, next[p], force)>>)
        = [i \in 1 .. 1 * Cardinality(Providers) |->
            <<steps[Order[((i - 1) \div 1) + 1]]>>[((i - 1) % 1) + 1]]
  BY RoundsAreOfProviders DEF ForEach
<1> HIDE DEF steps
<1>3. ForEach(1, LAMBDA p : <<ApplyStep(p, next[p], force)>>) \in Seq(Plain)
  BY <1>1, <1>2, RoundsOfOne, Zenon
<1>4. QED
  BY <1>3, PollsArePlain DEF ApplyLoop

-----------------------------------------------------------------------------
(* What the helpers make of a runtime and of an answer.                    *)

LEMMA RuntimeHelpers ==
  ASSUME NEW r \in Runtimes, NEW action \in {"Start", "Reconfigure"},
         NEW caps \in SUBSET Categories, NEW result \in {"ok", "failed", "lost", "timeout"}
  PROVE  /\ ClearRetry(r) \in Runtimes /\ Failed(r) \in Runtimes
         /\ RetryLater(r, action) \in Runtimes /\ RetryNow(r, action) \in Runtimes
         /\ Started(r) \in Runtimes /\ ProbeFailed(r) \in Runtimes
         /\ Probed(r, caps) \in Runtimes
BY DEF Runtimes, ClearRetry, Failed, RetryLater, RetryNow, Started, ProbeFailed, Probed

LEMMA SampleFailedRuntime ==
  ASSUME NEW r \in Runtimes, NEW result
  PROVE  SampleFailed(r, result) \in Runtimes
<1> DEFINE f == [Failed(r) EXCEPT !.sampleDue = FALSE]
<1>1. f \in Runtimes
  BY DEF Runtimes, Failed
<1>2. [RetryLater(f, "Reconfigure") EXCEPT !.started = FALSE] \in Runtimes
  BY <1>1 DEF Runtimes, RetryLater
<1>3. QED
  BY <1>1, <1>2 DEF SampleFailed

LEMMA AfterStopRuntime ==
  ASSUME NEW r \in Runtimes, NEW why \in Whys, NEW cfg \in Plans, NEW ok \in BOOLEAN
  PROVE  AfterStop(r, why, cfg, ok) \in Runtimes
<1>1. Resting \in {"Paused", "Stopped"}
  BY DEF Resting
<1>2. ClearRetry(r) \in Runtimes
  BY DEF ClearRetry, Runtimes
<1>3. CASE why = "cleanup"
  BY <1>3 DEF AfterStop, Runtimes
<1>4. CASE why = "apply"
  <2>1. [ClearRetry(r) EXCEPT !.sampleDue = TRUE,
              !.lifecycle = IF paused /\ ~Enabled(cfg) THEN "Stopped"
                            ELSE IF ok THEN Resting ELSE "Failed"] \in Runtimes
    BY <1>1, <1>2 DEF Runtimes
  <2>2. QED
    BY <1>4, <2>1 DEF AfterStop
<1>5. CASE why = "pause"
  <2>1. [ClearRetry(r) EXCEPT !.sampleDue = TRUE,
              !.lifecycle = IF ~Enabled(r.plan) THEN @ ELSE IF ok THEN "Paused" ELSE "Failed"]
          \in Runtimes
    BY <1>2 DEF Runtimes
  <2>2. QED
    BY <1>5, <2>1 DEF AfterStop
<1>6. CASE why = "shutdown"
  <2>1. [ClearRetry(r) EXCEPT !.sampleDue = TRUE] \in Runtimes
    BY <1>2 DEF Runtimes
  <2>2. QED
    BY <1>6, <2>1 DEF AfterStop
<1>7. CASE why = "shed"
  BY <1>7 DEF AfterStop
<1>8. QED
  BY <1>3, <1>4, <1>5, <1>6, <1>7 DEF Whys

LEMMA EffectiveIsAPlan ==
  ASSUME TypeOK
  PROVE  Effective \in [Providers -> Plans]
<1>1. \A p \in Providers : (IF desired[p] = NoPlan THEN NoPlan ELSE desired[p] \intersect rt[p].caps) \in Plans
  BY NoPlanIsAPlan DEF TypeOK, Plans, Runtimes
<1>2. QED
  BY <1>1 DEF Effective

LEMMA LateAnswerIsTyped ==
  ASSUME TypeOK, NEW p \in Providers, call[p].op # "None"
  PROVE  /\ LateAnswer(p).rt \in Runtimes
         /\ LateAnswer(p).cleanup \in BOOLEAN /\ LateAnswer(p).news \in BOOLEAN
<1> DEFINE Fine(o) == o.rt \in Runtimes /\ o.cleanup \in BOOLEAN /\ o.news \in BOOLEAN
<1>1. /\ rt[p] \in Runtimes /\ call[p] \in Calls /\ own[p] \in SUBSET Categories
      /\ Active(p) \in BOOLEAN /\ News(p) \in BOOLEAN
      /\ Install(rt[p], p) \in Runtimes
  BY DEF TypeOK, Active, News, Install, Runtimes
<1>2. /\ call[p].op \in Operations /\ call[p].stale \in BOOLEAN /\ call[p].accounted \in BOOLEAN
      /\ rt[p].started \in BOOLEAN
  BY <1>1 DEF Calls, Runtimes
<1>3. \A r \in Runtimes, cleanup, news \in BOOLEAN : Fine(Outcome(r, cleanup, news))
  BY DEF Outcome
<1>4. Resting \in {"Paused", "Stopped"}
  BY DEF Resting
<1> HIDE DEF Fine
<1>5. Fine(LateProbe(p))
  <2>1. Probed(rt[p], own[p]) \in Runtimes /\ ProbeFailed(Install(rt[p], p)) \in Runtimes
    BY <1>1 DEF Runtimes, Probed, ProbeFailed, ClearRetry, Failed
  <2>2. QED
    BY <1>1, <1>3, <2>1 DEF LateProbe
<1>6. Fine(LateSample(p))
  <2> DEFINE r == Install(rt[p], p)
  <2>1. [r EXCEPT !.lifecycle = "Running"] \in Runtimes
    BY <1>1 DEF Runtimes
  <2>2. SampleFailed(r, call[p].result) \in Runtimes
    BY <1>1, SampleFailedRuntime
  <2>3. (~Active(p) /\ rt[p].started) \in BOOLEAN
    OBVIOUS
  <2> HIDE DEF r
  <2>4. r \in Runtimes
    BY <1>1 DEF r
  <2>5. LateSample(p) \in
          {Outcome(rt[p], ~Active(p) /\ rt[p].started, FALSE), Outcome(rt[p], rt[p].started, FALSE),
           Outcome([r EXCEPT !.lifecycle = "Running"], FALSE, News(p)), Outcome(r, FALSE, News(p)),
           Outcome(SampleFailed(r, call[p].result), FALSE, News(p))}
    BY DEF LateSample, r
  <2>6. \A b \in BOOLEAN : Fine(Outcome(rt[p], b, FALSE))
    BY <1>1, <1>3
  <2>7. /\ Fine(Outcome([r EXCEPT !.lifecycle = "Running"], FALSE, News(p)))
        /\ Fine(Outcome(r, FALSE, News(p)))
        /\ Fine(Outcome(SampleFailed(r, call[p].result), FALSE, News(p)))
    BY <1>1, <1>3, <2>1, <2>2, <2>4
  <2>8. QED
    BY <1>2, <2>3, <2>5, <2>6, <2>7
<1>7. CASE call[p].op \in {"Start", "Reconfigure"}
  <2> DEFINE c == call[p]
             r == IF c.stale THEN rt[p] ELSE Install(rt[p], p)
             off == [r EXCEPT !.sampleDue = TRUE]
             news == ~c.stale /\ News(p)
             down == [off EXCEPT !.started = FALSE]
  <2>1. news \in BOOLEAN
    OBVIOUS
  <2>2. r \in Runtimes
    BY <1>1
  <2>3. off \in Runtimes /\ down \in Runtimes
    BY <2>2 DEF Runtimes
  <2>4. Started(r) \in Runtimes
    BY <2>2, RuntimeHelpers, <1>1
  <2>5. \A x \in Runtimes, op \in {"Start", "Reconfigure"} :
          /\ [RetryNow(Failed(x), op) EXCEPT !.started = TRUE] \in Runtimes
          /\ [ClearRetry(x) EXCEPT !.started = TRUE] \in Runtimes
          /\ [x EXCEPT !.retry = op] \in Runtimes
          /\ RetryLater(Failed(x), op) \in Runtimes
          /\ RetryNow(Failed(x), op) \in Runtimes
          /\ [ClearRetry(x) EXCEPT !.lifecycle = Resting] \in Runtimes
    <3> SUFFICES ASSUME NEW x \in Runtimes, NEW op \in {"Start", "Reconfigure"}
                 PROVE  /\ [RetryNow(Failed(x), op) EXCEPT !.started = TRUE] \in Runtimes
                        /\ [ClearRetry(x) EXCEPT !.started = TRUE] \in Runtimes
                        /\ [x EXCEPT !.retry = op] \in Runtimes
                        /\ RetryLater(Failed(x), op) \in Runtimes
                        /\ RetryNow(Failed(x), op) \in Runtimes
                        /\ [ClearRetry(x) EXCEPT !.lifecycle = Resting] \in Runtimes
      OBVIOUS
    <3>1. [x EXCEPT !.retry = op] \in Runtimes
      BY DEF Runtimes
    <3>2. RetryLater(Failed(x), op) \in Runtimes
      BY DEF Runtimes, RetryLater, Failed
    <3>3. RetryNow(Failed(x), op) \in Runtimes
      BY DEF Runtimes, RetryNow, Failed
    <3>4. ClearRetry(x) \in Runtimes
      BY DEF Runtimes, ClearRetry
    <3>5. \A y \in Runtimes : /\ [y EXCEPT !.started = TRUE] \in Runtimes
                             /\ [y EXCEPT !.lifecycle = Resting] \in Runtimes
      BY <1>4 DEF Runtimes
    <3>6. QED
      BY <3>1, <3>2, <3>3, <3>4, <3>5
  <2>6. /\ [RetryNow(Failed(off), "Reconfigure") EXCEPT !.started = TRUE] \in Runtimes
        /\ [ClearRetry(off) EXCEPT !.started = TRUE] \in Runtimes
    <3> HIDE DEF off
    <3>1. QED
      BY <2>3, <2>5
  <2>7. /\ [down EXCEPT !.retry = c.op] \in Runtimes
        /\ RetryLater(Failed(down), c.op) \in Runtimes
        /\ RetryNow(Failed(down), c.op) \in Runtimes
        /\ [ClearRetry(down) EXCEPT !.lifecycle = Resting] \in Runtimes
    <3>1. down \in Runtimes /\ c.op \in {"Start", "Reconfigure"}
      BY <1>7, <2>3
    <3> HIDE DEF c, down
    <3>2. QED
      BY <2>5, <3>1
  <2>8. LateStart(p) \in
          {Outcome(Started(r), FALSE, news),
           Outcome([RetryNow(Failed(off), "Reconfigure") EXCEPT !.started = TRUE], FALSE, news),
           Outcome([ClearRetry(off) EXCEPT !.started = TRUE], TRUE, news),
           Outcome([down EXCEPT !.retry = c.op], FALSE, news),
           Outcome(RetryLater(Failed(down), c.op), FALSE, news),
           Outcome(RetryNow(Failed(down), c.op), FALSE, news),
           Outcome([ClearRetry(down) EXCEPT !.lifecycle = Resting], FALSE, news)}
    <3> HIDE DEF c, r, off, news, down
    <3>1. LateStart(p) =
            IF c.result = "ok"
            THEN IF ~c.stale /\ Active(p) THEN Outcome(Started(r), FALSE, news)
                 ELSE IF Active(p)
                 THEN Outcome([RetryNow(Failed(off), "Reconfigure") EXCEPT !.started = TRUE], FALSE, news)
                 ELSE Outcome([ClearRetry(off) EXCEPT !.started = TRUE], TRUE, news)
            ELSE IF ~c.stale /\ Active(p)
                 THEN Outcome(IF c.result = "timeout" /\ c.accounted THEN [down EXCEPT !.retry = c.op]
                              ELSE RetryLater(Failed(down), c.op), FALSE, news)
                 ELSE IF Active(p) THEN Outcome(RetryNow(Failed(down), c.op), FALSE, news)
                 ELSE Outcome([ClearRetry(down) EXCEPT !.lifecycle = Resting], FALSE, news)
      BY DEF LateStart, c, r, off, news, down
    <3>2. QED
      BY <3>1
  <2> HIDE DEF c, r, off, news, down
  <2>9. QED
    <3>1. \A x \in Runtimes, b \in BOOLEAN : Fine(Outcome(x, b, news))
      BY <1>3, <2>1
    <3>2. Fine(LateStart(p))
      BY <2>4, <2>6, <2>7, <2>8, <3>1
    <3>3. LateAnswer(p) = LateStart(p)
      BY <1>7 DEF LateAnswer
    <3>4. QED
      BY <3>2, <3>3 DEF Fine
<1>8. Fine(LateStop(p))
  <2> DEFINE down == [rt[p] EXCEPT !.started = FALSE, !.sampleDue = TRUE]
             r == [ClearRetry(down) EXCEPT !.stopFailed = FALSE]
             f == [Failed(down) EXCEPT !.stopFailed = TRUE]
  <2>1. r \in Runtimes /\ f \in Runtimes
    BY <1>1 DEF Runtimes, ClearRetry, Failed
  <2>2. LateStop(p) \in
          {Outcome(RetryNow(Failed(r), "Start"), FALSE, FALSE),
           Outcome([r EXCEPT !.lifecycle = Resting], FALSE, FALSE),
           Outcome(RetryLater(f, "Reconfigure"), FALSE, FALSE),
           Outcome(ClearRetry(f), FALSE, FALSE)}
    <3>1. LateStop(p) =
            IF call[p].result = "ok"
            THEN Outcome(IF Active(p) THEN RetryNow(Failed(r), "Start")
                         ELSE [r EXCEPT !.lifecycle = Resting], FALSE, FALSE)
            ELSE Outcome(IF Active(p) THEN RetryLater(f, "Reconfigure") ELSE ClearRetry(f),
                         FALSE, FALSE)
      BY DEF LateStop
    <3> HIDE DEF r, f
    <3>2. QED
      BY <3>1
  <2> HIDE DEF r, f
  <2>3. /\ RetryNow(Failed(r), "Start") \in Runtimes
        /\ [r EXCEPT !.lifecycle = Resting] \in Runtimes
        /\ RetryLater(f, "Reconfigure") \in Runtimes
        /\ ClearRetry(f) \in Runtimes
    BY <1>4, <2>1 DEF Runtimes, RetryNow, RetryLater, Failed, ClearRetry
  <2>4. \A x \in Runtimes : Fine(Outcome(x, FALSE, FALSE))
    BY <1>3
  <2>5. QED
    BY <2>2, <2>3, <2>4
<1>9. QED
  BY <1>2, <1>5, <1>6, <1>7, <1>8 DEF LateAnswer, Operations, Fine

-----------------------------------------------------------------------------
(* The inductive invariant.                                                *)

Awaited(p) == agenda # <<>> /\ Head(agenda).do \in Waits /\ Head(agenda).of = p

\* A call on its way is the one the host waits for, or one it gave up on.
Accounted(c, awaited) ==
  /\ c.pending => c.stage # "idle"
  /\ c.stage \in {"queued", "running", "answered"} => c.op # "None" /\ (c.pending \/ awaited)

CallsInOrder ==
  /\ agenda \in Stacks
  /\ \A p \in Providers : Accounted(call[p], Awaited(p))
  /\ Doing("attempt") => ~call[Head(agenda).of].pending

IInv == TypeOK /\ CallsInOrder

LEMMA HeadIsAStep ==
  ASSUME IInv, NEW what, Doing(what)
  PROVE  /\ agenda # <<>> /\ agenda \in Stacks /\ Now \in Steps /\ Now.do = what
         /\ what \notin {"sync", "applyDesired"} => Now.of \in Providers
         /\ Now.cfg \in Plans /\ Now.flag \in BOOLEAN
         /\ what \in {"attempt", "awaitStart"} => Now.tag \in {"Start", "Reconfigure"}
         /\ what \in {"stop", "awaitStop"} => Now.tag \in Whys
<1>1. agenda # <<>> /\ agenda \in Stacks /\ Now.do = what
  BY DEF IInv, CallsInOrder, Doing, Now
<1>2. Now \in Steps
  BY <1>1, StackTail DEF Now
<1>3. QED
  BY <1>1, <1>2 DEF Steps

\* A step that sends and receives nothing.
LEMMA QuietStep ==
  ASSUME IInv, NEW what, Doing(what), what \notin Waits,
         NEW s \in Seq(Plain), Then(s), UNCHANGED call
  PROVE  CallsInOrder'
<1>1. agenda # <<>> /\ agenda \in Stacks /\ ~ \E p \in Providers : Awaited(p)
  BY DEF IInv, CallsInOrder, Doing, Awaited
<1>2. s \in Stacks /\ (s # <<>> => Head(s) \in Plain)
  BY PlainIsAStack
<1>3. agenda' \in Stacks /\ (agenda' # <<>> => Head(agenda') \in Plain)
  BY <1>1, <1>2, ThenStacks
<1>4. ~Doing("attempt")'
  BY <1>3 DEF Doing, Plain
<1>5. \A p \in Providers : Accounted(call[p], FALSE)
  BY <1>1 DEF IInv, CallsInOrder, Accounted
<1>6. QED
  BY <1>3, <1>4, <1>5 DEF CallsInOrder, Accounted

\* A step that concerns one provider and its call.
LEMMA CallStep ==
  ASSUME IInv, NEW what, Doing(what), NEW p \in Providers, Now.of = p,
         NEW s \in Stacks, Then(s), NEW c \in Calls, call' = [call EXCEPT ![p] = c],
         s = <<>> => Accounted(c, FALSE),
         s # <<>> => /\ Head(s).do \in Waits \union {"attempt"} => Head(s).of = p
                     /\ Accounted(c, Head(s).do \in Waits)
                     /\ Head(s).do = "attempt" => ~c.pending
  PROVE  CallsInOrder' /\ call' \in [Providers -> Calls]
<1>1. agenda # <<>> /\ agenda \in Stacks /\ Head(agenda).of = p /\ call \in [Providers -> Calls]
  BY DEF IInv, CallsInOrder, Doing, Now, TypeOK
<1>2. /\ agenda' \in Stacks
      /\ s # <<>> => agenda' # <<>> /\ Head(agenda') = Head(s)
      /\ s = <<>> /\ agenda' # <<>> => Head(agenda') \in Plain
  BY <1>1, ThenStacks
<1>3. call' \in [Providers -> Calls] /\ call'[p] = c
      /\ \A q \in Providers \ {p} : call'[q] = call[q]
  BY <1>1
<1>4. \A q \in Providers \ {p} : Accounted(call[q], FALSE)
  BY <1>1 DEF IInv, CallsInOrder, Accounted, Awaited
<1>5. ASSUME NEW q \in Providers \ {p}
      PROVE  Accounted(call[q], Awaited(q))'
  BY <1>3, <1>4, <1>5 DEF Accounted
<1>6. Accounted(call[p], Awaited(p))'
  BY <1>2, <1>3 DEF Accounted, Awaited
<1>7. Doing("attempt")' => ~(call[Head(agenda).of].pending)'
  BY <1>2, <1>3 DEF Doing, Plain
<1>8. QED
  BY <1>2, <1>3, <1>5, <1>6, <1>7 DEF CallsInOrder

-----------------------------------------------------------------------------
(* What the collector asks of the host.                                    *)

LEMMA LoopOfThree ==
  ASSUME NEW S, NEW first \in [Providers -> S], NEW second \in [Providers -> S],
         NEW third \in [Providers -> S]
  PROVE  [i \in 1 .. 3 * Cardinality(Providers) |->
            <<first[Order[((i - 1) \div 3) + 1]], second[Order[((i - 1) \div 3) + 1]],
              third[Order[((i - 1) \div 3) + 1]]>>[((i - 1) % 3) + 1]] \in Seq(S)
<1> DEFINE rounds == [p \in Providers |-> <<first[p], second[p], third[p]>>]
<1>1. rounds \in [Providers -> [1 .. 3 -> S]]
  OBVIOUS
<1>2. [i \in 1 .. 3 * Cardinality(Providers) |->
            <<first[Order[((i - 1) \div 3) + 1]], second[Order[((i - 1) \div 3) + 1]],
              third[Order[((i - 1) \div 3) + 1]]>>[((i - 1) % 3) + 1]]
        = [i \in 1 .. 3 * Cardinality(Providers) |->
             rounds[Order[((i - 1) \div 3) + 1]][((i - 1) % 3) + 1]]
  BY RoundsAreOfProviders
<1> HIDE DEF rounds
<1>3. 3 \in Nat \ {0}
  OBVIOUS
<1>4. QED
  BY <1>1, <1>2, <1>3, LoopIsOfRounds, Zenon

\* A request starts the host on a sequence of plain steps.
LEMMA RequestStep ==
  ASSUME IInv, agenda = <<>>, agenda' \in Seq(Plain), UNCHANGED call
  PROVE  CallsInOrder'
<1>1. agenda' \in Stacks /\ (agenda' # <<>> => Head(agenda') \in Plain)
  BY PlainIsAStack
<1>2. \A p \in Providers : Accounted(call[p], FALSE)
  BY DEF IInv, CallsInOrder, Accounted, Awaited
<1>3. QED
  BY <1>1, <1>2 DEF CallsInOrder, Accounted, Doing, Plain

LEMMA DesiresArePlain ==
  ASSUME NEW wanted \in [Providers -> Plans]
  PROVE  ForEach(1, LAMBDA p : <<DesireStep(p, wanted[p])>>) \in Seq(Plain)
<1> DEFINE steps == [p \in Providers |-> DesireStep(p, wanted[p])]
<1>1. steps \in [Providers -> Plain]
  BY PlainStep DEF DesireStep
<1>2. ForEach(1, LAMBDA p : <<DesireStep(p, wanted[p])>>)
        = [i \in 1 .. 1 * Cardinality(Providers) |->
            <<steps[Order[((i - 1) \div 1) + 1]]>>[((i - 1) % 1) + 1]]
  BY RoundsAreOfProviders DEF ForEach
<1> HIDE DEF steps
<1>3. QED
  BY <1>1, <1>2, RoundsOfOne, Zenon

LEMMA ProbesArePlain == ForEach(1, LAMBDA p : <<Step("probe", p)>>) \in Seq(Plain)
<1> DEFINE steps == [p \in Providers |-> Step("probe", p)]
<1>1. steps \in [Providers -> Plain]
  BY PlainStep, NoPlanIsAPlan
<1>2. ForEach(1, LAMBDA p : <<Step("probe", p)>>)
        = [i \in 1 .. 1 * Cardinality(Providers) |->
            <<steps[Order[((i - 1) \div 1) + 1]]>>[((i - 1) % 1) + 1]]
  BY RoundsAreOfProviders DEF ForEach
<1> HIDE DEF steps
<1>3. QED
  BY <1>1, <1>2, RoundsOfOne, Zenon

LEMMA UpdateSettingsKeeps == ASSUME IInv, UpdateSettings PROVE IInv'
<1>1. PICK wanted \in [Providers -> SUBSET Categories] :
         agenda' = ForEach(1, LAMBDA p : <<Step("probe", p)>>)
                   \o ForEach(1, LAMBDA p : <<DesireStep(p, wanted[p])>>)
                   \o <<Step("applyDesired", "")>>
  BY DEF UpdateSettings
<1>2. wanted \in [Providers -> Plans]
  BY DEF Plans
<1> DEFINE probes == ForEach(1, LAMBDA p : <<Step("probe", p)>>)
           desires == ForEach(1, LAMBDA p : <<DesireStep(p, wanted[p])>>)
           last == Step("applyDesired", "")
<1>3. probes \in Seq(Plain) /\ desires \in Seq(Plain) /\ last \in Plain
  BY <1>2, ProbesArePlain, DesiresArePlain, PlainSync
<1>4. agenda' = probes \o desires \o <<last>>
  BY <1>1
<1> HIDE DEF probes, desires, last
<1>5. agenda' \in Seq(Plain)
  BY <1>3, <1>4
<1>6. QED
  BY <1>5, RequestStep DEF UpdateSettings, Calm, IInv, TypeOK

LEMMA SampleDueKeeps == ASSUME IInv, SampleDue PROVE IInv'
<1> DEFINE first == [p \in Providers |-> Step("reconcile", p)]
           second == [p \in Providers |-> Step("retry", p)]
           third == [p \in Providers |-> Step("sample", p)]
<1>1. /\ first \in [Providers -> Plain] /\ second \in [Providers -> Plain]
      /\ third \in [Providers -> Plain]
  BY PlainStep, NoPlanIsAPlan
<1>2. ForEach(3, LAMBDA p : <<Step("reconcile", p), Step("retry", p), Step("sample", p)>>)
        = [i \in 1 .. 3 * Cardinality(Providers) |->
            <<first[Order[((i - 1) \div 3) + 1]], second[Order[((i - 1) \div 3) + 1]],
              third[Order[((i - 1) \div 3) + 1]]>>[((i - 1) % 3) + 1]]
  BY RoundsAreOfProviders DEF ForEach
<1> HIDE DEF first, second, third
<1>3. [i \in 1 .. 3 * Cardinality(Providers) |->
         <<first[Order[((i - 1) \div 3) + 1]], second[Order[((i - 1) \div 3) + 1]],
           third[Order[((i - 1) \div 3) + 1]]>>[((i - 1) % 3) + 1]] \in Seq(Plain)
  BY <1>1, LoopOfThree, ZenonT(60)
<1>4. agenda' \in Seq(Plain)
  BY <1>2, <1>3, Zenon DEF SampleDue
<1>5. QED
  BY <1>4, RequestStep DEF SampleDue, Calm, IInv, TypeOK

LEMMA StopLoopIsPlain ==
  ASSUME NEW why \in {"pause", "shutdown"}
  PROVE  ForEach(3, LAMBDA p : <<Step("renew", p), Step("reconcile", p),
                                 StopStep(p, why, NoPlan)>>) \in Seq(Plain)
<1> DEFINE first == [p \in Providers |-> Step("renew", p)]
           second == [p \in Providers |-> Step("reconcile", p)]
           third == [p \in Providers |-> StopStep(p, why, NoPlan)]
<1>1. why \in Whys
  BY DEF Whys
<1>2. /\ first \in [Providers -> Plain] /\ second \in [Providers -> Plain]
      /\ third \in [Providers -> Plain]
  BY <1>1, PlainStep, PlainStop, NoPlanIsAPlan
<1>3. ForEach(3, LAMBDA p : <<Step("renew", p), Step("reconcile", p), StopStep(p, why, NoPlan)>>)
        = [i \in 1 .. 3 * Cardinality(Providers) |->
            <<first[Order[((i - 1) \div 3) + 1]], second[Order[((i - 1) \div 3) + 1]],
              third[Order[((i - 1) \div 3) + 1]]>>[((i - 1) % 3) + 1]]
  BY RoundsAreOfProviders DEF ForEach
<1> HIDE DEF first, second, third
<1>4. [i \in 1 .. 3 * Cardinality(Providers) |->
         <<first[Order[((i - 1) \div 3) + 1]], second[Order[((i - 1) \div 3) + 1]],
           third[Order[((i - 1) \div 3) + 1]]>>[((i - 1) % 3) + 1]] \in Seq(Plain)
  BY <1>2, LoopOfThree, ZenonT(60)
<1>5. QED
  BY <1>3, <1>4, Zenon

LEMMA PauseKeeps == ASSUME IInv, Pause PROVE IInv'
<1>1. agenda' \in Seq(Plain)
  BY StopLoopIsPlain DEF Pause
<1>2. QED
  BY <1>1, RequestStep DEF Pause, Calm, IInv, TypeOK

LEMMA StopAllKeeps == ASSUME IInv, StopAll PROVE IInv'
<1>1. agenda' \in Seq(Plain)
  BY StopLoopIsPlain DEF StopAll
<1>2. QED
  BY <1>1, RequestStep DEF StopAll, IInv, TypeOK

LEMMA ResumeKeeps == ASSUME IInv, Resume PROVE IInv'
<1>1. Effective \in [Providers -> Plans]
  BY EffectiveIsAPlan DEF IInv
<1>2. agenda' \in Seq(Plain)
  BY <1>1, ApplyLoopIsPlain DEF Resume
<1>3. QED
  BY <1>1, <1>2, RequestStep DEF Resume, Calm, IInv, TypeOK

-----------------------------------------------------------------------------
(* The host's own steps.                                                   *)

LEMMA EmptyIsPlain == <<>> \in Seq(Plain)
OBVIOUS

LEMMA DesireKeeps == ASSUME IInv, Desire PROVE IInv'
<1>1. Now.of \in Providers /\ Now.cfg \in Plans
  BY HeadIsAStep DEF Desire
<1>2. desired' \in [Providers -> Plans]
  BY <1>1 DEF Desire, IInv, TypeOK
<1>3. "desire" \notin Waits
  BY DEF Waits
<1>4. QED
  BY <1>2, <1>3, EmptyIsPlain, QuietStep DEF Desire, IInv, TypeOK

LEMMA ApplyDesiredKeeps == ASSUME IInv, ApplyDesired PROVE IInv'
<1>1. Effective \in [Providers -> Plans]
  BY EffectiveIsAPlan DEF IInv
<1>2. ApplyLoop(Effective, FALSE) \in Seq(Plain)
  BY <1>1, ApplyLoopIsPlain
<1>3. "applyDesired" \notin Waits
  BY DEF Waits
<1>4. QED
  BY <1>1, <1>2, <1>3, QuietStep DEF ApplyDesired, IInv, TypeOK

LEMMA SyncKeeps == ASSUME IInv, Sync PROVE IInv'
<1>1. Effective \in [Providers -> Plans]
  BY EffectiveIsAPlan DEF IInv
<1>2. (IF shuttingDown \/ Effective = plan THEN <<>> ELSE ApplyLoop(Effective, FALSE)) \in Seq(Plain)
  BY <1>1, ApplyLoopIsPlain, EmptyIsPlain
<1>3. "sync" \notin Waits
  BY DEF Waits
<1>4. rt' \in [Providers -> Runtimes]
  <2>1. \A p \in Providers : [rt[p] EXCEPT !.plan = Effective[p]] \in Runtimes
    <3>1. \A x \in Runtimes, next \in Plans : [x EXCEPT !.plan = next] \in Runtimes
      BY DEF Runtimes
    <3>2. \A p \in Providers : rt[p] \in Runtimes /\ Effective[p] \in Plans
      BY <1>1 DEF IInv, TypeOK
    <3>3. QED
      BY <3>1, <3>2
  <2>2. QED
    BY <2>1 DEF Sync, IInv, TypeOK
<1>5. QED
  BY <1>1, <1>2, <1>3, <1>4, QuietStep DEF Sync, IInv, TypeOK

LEMMA ShedKeeps == ASSUME IInv, Shed PROVE IInv'
<1>1. Now.of \in Providers
  BY HeadIsAStep DEF Shed
<1>2. <<StopStep(Now.of, "shed", NoPlan)>> \in Seq(Plain)
  BY <1>1, PlainStop, NoPlanIsAPlan DEF Whys
<1>3. "shed" \notin Waits
  BY DEF Waits
<1>4. QED
  BY <1>2, <1>3, EmptyIsPlain, QuietStep DEF Shed, IInv, TypeOK

LEMMA CleanupKeeps == ASSUME IInv, Cleanup PROVE IInv'
<1>1. Now.of \in Providers
  BY HeadIsAStep DEF Cleanup
<1>2. <<StopStep(Now.of, "cleanup", NoPlan)>> \in Seq(Plain)
  BY <1>1, PlainStop, NoPlanIsAPlan DEF Whys
<1>3. "cleanup" \notin Waits
  BY DEF Waits
<1>4. QED
  BY <1>2, <1>3, EmptyIsPlain, QuietStep DEF Cleanup, IInv, TypeOK

LEMMA ShortStacks ==
  ASSUME NEW x \in Steps, NEW y \in Plain, NEW z \in Plain
  PROVE  /\ <<x>> \in Stacks /\ <<x, y>> \in Stacks /\ <<x, y, z>> \in Stacks
         /\ <<x>> # <<>> /\ <<x, y>> # <<>> /\ <<x, y, z>> # <<>>
         /\ Head(<<x>>) = x /\ Head(<<x, y>>) = x /\ Head(<<x, y, z>>) = x
<1>1. y \in Steps /\ z \in Steps
  BY DEF Plain
<1>2. <<x>> \in Seq(Steps) /\ <<x, y>> \in Seq(Steps) /\ <<x, y, z>> \in Seq(Steps)
  BY <1>1
<1>3. QED
  BY <1>2 DEF Stacks

\* The call of a provider the host does not wait for.
LEMMA NotAwaited ==
  ASSUME IInv, NEW what, Doing(what), what \notin Waits, NEW p \in Providers
  PROVE  /\ call[p] \in Calls /\ Accounted(call[p], FALSE)
         /\ call = [call EXCEPT ![p] = call[p]]
BY DEF IInv, CallsInOrder, TypeOK, Doing, Awaited, Accounted

LEMMA EmptyStack == <<>> \in Stacks
BY DEF Stacks

LEMMA RenewKeeps == ASSUME IInv, Renew PROVE IInv'
<1> DEFINE p == Now.of
           c == [call[p] EXCEPT !.stale = @ \/ (call[p].pending /\ call[p].op # "Probe")]
<1>1. p \in Providers /\ Doing("renew") /\ "renew" \notin Waits
  BY HeadIsAStep DEF Renew, Waits
<1>2. call[p] \in Calls /\ Accounted(call[p], FALSE)
  BY <1>1, NotAwaited
<1>3. c \in Calls /\ Accounted(c, FALSE)
  BY <1>2 DEF Calls, Accounted
<1>4. call' = [call EXCEPT ![p] = c]
  BY DEF Renew, NewGeneration
<1> HIDE DEF c
<1>5. QED
  BY <1>1, <1>3, <1>4, EmptyStack, CallStep DEF Renew, IInv, TypeOK

LEMMA ReconcileFirst ==
  ASSUME NEW p \in Providers, NEW y \in Plain
  PROVE  /\ <<Step("reconcile", p), y>> \in Stacks
         /\ Head(<<Step("reconcile", p), y>>).of = p
         /\ Head(<<Step("reconcile", p), y>>).do \notin Waits \union {"attempt"}
<1> DEFINE x == Step("reconcile", p)
<1>1. x \in Plain
  BY PlainStep, NoPlanIsAPlan
<1>2. x.of = p /\ x.do = "reconcile"
  BY DEF Step, StepWith
<1> HIDE DEF x
<1>3. <<x, y>> \in Stacks /\ Head(<<x, y>>) = x
  BY <1>1, ShortStacks DEF Plain
<1>4. QED
  BY <1>1, <1>2, <1>3 DEF x, Plain

LEMMA ProbeKeeps == ASSUME IInv, Probe PROVE IInv'
<1> DEFINE p == Now.of
           c == [call[p] EXCEPT !.stale = @ \/ (call[p].pending /\ call[p].op = "Probe")]
           s == <<Step("reconcile", p), Step("sendProbe", p)>>
<1>1. p \in Providers /\ Doing("probe") /\ "probe" \notin Waits
  BY HeadIsAStep DEF Probe, Waits
<1>2. call[p] \in Calls /\ Accounted(call[p], FALSE)
  BY <1>1, NotAwaited
<1>3. c \in Calls /\ Accounted(c, FALSE)
  BY <1>2 DEF Calls, Accounted
<1>4. call' = [call EXCEPT ![p] = c] /\ Then(s)
  BY DEF Probe
<1>5. Step("sendProbe", p) \in Plain
  BY <1>1, PlainStep, NoPlanIsAPlan
<1>6. s \in Stacks /\ Head(s).of = p /\ Head(s).do \notin Waits \union {"attempt"}
  BY <1>1, <1>5, ReconcileFirst
<1> HIDE DEF c, s
<1>7. CallsInOrder' /\ call' \in [Providers -> Calls]
  BY <1>1, <1>3, <1>4, <1>6, CallStep DEF Accounted
<1>8. QED
  BY <1>7 DEF Probe, IInv, TypeOK

LEMMA ApplyKeeps == ASSUME IInv, Apply PROVE IInv'
<1> DEFINE p == Now.of
           changed == rt[p].plan # Now.cfg
           c == [call[p] EXCEPT !.stale = @ \/ (call[p].pending /\ call[p].op # "Probe")]
           s == <<Step("reconcile", p), StepWith("settle", p, Now.cfg, "", changed)>>
<1>1. p \in Providers /\ Doing("apply") /\ "apply" \notin Waits /\ Now.cfg \in Plans
  BY HeadIsAStep DEF Apply, Waits
<1>2. call[p] \in Calls /\ Accounted(call[p], FALSE) /\ call = [call EXCEPT ![p] = call[p]]
  BY <1>1, NotAwaited
<1>3. c \in Calls /\ Accounted(c, FALSE)
  BY <1>2 DEF Calls, Accounted
<1>4. CASE Now.cfg = NoPlan
  BY <1>1, <1>4, EmptyIsPlain, QuietStep DEF Apply, IInv, TypeOK
<1>5. CASE Now.cfg # NoPlan
  <2>1. Then(s) /\ rt' = [rt EXCEPT ![p].plan = Now.cfg]
    BY <1>5 DEF Apply
  <2>2. call' = [call EXCEPT ![p] = c] \/ call' = [call EXCEPT ![p] = call[p]]
    BY <1>2, <1>5 DEF Apply, NewGeneration
  <2>3. changed \in BOOLEAN
    OBVIOUS
  <2>4. StepWith("settle", p, Now.cfg, "", changed) \in Plain
    BY <1>1, <2>3, PlainStep
  <2>5. s \in Stacks /\ Head(s).of = p /\ Head(s).do \notin Waits \union {"attempt"}
    BY <1>1, <2>4, ReconcileFirst
  <2>6. [rt[p] EXCEPT !.plan = Now.cfg] \in Runtimes
    <3>1. rt[p] \in Runtimes /\ Now.cfg \in Plans
      BY <1>1 DEF IInv, TypeOK
    <3>2. \A x \in Runtimes, cfg \in Plans : [x EXCEPT !.plan = cfg] \in Runtimes
      BY DEF Runtimes
    <3>3. QED
      BY <3>1, <3>2
  <2>7. rt' \in [Providers -> Runtimes]
    BY <1>1, <2>1, <2>6 DEF IInv, TypeOK
  <2> HIDE DEF c, s, changed
  <2>8. CallsInOrder' /\ call' \in [Providers -> Calls]
    BY <1>1, <1>2, <1>3, <2>1, <2>2, <2>5, CallStep DEF Accounted
  <2>9. QED
    BY <2>7, <2>8 DEF Apply, IInv, TypeOK
<1>6. QED
  BY <1>4, <1>5

\* An attempt to start, and what it does before.
LEMMA AttemptIsAStep ==
  ASSUME NEW p \in Providers, NEW cfg \in Plans, NEW action \in {"Start", "Reconfigure"}
  PROVE  /\ AttemptStep(p, cfg, action) \in Steps
         /\ AttemptStep(p, cfg, action).of = p
         /\ AttemptStep(p, cfg, action).do = "attempt"
BY DEF AttemptStep, StepWith, Steps

LEMMA SettleKeeps == ASSUME IInv, Settle PROVE IInv'
<1> DEFINE p == Now.of
           r == rt[p]
           action == IF r.retry # "None" THEN r.retry
                     ELSE IF r.started THEN "Reconfigure" ELSE "Start"
           x == AttemptStep(p, Now.cfg, action)
           s == <<x, SyncStep, Step("shed", p)>>
<1>1. p \in Providers /\ Doing("settle") /\ "settle" \notin Waits /\ Now.cfg \in Plans
  BY HeadIsAStep DEF Settle, Waits
<1>2. call[p] \in Calls /\ Accounted(call[p], FALSE) /\ call = [call EXCEPT ![p] = call[p]]
  BY <1>1, NotAwaited
<1>3. CASE Then(<<StopStep(p, "apply", Now.cfg)>>)
  <2>1. <<StopStep(p, "apply", Now.cfg)>> \in Seq(Plain)
    BY <1>1, PlainStop DEF Whys
  <2>2. QED
    BY <1>1, <1>3, <2>1, QuietStep DEF Settle, IInv, TypeOK
<1>4. CASE Then(<<>>)
  BY <1>1, <1>4, EmptyIsPlain, QuietStep DEF Settle, IInv, TypeOK
<1>5. CASE Then(s) /\ ~Busy(p)
  <2>1. action \in {"Start", "Reconfigure"}
    BY <1>1 DEF IInv, TypeOK, Runtimes
  <2>2. x \in Steps /\ x.of = p /\ x.do = "attempt"
    <3> HIDE DEF action
    <3>1. QED
      BY <1>1, <2>1, AttemptIsAStep
  <2>3. SyncStep \in Plain /\ Step("shed", p) \in Plain
    BY <1>1, PlainSync, PlainStep, NoPlanIsAPlan
  <2> HIDE DEF x, action
  <2>4. s \in Stacks /\ s # <<>> /\ Head(s) = x
    BY <2>2, <2>3, ShortStacks
  <2>5. ~call[p].pending /\ "attempt" \notin Waits
    BY <1>5 DEF Busy, Waits
  <2>6. call' = [call EXCEPT ![p] = call[p]]
    BY <1>2 DEF Settle
  <2> HIDE DEF s
  <2>7. CallsInOrder' /\ call' \in [Providers -> Calls]
    BY <1>1, <1>2, <1>5, <2>2, <2>4, <2>5, <2>6, CallStep DEF Accounted
  <2>8. QED
    BY <2>7 DEF Settle, IInv, TypeOK
<1>6. QED
  BY <1>3, <1>4, <1>5 DEF Settle

LEMMA RetryKeeps == ASSUME IInv, Retry PROVE IInv'
<1> DEFINE p == Now.of
           r == rt[p]
           x == AttemptStep(p, r.plan, r.retry)
           s == <<x, SyncStep>>
<1>1. p \in Providers /\ Doing("retry") /\ "retry" \notin Waits
  BY HeadIsAStep DEF Retry, Waits
<1>2. call[p] \in Calls /\ Accounted(call[p], FALSE) /\ call = [call EXCEPT ![p] = call[p]]
  BY <1>1, NotAwaited
<1>3. CASE Then(<<>>)
  BY <1>1, <1>3, EmptyIsPlain, QuietStep DEF Retry, IInv, TypeOK
<1>4. CASE Then(s) /\ ~Busy(p) /\ r.retry # "None"
  <2>1. r.retry \in {"Start", "Reconfigure"} /\ r.plan \in Plans
    BY <1>1, <1>4 DEF IInv, TypeOK, Runtimes
  <2>2. x \in Steps /\ x.of = p /\ x.do = "attempt"
    BY <1>1, <2>1, AttemptIsAStep
  <2> HIDE DEF x
  <2>3. s \in Stacks /\ s # <<>> /\ Head(s) = x
    BY <2>2, PlainSync, ShortStacks
  <2>4. ~call[p].pending /\ "attempt" \notin Waits
    BY <1>4 DEF Busy, Waits
  <2>5. call' = [call EXCEPT ![p] = call[p]]
    BY <1>2 DEF Retry
  <2> HIDE DEF s
  <2>6. CallsInOrder' /\ call' \in [Providers -> Calls]
    BY <1>1, <1>2, <1>4, <2>2, <2>3, <2>4, <2>5, CallStep DEF Accounted
  <2>7. QED
    BY <2>6 DEF Retry, IInv, TypeOK
<1>5. QED
  BY <1>3, <1>4 DEF Retry

\* A step that leaves the provider's call answered, or given up.
LEMMA AnswerStep ==
  ASSUME IInv, NEW what, Doing(what), NEW p \in Providers, Now.of = p,
         NEW s \in Seq(Plain), Then(s), NEW c \in Calls, call' = [call EXCEPT ![p] = c],
         Accounted(c, FALSE)
  PROVE  CallsInOrder' /\ call' \in [Providers -> Calls]
<1>1. s \in Stacks /\ (s # <<>> => Head(s).do \notin Waits \union {"attempt"})
  BY PlainIsAStack DEF Plain
<1>2. QED
  BY <1>1, CallStep DEF Accounted

\* A step that sends a call and goes on to wait for its answer.
LEMMA SendStep ==
  ASSUME IInv, NEW what, Doing(what), what \notin Waits, NEW p \in Providers, Now.of = p,
         NEW wait \in Waits, NEW cfg \in Plans, NEW tag \in {"", "Start", "Reconfigure"} \union Whys,
         wait = "awaitStart" => tag \in {"Start", "Reconfigure"},
         wait = "awaitStop" => tag \in Whys,
         Then(<<StepWith(wait, p, cfg, tag, FALSE)>>),
         NEW op \in Operations, NEW given \in Plans, call' = NewCall(p, op, given)
  PROVE  CallsInOrder' /\ call' \in [Providers -> Calls]
<1> DEFINE x == StepWith(wait, p, cfg, tag, FALSE)
           c == IF call[p].stage = "dead" THEN call[p]
                ELSE [NoCall EXCEPT !.op = op, !.stage = "queued", !.cfg = given]
<1>1. x \in Steps /\ x.of = p /\ x.do = wait
  BY DEF StepWith, Steps, Waits
<1>2. call[p] \in Calls /\ Accounted(call[p], FALSE) /\ call = [call EXCEPT ![p] = call[p]]
  BY NotAwaited
<1>3. call' = [call EXCEPT ![p] = c]
  BY <1>2 DEF NewCall
<1>4. NoCall \in Calls
  BY NoPlanIsAPlan DEF NoCall, Calls
<1>5. [NoCall EXCEPT !.op = op, !.stage = "queued", !.cfg = given] \in Calls
  BY <1>4 DEF Calls
<1>6. /\ [NoCall EXCEPT !.op = op, !.stage = "queued", !.cfg = given].pending = FALSE
      /\ [NoCall EXCEPT !.op = op, !.stage = "queued", !.cfg = given].op = op
  BY DEF NoCall
<1>7. c \in Calls /\ Accounted(c, TRUE)
  BY <1>2, <1>5, <1>6 DEF Accounted, Operations
<1> HIDE DEF x, c
<1>8. <<x>> \in Stacks /\ <<x>> # <<>> /\ Head(<<x>>) = x
  BY <1>1, PlainSync, ShortStacks
<1>9. "attempt" \notin Waits /\ Then(<<x>>)
  BY DEF Waits, x
<1>10. QED
  BY <1>1, <1>3, <1>7, <1>8, <1>9, CallStep

LEMMA SendProbeKeeps == ASSUME IInv, SendProbe PROVE IInv'
<1>1. Now.of \in Providers /\ Doing("sendProbe") /\ "sendProbe" \notin Waits
  BY HeadIsAStep DEF SendProbe, Waits
<1>2. CASE Busy(Now.of)
  BY <1>1, <1>2, EmptyIsPlain, QuietStep DEF SendProbe, IInv, TypeOK
<1>3. CASE ~Busy(Now.of)
  <2>1. /\ call' = NewCall(Now.of, "Probe", NoPlan)
        /\ Then(<<StepWith("awaitProbe", Now.of, NoPlan, "", FALSE)>>)
    BY <1>3 DEF SendProbe, Step
  <2>2. CallsInOrder' /\ call' \in [Providers -> Calls]
    BY <1>1, <2>1, SendStep, NoPlanIsAPlan DEF Waits, Operations
  <2>3. QED
    BY <2>2 DEF SendProbe, IInv, TypeOK
<1>4. QED
  BY <1>2, <1>3

LEMMA SendStartKeeps == ASSUME IInv, SendStart PROVE IInv'
<1>1. /\ Now.of \in Providers /\ Doing("attempt") /\ "attempt" \notin Waits
      /\ Now.cfg \in Plans /\ Now.tag \in {"Start", "Reconfigure"}
  BY HeadIsAStep DEF SendStart, Waits
<1>2. /\ call' = NewCall(Now.of, Now.tag, Now.cfg)
      /\ Then(<<StepWith("awaitStart", Now.of, NoPlan, Now.tag, FALSE)>>)
  BY DEF SendStart
<1>3. CallsInOrder' /\ call' \in [Providers -> Calls]
  BY <1>1, <1>2, SendStep, NoPlanIsAPlan DEF Waits, Operations
<1>4. rt' \in [Providers -> Runtimes]
  <2>1. \A x \in Runtimes : [x EXCEPT !.started = @ /\ Now.tag = "Start"] \in Runtimes
    BY DEF Runtimes
  <2>2. rt[Now.of] \in Runtimes
    BY <1>1 DEF IInv, TypeOK
  <2>3. QED
    BY <1>1, <2>1, <2>2 DEF SendStart, IInv, TypeOK
<1>5. QED
  BY <1>3, <1>4 DEF SendStart, IInv, TypeOK

LEMMA SendSampleKeeps == ASSUME IInv, SendSample PROVE IInv'
<1> DEFINE p == Now.of
           sends == Active(p) /\ ~Busy(p) /\ rt[p].started /\ rt[p].sampleDue
<1>1. p \in Providers /\ Doing("sample") /\ "sample" \notin Waits
  BY HeadIsAStep DEF SendSample, Waits
<1>2. CASE sends
  <2>1. /\ call' = NewCall(p, "Sample", NoPlan)
        /\ Then(<<StepWith("awaitSample", p, NoPlan, "", FALSE)>>)
        /\ rt' = [rt EXCEPT ![p].sampleDue = FALSE]
    BY <1>2 DEF SendSample, Step
  <2>2. CallsInOrder' /\ call' \in [Providers -> Calls]
    BY <1>1, <2>1, SendStep, NoPlanIsAPlan DEF Waits, Operations
  <2>3. rt' \in [Providers -> Runtimes]
    <3>1. \A x \in Runtimes : [x EXCEPT !.sampleDue = FALSE] \in Runtimes
      BY DEF Runtimes
    <3>2. rt[p] \in Runtimes
      BY <1>1 DEF IInv, TypeOK
    <3>3. QED
      BY <1>1, <2>1, <3>1, <3>2 DEF IInv, TypeOK
  <2>4. QED
    BY <2>2, <2>3 DEF SendSample, IInv, TypeOK
<1>3. CASE ~sends
  <2>1. Then(<<>>) /\ UNCHANGED <<rt, call>>
    BY <1>3 DEF SendSample
  <2>2. QED
    BY <1>1, <2>1, EmptyIsPlain, QuietStep DEF SendSample, IInv, TypeOK
<1>4. QED
  BY <1>2, <1>3

LEMMA StopKeeps == ASSUME IInv, Stop PROVE IInv'
<1> DEFINE p == Now.of
           r == [ClearRetry(rt[p]) EXCEPT !.sampleDue = TRUE]
           Ends(s, ok) == rt' = [rt EXCEPT ![p] = AfterStop(s, Now.tag, Now.cfg, ok)]
<1>1. /\ p \in Providers /\ Doing("stop") /\ "stop" \notin Waits /\ Now.cfg \in Plans
      /\ Now.tag \in Whys
  BY HeadIsAStep DEF Stop, Waits
<1>2. call[p] \in Calls /\ Accounted(call[p], FALSE) /\ rt[p] \in Runtimes
  BY <1>1, NotAwaited DEF IInv, TypeOK
<1>3. r \in Runtimes
  BY <1>2 DEF Runtimes, ClearRetry
<1>4. \A s \in Runtimes, ok \in BOOLEAN : Ends(s, ok) => rt' \in [Providers -> Runtimes]
  BY <1>1, AfterStopRuntime DEF IInv, TypeOK
<1>5. CASE Busy(p)
  <2> DEFINE c == [call[p] EXCEPT !.cancelled = TRUE]
             s == [Failed(r) EXCEPT !.stopFailed = @ \/ call[p].op = "Stop"]
  <2>1. c \in Calls /\ Accounted(c, FALSE)
    BY <1>2 DEF Calls, Accounted
  <2>2. s \in Runtimes
    BY <1>3 DEF Runtimes, Failed
  <2>3. call' = [call EXCEPT ![p] = c] /\ Ends(s, FALSE) /\ Then(<<>>)
    BY <1>5 DEF Stop
  <2> HIDE DEF c, s, Ends
  <2>4. CallsInOrder' /\ call' \in [Providers -> Calls] /\ rt' \in [Providers -> Runtimes]
    BY <1>1, <1>4, <2>1, <2>2, <2>3, EmptyIsPlain, AnswerStep
  <2>5. QED
    BY <2>4 DEF Stop, IInv, TypeOK
<1>6. CASE ~Busy(p) /\ ~r.started
  <2> DEFINE s == IF r.stopFailed \/ r.lifecycle = "Failed" THEN r
                  ELSE [r EXCEPT !.lifecycle = "Stopped"]
  <2>1. s \in Runtimes /\ (~r.stopFailed) \in BOOLEAN
    BY <1>3 DEF Runtimes
  <2>2. UNCHANGED call /\ Ends(s, ~r.stopFailed) /\ Then(<<>>)
    BY <1>6 DEF Stop
  <2> HIDE DEF s, r, Ends
  <2>3. CallsInOrder' /\ rt' \in [Providers -> Runtimes]
    BY <1>1, <1>4, <2>1, <2>2, EmptyIsPlain, QuietStep
  <2>4. QED
    BY <2>2, <2>3 DEF Stop, IInv, TypeOK
<1>7. CASE ~Busy(p) /\ r.started /\ shuttingDown /\ late
  <2> DEFINE s == [Failed(r) EXCEPT !.started = FALSE, !.stopFailed = TRUE]
  <2>1. s \in Runtimes
    BY <1>3 DEF Runtimes, Failed
  <2>2. UNCHANGED call /\ Ends(s, FALSE) /\ Then(<<>>)
    BY <1>7 DEF Stop
  <2> HIDE DEF s, r, Ends
  <2>3. CallsInOrder' /\ rt' \in [Providers -> Runtimes]
    BY <1>1, <1>4, <2>1, <2>2, EmptyIsPlain, QuietStep
  <2>4. QED
    BY <2>2, <2>3 DEF Stop, IInv, TypeOK
<1>8. CASE ~Busy(p) /\ r.started /\ ~(shuttingDown /\ late)
  <2>1. /\ call' = NewCall(p, "Stop", NoPlan)
        /\ rt' = [rt EXCEPT ![p] = r]
        /\ Then(<<StepWith("awaitStop", p, Now.cfg, Now.tag, FALSE)>>)
    BY <1>8 DEF Stop
  <2>2. CallsInOrder' /\ call' \in [Providers -> Calls]
    BY <1>1, <2>1, SendStep, NoPlanIsAPlan DEF Waits, Operations
  <2>3. rt' \in [Providers -> Runtimes]
    BY <1>1, <1>3, <2>1 DEF IInv, TypeOK
  <2>4. QED
    BY <2>2, <2>3 DEF Stop, IInv, TypeOK
<1>9. QED
  BY <1>5, <1>6, <1>7, <1>8

-----------------------------------------------------------------------------
(* The end of a wait.                                                      *)

LEMMA SyncAlone == <<SyncStep>> \in Seq(Plain)
<1> DEFINE x == SyncStep
<1>1. x \in Plain
  BY PlainSync
<1> HIDE DEF x
<1>2. <<x>> \in Seq(Plain)
  BY <1>1
<1>3. QED
  BY <1>2 DEF x

LEMMA NoCallIsDone == NoCall \in Calls /\ Accounted(NoCall, FALSE)
BY NoPlanIsAPlan DEF NoCall, Calls, Accounted

\* However the wait ends, the call is done with or the host has noted that it is pending.
LEMMA WaitEnds ==
  ASSUME IInv, NEW what, Doing(what), NEW p \in Providers, Now.of = p,
         NEW s \in Seq(Plain), Then(s), NEW noted \in BOOLEAN,
         \/ Answered(p) /\ call' = [call EXCEPT ![p] = NoCall]
         \/ NoAnswer(p) /\ call' = GivenUp(p, noted)
  PROVE  CallsInOrder' /\ call' \in [Providers -> Calls]
<1>1. CASE Answered(p) /\ call' = [call EXCEPT ![p] = NoCall]
  BY <1>1, NoCallIsDone, AnswerStep
<1>2. CASE NoAnswer(p) /\ call' = GivenUp(p, noted)
  <2> DEFINE c == IF call[p].stage = "dead" THEN call[p]
                  ELSE [call[p] EXCEPT !.pending = TRUE, !.cancelled = TRUE, !.accounted = noted]
  <2>1. call \in [Providers -> Calls] /\ call[p] \in Calls /\ Accounted(call[p], Awaited(p))
    BY DEF IInv, CallsInOrder, TypeOK
  <2>2. call[p].stage \in {"queued", "running", "dead"}
    BY <1>2 DEF NoAnswer, TimesOut
  <2>3. c \in Calls /\ Accounted(c, FALSE)
    BY <2>1, <2>2 DEF Accounted, Calls
  <2>4. call' = [call EXCEPT ![p] = c]
    BY <1>2, <2>1 DEF GivenUp
  <2> HIDE DEF c
  <2>5. QED
    BY <2>3, <2>4, AnswerStep
<1>3. QED
  BY <1>1, <1>2

\* What the answer, or its absence, makes of the runtime.
LEMMA AnsweredRuntime ==
  ASSUME IInv, NEW p \in Providers, NEW action \in {"Start", "Reconfigure"}, NEW result
  PROVE  /\ rt[p] \in Runtimes /\ own[p] \in SUBSET Categories
         /\ Install(rt[p], p) \in Runtimes
         /\ Probed(rt[p], own[p]) \in Runtimes
         /\ ProbeFailed(rt[p]) \in Runtimes /\ ProbeFailed(Install(rt[p], p)) \in Runtimes
         /\ Started(Install(rt[p], p)) \in Runtimes
         /\ SampleFailed(rt[p], result) \in Runtimes
         /\ SampleFailed(Install(rt[p], p), result) \in Runtimes
         /\ [Install(rt[p], p) EXCEPT !.lifecycle = "Running"] \in Runtimes
         /\ \A x \in Runtimes :
              [RetryLater(Failed(x), action) EXCEPT !.started = FALSE, !.sampleDue = TRUE]
                \in Runtimes
<1>1. rt[p] \in Runtimes /\ own[p] \in SUBSET Categories
  BY DEF IInv, TypeOK
<1>2. Install(rt[p], p) \in Runtimes
  BY <1>1 DEF Install, Runtimes
<1>3. /\ Probed(rt[p], own[p]) \in Runtimes
      /\ ProbeFailed(rt[p]) \in Runtimes /\ ProbeFailed(Install(rt[p], p)) \in Runtimes
      /\ Started(Install(rt[p], p)) \in Runtimes
  BY <1>1, <1>2, RuntimeHelpers
<1>4. \A x \in Runtimes : [x EXCEPT !.lifecycle = "Running"] \in Runtimes
  BY DEF Runtimes
<1>5. \A x \in Runtimes :
        [RetryLater(Failed(x), action) EXCEPT !.started = FALSE, !.sampleDue = TRUE] \in Runtimes
  BY DEF Runtimes, RetryLater, Failed
<1>6. QED
  BY <1>1, <1>2, <1>3, <1>4, <1>5, SampleFailedRuntime

LEMMA AwaitProbeKeeps == ASSUME IInv, AwaitProbe PROVE IInv'
<1>1. Now.of \in Providers /\ Doing("awaitProbe")
  BY HeadIsAStep DEF AwaitProbe
<1>2. PICK s \in Seq(Plain) : Then(s)
  BY SyncAlone, EmptyIsPlain DEF AwaitProbe
<1>3. CallsInOrder' /\ call' \in [Providers -> Calls]
  BY <1>1, <1>2, WaitEnds DEF AwaitProbe
<1>4. rt' \in [Providers -> Runtimes]
  <2> DEFINE p == Now.of
             outcomes ==
               {Probed(rt[p], own[p]), ProbeFailed(Install(rt[p], p)), ProbeFailed(rt[p])}
  <2>1. \E r \in outcomes : rt' = [rt EXCEPT ![p] = r]
    BY DEF AwaitProbe
  <2>2. outcomes \subseteq Runtimes
    BY <1>1, AnsweredRuntime
  <2> HIDE DEF outcomes
  <2>3. QED
    BY <1>1, <2>1, <2>2 DEF IInv, TypeOK
<1>5. QED
  BY <1>3, <1>4 DEF AwaitProbe, IInv, TypeOK

LEMMA AwaitStartKeeps == ASSUME IInv, AwaitStart PROVE IInv'
<1>1. Now.of \in Providers /\ Doing("awaitStart") /\ Now.tag \in {"Start", "Reconfigure"}
  BY HeadIsAStep DEF AwaitStart
<1>2. Then(<<>>)
  BY DEF AwaitStart
<1>3. CallsInOrder' /\ call' \in [Providers -> Calls]
  BY <1>1, <1>2, EmptyIsPlain, WaitEnds DEF AwaitStart
<1>4. rt' \in [Providers -> Runtimes]
  <2> DEFINE p == Now.of
             outcomes ==
               {Started(Install(rt[p], p)),
             [RetryLater(Failed(Install(rt[p], p)), Now.tag) EXCEPT !.started = FALSE, !.sampleDue = TRUE],
             [RetryLater(Failed(rt[p]), Now.tag) EXCEPT !.started = FALSE, !.sampleDue = TRUE]}
  <2>1. \E r \in outcomes : rt' = [rt EXCEPT ![p] = r]
    BY DEF AwaitStart
  <2>2. outcomes \subseteq Runtimes
    <3>1. \A x \in Runtimes :
            [RetryLater(Failed(x), Now.tag) EXCEPT !.started = FALSE, !.sampleDue = TRUE]
              \in Runtimes
      BY <1>1, AnsweredRuntime
    <3>2. /\ rt[p] \in Runtimes /\ Install(rt[p], p) \in Runtimes
          /\ Started(Install(rt[p], p)) \in Runtimes
      BY <1>1, AnsweredRuntime
    <3> HIDE DEF p
    <3>3. QED
      BY <3>1, <3>2
  <2> HIDE DEF outcomes
  <2>3. QED
    BY <1>1, <2>1, <2>2 DEF IInv, TypeOK
<1>5. QED
  BY <1>3, <1>4 DEF AwaitStart, IInv, TypeOK

LEMMA AwaitSampleKeeps == ASSUME IInv, AwaitSample PROVE IInv'
<1>1. Now.of \in Providers /\ Doing("awaitSample")
  BY HeadIsAStep DEF AwaitSample
<1>2. PICK s \in Seq(Plain) : Then(s)
  BY SyncAlone, EmptyIsPlain DEF AwaitSample
<1>3. CallsInOrder' /\ call' \in [Providers -> Calls]
  BY <1>1, <1>2, WaitEnds DEF AwaitSample
<1>4. rt' \in [Providers -> Runtimes]
  <2> DEFINE p == Now.of
             outcomes ==
               {[Install(rt[p], p) EXCEPT !.lifecycle = "Running"],
             SampleFailed(Install(rt[p], p), call[p].result), SampleFailed(rt[p], "timeout")}
  <2>1. \E r \in outcomes : rt' = [rt EXCEPT ![p] = r]
    BY DEF AwaitSample
  <2>2. outcomes \subseteq Runtimes
    BY <1>1, AnsweredRuntime
  <2> HIDE DEF outcomes
  <2>3. QED
    BY <1>1, <2>1, <2>2 DEF IInv, TypeOK
<1>5. QED
  BY <1>3, <1>4 DEF AwaitSample, IInv, TypeOK

LEMMA AwaitStopKeeps == ASSUME IInv, AwaitStop PROVE IInv'
<1> DEFINE p == Now.of
           ok == Answered(p) /\ call[p].result = "ok"
           r == [rt[p] EXCEPT !.started = FALSE]
           ended == IF ok THEN [r EXCEPT !.lifecycle = "Stopped", !.stopFailed = FALSE]
                    ELSE [Failed(r) EXCEPT !.stopFailed = TRUE]
<1>1. p \in Providers /\ Doing("awaitStop") /\ Now.tag \in Whys /\ Now.cfg \in Plans
  BY HeadIsAStep DEF AwaitStop
<1>2. Then(<<>>)
  BY DEF AwaitStop
<1>3. CallsInOrder' /\ call' \in [Providers -> Calls]
  BY <1>1, <1>2, EmptyIsPlain, WaitEnds DEF AwaitStop
<1>4. rt' \in [Providers -> Runtimes]
  <2>1. rt[p] \in Runtimes
    BY <1>1 DEF IInv, TypeOK
  <2>2. ended \in Runtimes /\ ok \in BOOLEAN
    BY <2>1 DEF Runtimes, Failed
  <2>3. rt' = [rt EXCEPT ![p] = AfterStop(ended, Now.tag, Now.cfg, ok)]
    BY DEF AwaitStop
  <2> HIDE DEF ended, ok
  <2>4. QED
    BY <1>1, <2>2, <2>3, AfterStopRuntime DEF IInv, TypeOK
<1>5. QED
  BY <1>3, <1>4 DEF AwaitStop, IInv, TypeOK

LEMMA ReconcileKeeps == ASSUME IInv, Reconcile PROVE IInv'
<1> DEFINE p == Now.of
           after == LateAnswer(p)
<1>1. p \in Providers /\ Doing("reconcile") /\ "reconcile" \notin Waits
  <2>1. Doing("reconcile")
    BY DEF Reconcile
  <2>2. QED
    BY <2>1, HeadIsAStep DEF Waits
<1>2. /\ call[p] \in Calls /\ Accounted(call[p], FALSE) /\ rt[p] \in Runtimes
  BY <1>1, NotAwaited DEF IInv, TypeOK
<1>3. CASE ~call[p].pending \/ call[p].stage \in {"queued", "running"}
  <2>1. Then(<<>>) /\ UNCHANGED <<rt, call>>
    BY <1>3 DEF Reconcile
  <2>2. QED
    BY <1>1, <2>1, EmptyIsPlain, QuietStep DEF Reconcile, IInv, TypeOK
<1>4. CASE call[p].pending /\ call[p].stage = "dead"
  <2> DEFINE c == [call[p] EXCEPT !.pending = FALSE]
             r == [(IF Enabled(rt[p].plan) THEN RetryNow(Failed(rt[p]), "Start")
                    ELSE ClearRetry(Failed(rt[p]))) EXCEPT !.started = FALSE]
  <2>1. c \in Calls /\ Accounted(c, FALSE)
    BY <1>2, <1>4 DEF Calls, Accounted
  <2>2. r \in Runtimes
    <3>1. RetryNow(Failed(rt[p]), "Start") \in Runtimes /\ ClearRetry(Failed(rt[p])) \in Runtimes
      BY <1>2 DEF Runtimes, RetryNow, ClearRetry, Failed
    <3>2. \A x \in Runtimes : [x EXCEPT !.started = FALSE] \in Runtimes
      BY DEF Runtimes
    <3>3. QED
      BY <3>1, <3>2
  <2>3. call' = [call EXCEPT ![p] = c] /\ rt' = [rt EXCEPT ![p] = r] /\ Then(<<>>)
    BY <1>4 DEF Reconcile
  <2> HIDE DEF c, r
  <2>4. CallsInOrder' /\ call' \in [Providers -> Calls]
    BY <1>1, <2>1, <2>3, EmptyIsPlain, AnswerStep
  <2>5. QED
    BY <1>1, <2>2, <2>3, <2>4 DEF Reconcile, IInv, TypeOK
<1>5. CASE call[p].pending /\ call[p].stage \notin {"queued", "running", "dead"}
  <2> DEFINE first == IF after.news THEN <<SyncStep>> ELSE <<>>
             x == StepWith("cleanup", p, NoPlan, "", after.cleanup)
             second == IF after.news \/ after.cleanup THEN <<x>> ELSE <<>>
  <2>1. call[p].op # "None"
    BY <1>2, <1>5 DEF Accounted, Calls
  <2>2. after.rt \in Runtimes /\ after.cleanup \in BOOLEAN
    BY <1>1, <2>1, LateAnswerIsTyped DEF IInv
  <2>3. /\ call' = [call EXCEPT ![p] = NoCall]
        /\ rt' = [rt EXCEPT ![p] = after.rt]
        /\ Then(first \o second)
    BY <1>5 DEF Reconcile
  <2> HIDE DEF after
  <2>4. x \in Plain
    BY <1>1, <2>2, PlainStep, NoPlanIsAPlan
  <2> HIDE DEF x
  <2>5. first \in Seq(Plain) /\ second \in Seq(Plain)
    BY <2>4, SyncAlone, EmptyIsPlain
  <2>6. first \o second \in Seq(Plain)
    BY <2>5
  <2> HIDE DEF first, second
  <2>7. CallsInOrder' /\ call' \in [Providers -> Calls]
    BY <1>1, <2>3, <2>6, NoCallIsDone, AnswerStep
  <2>8. QED
    BY <1>1, <2>2, <2>3, <2>7 DEF Reconcile, IInv, TypeOK
<1>6. QED
  BY <1>3, <1>4, <1>5

-----------------------------------------------------------------------------
(* The workers and the passing of time.                                    *)

\* The call moves on in the worker; it is as pending, and as awaited, as before.
LEMMA WorkerStep ==
  ASSUME IInv, NEW p \in Providers, NEW c \in Calls, call' = [call EXCEPT ![p] = c],
         call[p].stage \in {"queued", "running"},
         c.op = call[p].op, c.pending = call[p].pending, c.stage # "idle",
         UNCHANGED agenda
  PROVE  CallsInOrder' /\ call' \in [Providers -> Calls]
<1>1. call \in [Providers -> Calls] /\ agenda \in Stacks
  BY DEF IInv, CallsInOrder, TypeOK
<1>2. call' \in [Providers -> Calls] /\ call'[p] = c
      /\ \A q \in Providers \ {p} : call'[q] = call[q]
  BY <1>1
<1>3. \A q \in Providers : Awaited(q)' <=> Awaited(q)
  BY DEF Awaited
<1>4. \A q \in Providers : Accounted(call[q], Awaited(q))'
  BY <1>2, <1>3 DEF IInv, CallsInOrder, Accounted
<1>5. ASSUME Doing("attempt")'
      PROVE  ~(call[Head(agenda).of].pending)'
  <2>1. Doing("attempt") /\ ~call[Now.of].pending /\ Now.of \in Providers
    BY <1>5, HeadIsAStep DEF Doing, Now, IInv, CallsInOrder
  <2>2. call'[Now.of].pending = call[Now.of].pending
    BY <1>2, <2>1
  <2>3. QED
    BY <2>1, <2>2 DEF Now
<1>6. QED
  BY <1>1, <1>2, <1>4, <1>5 DEF CallsInOrder

LEMMA EffectsAreTyped ==
  ASSUME IInv, NEW p \in Providers, call[p].stage = "running", NEW effect \in Effects(p)
  PROVE  /\ effect.result \in {"ok", "failed", "lost", "timeout"}
         /\ effect.own \in SUBSET Categories /\ effect.held \in Plans
<1>1. /\ call[p].op \in Operations /\ call[p].cfg \in Plans
      /\ own[p] \in SUBSET Categories /\ held[p] \in Plans
  BY DEF IInv, CallsInOrder, Accounted, TypeOK, Calls
<1>2. Errors(p) \subseteq {"failed", "timeout"} /\ NoPlan \in Plans
  BY NoPlanIsAPlan DEF Errors
<1>3. CASE call[p].op = "Probe"
  BY <1>1, <1>2, <1>3 DEF Effects
<1>4. CASE call[p].op \in {"Start", "Reconfigure"}
  BY <1>1, <1>2, <1>4 DEF Effects
<1>5. CASE call[p].op = "Stop"
  BY <1>1, <1>2, <1>5 DEF Effects
<1>6. CASE call[p].op = "Sample"
  BY <1>1, <1>2, <1>6 DEF Effects
<1>7. QED
  BY <1>1, <1>3, <1>4, <1>5, <1>6 DEF Operations

LEMMA WorkerKeeps ==
  ASSUME IInv, NEW p \in Providers, Worker(p) \/ WorkerDies(p)
  PROVE  IInv'
<1>1. call[p] \in Calls
  BY DEF IInv, TypeOK
<1>2. CASE WorkerCalls(p)
  <2> DEFINE c == [call[p] EXCEPT !.stage = "running"]
  <2>1. c \in Calls /\ c.op = call[p].op /\ c.pending = call[p].pending /\ c.stage # "idle"
    BY <1>1 DEF Calls
  <2>2. call[p].stage \in {"queued", "running"} /\ call' = [call EXCEPT ![p] = c]
    BY <1>2 DEF WorkerCalls
  <2> HIDE DEF c
  <2>3. CallsInOrder' /\ call' \in [Providers -> Calls]
    BY <1>2, <2>1, <2>2, WorkerStep DEF WorkerCalls
  <2>4. QED
    BY <1>2, <2>3 DEF WorkerCalls, IInv, TypeOK
<1>3. CASE WorkerRefuses(p)
  <2> DEFINE c == [call[p] EXCEPT !.stage = "answered", !.result = "timeout"]
  <2>1. c \in Calls /\ c.op = call[p].op /\ c.pending = call[p].pending /\ c.stage # "idle"
    BY <1>1 DEF Calls
  <2>2. call[p].stage \in {"queued", "running"} /\ call' = [call EXCEPT ![p] = c]
    BY <1>1, <1>3 DEF WorkerRefuses, IInv, TypeOK
  <2> HIDE DEF c
  <2>3. CallsInOrder' /\ call' \in [Providers -> Calls]
    BY <1>3, <2>1, <2>2, WorkerStep DEF WorkerRefuses
  <2>4. QED
    BY <1>3, <2>3 DEF WorkerRefuses, IInv, TypeOK
<1>4. CASE WorkerAnswers(p)
  <2>1. PICK effect \in Effects(p) : WorkerAnswersWith(p, effect)
    BY <1>4 DEF WorkerAnswers
  <2>2. call[p].stage = "running"
    BY <2>1 DEF WorkerAnswersWith
  <2>3. /\ effect.result \in {"ok", "failed", "lost", "timeout"}
        /\ effect.own \in SUBSET Categories /\ effect.held \in Plans
    BY <2>2, EffectsAreTyped
  <2> DEFINE c == [call[p] EXCEPT !.stage = "answered", !.result = effect.result]
  <2>4. c \in Calls /\ c.op = call[p].op /\ c.pending = call[p].pending /\ c.stage # "idle"
    BY <1>1, <2>3 DEF Calls
  <2>5. call' = [call EXCEPT ![p] = c]
    BY <2>1 DEF WorkerAnswersWith, IInv, TypeOK
  <2>6. own' \in [Providers -> SUBSET Categories] /\ held' \in [Providers -> Plans]
    BY <2>1, <2>3 DEF WorkerAnswersWith, IInv, TypeOK
  <2> HIDE DEF c
  <2>7. CallsInOrder' /\ call' \in [Providers -> Calls]
    BY <2>1, <2>2, <2>4, <2>5, WorkerStep DEF WorkerAnswersWith
  <2>8. QED
    BY <2>1, <2>6, <2>7 DEF WorkerAnswersWith, IInv, TypeOK
<1>5. CASE WorkerDies(p)
  <2> DEFINE c == [call[p] EXCEPT !.stage = "dead"]
  <2>1. c \in Calls /\ c.op = call[p].op /\ c.pending = call[p].pending /\ c.stage # "idle"
    BY <1>1 DEF Calls
  <2>2. call[p].stage \in {"queued", "running"} /\ call' = [call EXCEPT ![p] = c]
    BY <1>5 DEF WorkerDies
  <2>3. held' \in [Providers -> Plans]
    BY <1>5, NoPlanIsAPlan DEF WorkerDies, IInv, TypeOK
  <2> HIDE DEF c
  <2>4. CallsInOrder' /\ call' \in [Providers -> Calls]
    BY <1>5, <2>1, <2>2, WorkerStep DEF WorkerDies
  <2>5. QED
    BY <1>5, <2>3, <2>4 DEF WorkerDies, IInv, TypeOK
<1>6. QED
  BY <1>2, <1>3, <1>4, <1>5 DEF Worker

LEMMA TimeKeeps ==
  ASSUME IInv, DeadlinePasses \/ \E p \in Providers : RetryFallsDue(p) \/ SampleFallsDue(p)
  PROVE  IInv'
<1>1. UNCHANGED <<call, agenda>>
  BY DEF DeadlinePasses, RetryFallsDue, SampleFallsDue
<1>2. CallsInOrder'
  BY <1>1 DEF IInv, CallsInOrder, Accounted, Awaited, Doing
<1>3. CASE DeadlinePasses
  BY <1>2, <1>3 DEF DeadlinePasses, IInv, TypeOK
<1>4. ASSUME NEW p \in Providers, RetryFallsDue(p)
      PROVE  IInv'
  <2>1. rt[p] \in Runtimes /\ \A x \in Runtimes : [x EXCEPT !.retryDue = TRUE] \in Runtimes
    BY DEF IInv, TypeOK, Runtimes
  <2>2. QED
    BY <1>2, <1>4, <2>1 DEF RetryFallsDue, IInv, TypeOK
<1>5. ASSUME NEW p \in Providers, SampleFallsDue(p)
      PROVE  IInv'
  <2>1. rt[p] \in Runtimes /\ \A x \in Runtimes : [x EXCEPT !.sampleDue = TRUE] \in Runtimes
    BY DEF IInv, TypeOK, Runtimes
  <2>2. QED
    BY <1>2, <1>5, <2>1 DEF SampleFallsDue, IInv, TypeOK
<1>6. QED
  BY <1>3, <1>4, <1>5

-----------------------------------------------------------------------------
(* The theorems.                                                           *)

LEMMA Initially == ASSUME Init PROVE IInv
<1>1. TypeOK
  BY NoPlanIsAPlan, NoCallIsDone DEF Init, TypeOK, Runtimes
<1>2. \A p \in Providers : Accounted(call[p], Awaited(p))
  BY NoCallIsDone DEF Init, Accounted
<1>3. QED
  BY <1>1, <1>2, EmptyStack DEF Init, IInv, CallsInOrder, Doing

LEMMA StepKeeps == ASSUME IInv, [Next]_vars PROVE IInv'
<1>1. CASE UpdateSettings \/ SampleDue \/ Pause \/ Resume \/ StopAll
  BY <1>1, UpdateSettingsKeeps, SampleDueKeeps, PauseKeeps, ResumeKeeps, StopAllKeeps
<1>2. CASE Host
  BY <1>2, DesireKeeps, ApplyDesiredKeeps, SyncKeeps, RenewKeeps, ProbeKeeps, ApplyKeeps,
     SettleKeeps, ShedKeeps, RetryKeeps, SendProbeKeeps, SendStartKeeps, SendSampleKeeps,
     StopKeeps, AwaitProbeKeeps, AwaitStartKeeps, AwaitSampleKeeps, AwaitStopKeeps,
     ReconcileKeeps, CleanupKeeps
     DEF Host
<1>3. CASE \E p \in Providers : Worker(p) \/ WorkerDies(p)
  BY <1>3, WorkerKeeps
<1>4. CASE DeadlinePasses \/ \E p \in Providers : RetryFallsDue(p) \/ SampleFallsDue(p)
  BY <1>4, TimeKeeps
<1>5. CASE UNCHANGED vars
  BY <1>5 DEF vars, IInv, TypeOK, CallsInOrder, Accounted, Awaited, Doing
<1>6. QED
  BY <1>1, <1>2, <1>3, <1>4, <1>5 DEF Next

\* The shape of the state, whatever the providers answer and however the loops nest.
THEOREM HostIsTyped == Spec => []TypeOK
<1>1. IInv => TypeOK
  BY DEF IInv
<1>2. QED
  BY <1>1, Initially, StepKeeps, PTL DEF Spec

\* The only steps that put a call in a queue are those that send one.
Sends == SendProbe \/ SendStart \/ SendSample \/ Stop
Queues(p) == call[p].stage # "queued" /\ call'[p].stage = "queued"

LEMMA OnlySendersQueue ==
  ASSUME IInv, [Next]_vars, ~Sends, NEW p \in Providers
  PROVE  ~Queues(p)
<1>1. call \in [Providers -> Calls] /\ \A q \in Providers : call[q] \in Calls
  BY DEF IInv, TypeOK
<1>2. ASSUME UNCHANGED call
      PROVE  ~Queues(p)
  BY <1>2 DEF Queues
<1>3. ASSUME NEW q \in Providers, NEW c \in Calls, call' = [call EXCEPT ![q] = c],
             c.stage = "queued" => call[q].stage = "queued"
      PROVE  ~Queues(p)
  BY <1>1, <1>3 DEF Queues
<1>4. \A x \in Calls : /\ \A b \in BOOLEAN : [x EXCEPT !.stale = b] \in Calls
                       /\ \A b \in BOOLEAN : [x EXCEPT !.stale = b].stage = x.stage
                       /\ x.stale \in BOOLEAN /\ x.pending \in BOOLEAN
  BY DEF Calls
<1>5. CASE UpdateSettings \/ SampleDue \/ Pause \/ Resume \/ StopAll
  BY <1>2, <1>5 DEF UpdateSettings, SampleDue, Pause, Resume, StopAll
<1>6. CASE Desire \/ ApplyDesired \/ Sync \/ Settle \/ Shed \/ Retry \/ Cleanup
  BY <1>2, <1>6 DEF Desire, ApplyDesired, Sync, Settle, Shed, Retry, Cleanup
<1>7. CASE Renew \/ Probe \/ Apply
  <2> DEFINE q == Now.of
             older == call[q].stale \/ (call[q].pending /\ call[q].op # "Probe")
             older2 == call[q].stale \/ (call[q].pending /\ call[q].op = "Probe")
  <2>1. q \in Providers
    <3>1. Doing("renew") \/ Doing("probe") \/ Doing("apply")
      BY <1>7 DEF Renew, Probe, Apply
    <3>2. QED
      BY <3>1, HeadIsAStep
  <2>2. older \in BOOLEAN /\ older2 \in BOOLEAN
    BY <1>1, <1>4, <2>1
  <2>3. \/ UNCHANGED call
        \/ call' = [call EXCEPT ![q] = [call[q] EXCEPT !.stale = older]]
        \/ call' = [call EXCEPT ![q] = [call[q] EXCEPT !.stale = older2]]
    BY <1>1, <1>7, <2>1 DEF Renew, Probe, Apply, NewGeneration
  <2> HIDE DEF older, older2
  <2>4. \A b \in BOOLEAN : /\ [call[q] EXCEPT !.stale = b] \in Calls
                           /\ [call[q] EXCEPT !.stale = b].stage = call[q].stage
    BY <1>1, <1>4, <2>1
  <2>5. QED
    BY <1>2, <1>3, <2>1, <2>2, <2>3, <2>4
<1>8. CASE AwaitProbe \/ AwaitStart \/ AwaitSample \/ AwaitStop
  <2> DEFINE q == Now.of
             GaveUp(b) == [call[q] EXCEPT !.pending = TRUE, !.cancelled = TRUE, !.accounted = b]
  <2>1. q \in Providers
    <3>1. Doing("awaitProbe") \/ Doing("awaitStart") \/ Doing("awaitSample") \/ Doing("awaitStop")
      BY <1>8 DEF AwaitProbe, AwaitStart, AwaitSample, AwaitStop
    <3>2. QED
      BY <3>1, HeadIsAStep
  <2>2. \/ call' = [call EXCEPT ![q] = NoCall]
        \/ UNCHANGED call
        \/ \E b \in BOOLEAN : call' = [call EXCEPT ![q] = GaveUp(b)]
    BY <1>1, <1>8, <2>1 DEF AwaitProbe, AwaitStart, AwaitSample, AwaitStop, GivenUp
  <2>3. \A b \in BOOLEAN : GaveUp(b) \in Calls /\ GaveUp(b).stage = call[q].stage
    BY <1>1, <2>1 DEF Calls
  <2>4. NoCall \in Calls /\ NoCall.stage = "idle"
    BY NoCallIsDone DEF NoCall
  <2> HIDE DEF GaveUp
  <2>5. QED
    BY <1>2, <1>3, <2>1, <2>2, <2>3, <2>4
<1>9. CASE Reconcile
  <2> DEFINE q == Now.of
             done == [call[q] EXCEPT !.pending = FALSE]
  <2>1. Doing("reconcile")
    BY <1>9 DEF Reconcile
  <2>2. q \in Providers
    BY <2>1, HeadIsAStep
  <2>3. call' \in {call, [call EXCEPT ![q] = done], [call EXCEPT ![q] = NoCall]}
    BY <1>1, <1>9, <2>2 DEF Reconcile
  <2>4. done \in Calls /\ done.stage = call[q].stage
    BY <1>1, <2>2 DEF Calls
  <2>5. NoCall \in Calls /\ NoCall.stage = "idle"
    BY NoCallIsDone DEF NoCall
  <2> HIDE DEF done
  <2>6. QED
    BY <1>2, <1>3, <2>2, <2>3, <2>4, <2>5
<1>10. ASSUME NEW q \in Providers, Worker(q) \/ WorkerDies(q)
       PROVE  ~Queues(p)
  <2> SUFFICES call'[p] = call[p] \/ call'[p].stage # "queued"
    BY DEF Queues
  <2>1. CASE WorkerCalls(q)
    BY <1>1, <2>1 DEF WorkerCalls, Calls
  <2>2. CASE WorkerRefuses(q)
    BY <1>1, <2>2 DEF WorkerRefuses, Calls
  <2>3. ASSUME NEW effect, WorkerAnswersWith(q, effect)
        PROVE  call'[p] = call[p] \/ call'[p].stage # "queued"
    BY <1>1, <2>3 DEF WorkerAnswersWith, Calls
  <2>4. CASE WorkerDies(q)
    BY <1>1, <2>4 DEF WorkerDies, Calls
  <2>5. QED
    BY <1>10, <2>1, <2>2, <2>3, <2>4 DEF Worker, WorkerAnswers
<1>11. CASE DeadlinePasses \/ \E q \in Providers : RetryFallsDue(q) \/ SampleFallsDue(q)
  BY <1>2, <1>11 DEF DeadlinePasses, RetryFallsDue, SampleFallsDue
<1>12. CASE UNCHANGED vars
  BY <1>2, <1>12 DEF vars
<1>13. QED
  BY <1>5, <1>6, <1>7, <1>8, <1>9, <1>10, <1>11, <1>12 DEF Next, Host, Sends

\* A sender has made sure that no call is outstanding, and nothing waits for one.
LEMMA SendersFindNoCall ==
  ASSUME IInv, Sends, NEW p \in Providers, Queues(p)
  PROVE  call[p].stage = "idle"
<1> DEFINE q == Now.of
<1>1. \E what : Doing(what) /\ what \notin Waits /\ q \in Providers
  <2>1. \E what \in {"sendProbe", "attempt", "sample", "stop"} : Doing(what)
    BY DEF Sends, SendProbe, SendStart, SendSample, Stop
  <2>2. QED
    BY <2>1, HeadIsAStep DEF Waits
<1>2. call[q] \in Calls /\ Accounted(call[q], FALSE) /\ call \in [Providers -> Calls]
  BY <1>1, NotAwaited DEF IInv, TypeOK
<1>3. \/ UNCHANGED call
      \/ call' = [call EXCEPT ![q].cancelled = TRUE]
      \/ ~call[q].pending /\ call[q].stage # "dead" /\ call' = [call EXCEPT ![q] = call'[q]]
  <2>1. ASSUME SendStart
        PROVE  ~call[q].pending
    BY <2>1 DEF SendStart, IInv, CallsInOrder, Now
  <2>2. ASSUME NEW op, NEW cfg, call' = NewCall(q, op, cfg)
        PROVE  UNCHANGED call \/ (call[q].stage # "dead" /\ call' = [call EXCEPT ![q] = call'[q]])
    BY <1>1, <1>2, <2>2 DEF NewCall
  <2>3. CASE SendProbe
    <3>1. UNCHANGED call \/ (~call[q].pending /\ call' = NewCall(q, "Probe", NoPlan))
      BY <2>3 DEF SendProbe, Busy
    <3>2. QED
      BY <2>2, <3>1
  <2>4. CASE SendStart
    <3>1. call' = NewCall(q, Now.tag, Now.cfg)
      BY <2>4 DEF SendStart
    <3>2. QED
      BY <2>1, <2>2, <2>4, <3>1
  <2>5. CASE SendSample
    <3>1. UNCHANGED call \/ (~call[q].pending /\ call' = NewCall(q, "Sample", NoPlan))
      BY <2>5 DEF SendSample, Busy
    <3>2. QED
      BY <2>2, <3>1
  <2>6. CASE Stop
    <3>1. \/ UNCHANGED call
          \/ call' = [call EXCEPT ![q].cancelled = TRUE]
          \/ ~call[q].pending /\ call' = NewCall(q, "Stop", NoPlan)
      BY <2>6 DEF Stop, Busy
    <3>2. QED
      BY <2>2, <3>1
  <2>7. QED
    BY <2>3, <2>4, <2>5, <2>6 DEF Sends
<1>4. p = q /\ ~call[q].pending /\ call[q].stage # "dead"
  BY <1>1, <1>2, <1>3 DEF Queues, Calls
<1>5. call[q].stage \notin {"queued", "running", "answered"}
  BY <1>2, <1>4 DEF Accounted
<1>6. QED
  BY <1>2, <1>4, <1>5 DEF Calls

\* No call reaches a worker that is busy with, or still owes the answer to, an earlier
\* one: what the host has given up on, it does not call again before it is answered.
THEOREM CallsAreNeverStacked == Spec => OneCallAtATime
<1>1. ASSUME IInv, [Next]_vars, NEW p \in Providers, Queues(p)
      PROVE  call[p].stage = "idle"
  BY <1>1, OnlySendersQueue, SendersFindNoCall
<1>2. IInv /\ [Next]_vars =>
        [\A p \in Providers :
           call[p].stage # "queued" /\ call'[p].stage = "queued" => call[p].stage = "idle"]_vars
  BY <1>1 DEF Queues
<1>3. QED
  BY <1>2, Initially, StepKeeps, PTL DEF Spec, OneCallAtATime

-----------------------------------------------------------------------------
(* The plans: the host always comes back with the plan that is what the    *)
(* user wants of what the providers support, for any number of them.       *)

(* The call stack after a step.                                            *)

\* Where each step of the new stack comes from.
LEMMA Restacked ==
  ASSUME NEW a \in Seq(Steps), a # <<>>, NEW s \in Seq(Steps), NEW b, b = s \o Tail(a)
  PROVE  /\ Len(a) \in Nat \ {0} /\ Len(s) \in Nat /\ Len(b) = Len(s) + Len(a) - 1
         /\ \A i \in 1 .. Len(s) : i \in 1 .. Len(b) /\ b[i] = s[i]
         /\ \A i \in 1 .. Len(b) :
              i \notin 1 .. Len(s) =>
                i - Len(s) + 1 \in 2 .. Len(a) /\ b[i] = a[i - Len(s) + 1]
         /\ \A i \in 2 .. Len(a) :
              i - 1 + Len(s) \in 1 .. Len(b) /\ b[i - 1 + Len(s)] = a[i]
<1>1. /\ Len(a) \in Nat /\ Len(a) # 0 /\ Tail(a) \in Seq(Steps) /\ Len(Tail(a)) = Len(a) - 1
      /\ \A i \in 1 .. Len(a) - 1 : Tail(a)[i] = a[i + 1]
  BY EmptySeq
<1> DEFINE t == Tail(a)
<1>2. t \in Seq(Steps) /\ Len(t) = Len(a) - 1 /\ \A i \in 1 .. Len(t) : t[i] = a[i + 1]
  BY <1>1
<1> HIDE DEF t
<1>3. /\ Len(s) \in Nat /\ Len(t) \in Nat /\ Len(s \o t) = Len(s) + Len(t)
      /\ \A i \in 1 .. Len(s) + Len(t) : (s \o t)[i] = IF i <= Len(s) THEN s[i] ELSE t[i - Len(s)]
  <2>1. t \in Seq(Steps)
    BY <1>2
  <2>2. QED
    BY <2>1
<1>4. b = s \o t
  BY DEF t
<1>5. Len(b) = Len(s) + Len(a) - 1
  BY <1>1, <1>2, <1>3, <1>4
<1>6. \A i \in 1 .. Len(s) : i \in 1 .. Len(b) /\ b[i] = s[i]
  BY <1>1, <1>2, <1>3, <1>4
<1>7. ASSUME NEW i \in 1 .. Len(b), i \notin 1 .. Len(s)
      PROVE  i - Len(s) + 1 \in 2 .. Len(a) /\ b[i] = a[i - Len(s) + 1]
  <2>1. i \in 1 .. Len(s) + Len(t) /\ ~(i <= Len(s)) /\ i - Len(s) \in 1 .. Len(t)
    BY <1>3, <1>4, <1>7
  <2>2. b[i] = t[i - Len(s)]
    BY <1>3, <1>4, <2>1
  <2>3. QED
    BY <1>2, <1>3, <2>1, <2>2
<1>8. ASSUME NEW i \in 2 .. Len(a)
      PROVE  i - 1 + Len(s) \in 1 .. Len(b) /\ b[i - 1 + Len(s)] = a[i]
  <2>1. i - 1 \in 1 .. Len(t) /\ t[i - 1] = a[(i - 1) + 1] /\ (i - 1) + 1 = i
    BY <1>1, <1>2
  <2>2. /\ i - 1 + Len(s) \in 1 .. Len(s) + Len(t) /\ ~(i - 1 + Len(s) <= Len(s))
        /\ i - 1 + Len(s) - Len(s) = i - 1
    BY <1>3, <2>1
  <2>3. QED
    BY <1>3, <1>4, <2>1, <2>2
<1>9. QED
  BY <1>1, <1>3, <1>5, <1>6, <1>7, <1>8

LEMMA OneMore ==
  ASSUME NEW S, NEW b \in Seq(S), NEW x \in S
  PROVE  /\ b \o <<x>> \in Seq(S) /\ Len(b \o <<x>>) = Len(b) + 1
         /\ \A i \in 1 .. Len(b) : (b \o <<x>>)[i] = b[i]
         /\ (b \o <<x>>)[Len(b) + 1] = x
OBVIOUS

\* The fields of a step.
LEMMA Fields ==
  /\ \A do, p, cfg, tag, flag :
       /\ StepWith(do, p, cfg, tag, flag).do = do /\ StepWith(do, p, cfg, tag, flag).of = p
       /\ StepWith(do, p, cfg, tag, flag).cfg = cfg /\ StepWith(do, p, cfg, tag, flag).tag = tag
       /\ StepWith(do, p, cfg, tag, flag).flag = flag
  /\ \A do, p : /\ Step(do, p).do = do /\ Step(do, p).of = p /\ Step(do, p).cfg = NoPlan
                 /\ Step(do, p).flag = FALSE
  /\ \A p, why, cfg : /\ StopStep(p, why, cfg).do = "stop" /\ StopStep(p, why, cfg).of = p
                        /\ StopStep(p, why, cfg).cfg = cfg /\ StopStep(p, why, cfg).tag = why
  /\ \A p, cfg, force : /\ ApplyStep(p, cfg, force).do = "apply" /\ ApplyStep(p, cfg, force).of = p
                          /\ ApplyStep(p, cfg, force).cfg = cfg
                          /\ ApplyStep(p, cfg, force).flag = force
  /\ \A p, cfg, op : /\ AttemptStep(p, cfg, op).do = "attempt" /\ AttemptStep(p, cfg, op).of = p
                       /\ AttemptStep(p, cfg, op).cfg = cfg /\ AttemptStep(p, cfg, op).tag = op
  /\ \A p, cfg : /\ DesireStep(p, cfg).do = "desire" /\ DesireStep(p, cfg).of = p
                   /\ DesireStep(p, cfg).cfg = cfg
  /\ SyncStep.do = "sync" /\ Step("applyDesired", "").do = "applyDesired"
BY DEF StepWith, Step, StopStep, ApplyStep, AttemptStep, DesireStep, SyncStep

LEMMA Single ==
  ASSUME NEW S, NEW x \in S
  PROVE  <<x>> \in Seq(S) /\ Len(<<x>>) = 1 /\ <<x>>[1] = x
OBVIOUS

LEMMA OneForOne ==
  ASSUME NEW a \in Seq(Steps), a # <<>>, NEW x \in Steps, NEW b, b = <<x>> \o Tail(a)
  PROVE  /\ Len(a) \in Nat \ {0} /\ Len(b) = Len(a) /\ Head(b) = x
         /\ 2 \in 1 .. Len(a) => 2 \in 1 .. Len(b) /\ b[2] = a[2]
<1> DEFINE s == <<x>>
<1>1. s \in Seq(Steps) /\ Len(s) = 1 /\ s[1] = x /\ b = s \o Tail(a)
  OBVIOUS
<1> HIDE DEF s
<1>2. /\ Len(a) \in Nat \ {0} /\ Len(b) = Len(s) + Len(a) - 1
      /\ \A i \in 1 .. Len(s) : b[i] = s[i]
      /\ \A i \in 2 .. Len(a) : b[i - 1 + Len(s)] = a[i]
  BY <1>1, Restacked
<1>3. Len(b) = Len(a) /\ b[1] = x /\ \A i \in 2 .. Len(a) : b[i] = a[i]
  BY <1>1, <1>2
<1>4. 2 \in 1 .. Len(a) => 2 \in 1 .. Len(b) /\ b[2] = a[2]
  BY <1>2, <1>3
<1>5. QED
  BY <1>2, <1>3, <1>4

\* Each step of the user's new settings is followed by the next, or the last.
Followed(a, next) ==
  \A i \in 1 .. Len(a) :
    a[i].do = "desire" => i + 1 \in 1 .. Len(a) /\ a[i + 1].do \in next

LEMMA FollowedRest ==
  ASSUME NEW next, NEW a \in Seq(Steps), a # <<>>, Followed(a, next), NEW s \in Seq(Steps),
         \A i \in 1 .. Len(s) : s[i].do # "desire", NEW b, b = s \o Tail(a)
  PROVE  Followed(b, next)
<1>1. /\ Len(a) \in Nat \ {0} /\ Len(s) \in Nat /\ Len(b) = Len(s) + Len(a) - 1
      /\ \A i \in 1 .. Len(s) : b[i] = s[i]
      /\ \A i \in 1 .. Len(b) :
           i \notin 1 .. Len(s) => i - Len(s) + 1 \in 2 .. Len(a) /\ b[i] = a[i - Len(s) + 1]
  BY Restacked
<1> SUFFICES ASSUME NEW i \in 1 .. Len(b), b[i].do = "desire"
             PROVE  i + 1 \in 1 .. Len(b) /\ b[i + 1].do \in next
  BY DEF Followed
<1>2. i \notin 1 .. Len(s)
  BY <1>1
<1> DEFINE k == i - Len(s) + 1
<1>3. k \in 2 .. Len(a) /\ a[k].do = "desire" /\ i = k - 1 + Len(s)
  BY <1>1, <1>2
<1> HIDE DEF k
<1>4. k + 1 \in 1 .. Len(a) /\ a[k + 1].do \in next
  BY <1>1, <1>3 DEF Followed
<1>5. i + 1 \in 1 .. Len(b) /\ i + 1 \notin 1 .. Len(s) /\ i + 1 - Len(s) + 1 = k + 1
  BY <1>1, <1>3, <1>4
<1>6. QED
  BY <1>1, <1>4, <1>5

-----------------------------------------------------------------------------
(* What the loops over the providers consist of.                           *)

Polls == {Step("reconcile", p) : p \in Providers}
Applies(next, force) == {ApplyStep(p, next[p], force) : p \in Providers}

LEMMA PollsArePolls == ForEach(1, LAMBDA p : <<Step("reconcile", p)>>) \in Seq(Polls)
<1> DEFINE steps == [p \in Providers |-> Step("reconcile", p)]
<1>1. steps \in [Providers -> Polls]
  BY DEF Polls
<1>2. ForEach(1, LAMBDA p : <<Step("reconcile", p)>>)
        = [i \in 1 .. 1 * Cardinality(Providers) |->
            <<steps[Order[((i - 1) \div 1) + 1]]>>[((i - 1) % 1) + 1]]
  BY RoundsAreOfProviders DEF ForEach
<1> HIDE DEF steps
<1>3. QED
  BY <1>1, <1>2, RoundsOfOne, Zenon

LEMMA AppliesAreApplies ==
  ASSUME NEW next \in [Providers -> Plans], NEW force \in BOOLEAN
  PROVE  ForEach(1, LAMBDA p : <<ApplyStep(p, next[p], force)>>) \in Seq(Applies(next, force))
<1> DEFINE steps == [p \in Providers |-> ApplyStep(p, next[p], force)]
<1>1. steps \in [Providers -> Applies(next, force)]
  BY DEF Applies
<1>2. ForEach(1, LAMBDA p : <<ApplyStep(p, next[p], force)>>)
        = [i \in 1 .. 1 * Cardinality(Providers) |->
            <<steps[Order[((i - 1) \div 1) + 1]]>>[((i - 1) % 1) + 1]]
  BY RoundsAreOfProviders DEF ForEach
<1> HIDE DEF steps
<1>3. QED
  BY <1>1, <1>2, RoundsOfOne, Zenon

LEMMA ApplyLoopApplies ==
  ASSUME NEW next \in [Providers -> Plans], NEW force \in BOOLEAN
  PROVE  ApplyLoop(next, force) \in Seq(Polls \union Applies(next, force))
<1>1. ApplyLoop(next, force) \in Seq(Applies(next, force)) \union Seq(Polls)
  BY AppliesAreApplies, PollsArePolls DEF ApplyLoop
<1>2. QED
  BY <1>1, SeqMonotonic

\* The loops, named.
ProbeLoop == ForEach(1, LAMBDA p : <<Step("probe", p)>>)
DesireLoop(wanted) == ForEach(1, LAMBDA p : <<DesireStep(p, wanted[p])>>)
SampleLoop == ForEach(3, LAMBDA p : <<Step("reconcile", p), Step("retry", p), Step("sample", p)>>)
StopLoop(why) ==
  ForEach(3, LAMBDA p : <<Step("renew", p), Step("reconcile", p), StopStep(p, why, NoPlan)>>)

LEMMA ProbesProbe ==
  ProbeLoop \in Seq({Step("probe", p) : p \in Providers})
<1> DEFINE steps == [p \in Providers |-> Step("probe", p)]
           S == {Step("probe", p) : p \in Providers}
<1>1. steps \in [Providers -> S]
  OBVIOUS
<1>2. ForEach(1, LAMBDA p : <<Step("probe", p)>>)
        = [i \in 1 .. 1 * Cardinality(Providers) |->
            <<steps[Order[((i - 1) \div 1) + 1]]>>[((i - 1) % 1) + 1]]
  BY RoundsAreOfProviders DEF ForEach
<1> HIDE DEF steps, S
<1>3. ForEach(1, LAMBDA p : <<Step("probe", p)>>) \in Seq(S)
  BY <1>1, <1>2, RoundsOfOne, Zenon
<1>4. QED
  BY <1>3 DEF S, ProbeLoop

LEMMA DesiresDesire ==
  ASSUME NEW wanted \in [Providers -> Plans]
  PROVE  DesireLoop(wanted) \in Seq({DesireStep(p, wanted[p]) : p \in Providers})
<1> DEFINE steps == [p \in Providers |-> DesireStep(p, wanted[p])]
           S == {DesireStep(p, wanted[p]) : p \in Providers}
<1>1. steps \in [Providers -> S]
  OBVIOUS
<1>2. ForEach(1, LAMBDA p : <<DesireStep(p, wanted[p])>>)
        = [i \in 1 .. 1 * Cardinality(Providers) |->
            <<steps[Order[((i - 1) \div 1) + 1]]>>[((i - 1) % 1) + 1]]
  BY RoundsAreOfProviders DEF ForEach
<1> HIDE DEF steps, S
<1>3. ForEach(1, LAMBDA p : <<DesireStep(p, wanted[p])>>) \in Seq(S)
  BY <1>1, <1>2, RoundsOfOne, Zenon
<1>4. QED
  BY <1>3 DEF S, DesireLoop

SampleSteps == Polls \union {Step("retry", p) : p \in Providers} \union {Step("sample", p) : p \in Providers}
StopSteps(why) == Polls \union {Step("renew", p) : p \in Providers}
                        \union {StopStep(p, why, NoPlan) : p \in Providers}

LEMMA SampleLoopSamples == SampleLoop \in Seq(SampleSteps)
<1> DEFINE first == [p \in Providers |-> Step("reconcile", p)]
           second == [p \in Providers |-> Step("retry", p)]
           third == [p \in Providers |-> Step("sample", p)]
<1>1. /\ first \in [Providers -> SampleSteps] /\ second \in [Providers -> SampleSteps]
      /\ third \in [Providers -> SampleSteps]
  BY DEF SampleSteps, Polls
<1>2. ForEach(3, LAMBDA p : <<Step("reconcile", p), Step("retry", p), Step("sample", p)>>)
        = [i \in 1 .. 3 * Cardinality(Providers) |->
            <<first[Order[((i - 1) \div 3) + 1]], second[Order[((i - 1) \div 3) + 1]],
              third[Order[((i - 1) \div 3) + 1]]>>[((i - 1) % 3) + 1]]
  BY RoundsAreOfProviders DEF ForEach
<1> HIDE DEF first, second, third
<1>3. [i \in 1 .. 3 * Cardinality(Providers) |->
         <<first[Order[((i - 1) \div 3) + 1]], second[Order[((i - 1) \div 3) + 1]],
           third[Order[((i - 1) \div 3) + 1]]>>[((i - 1) % 3) + 1]] \in Seq(SampleSteps)
  BY <1>1, LoopOfThree, ZenonT(60)
<1>4. QED
  BY <1>2, <1>3, Zenon DEF SampleLoop

\* What a step of a loop is.
LEMMA LoopKinds ==
  /\ \A s \in Polls : s.do = "reconcile"
  /\ \A s \in SampleSteps : s.do \in {"reconcile", "retry", "sample"}
  /\ \A why : \A s \in StopSteps(why) :
       s.do \in {"renew", "reconcile"} \/ (s.do = "stop" /\ s.tag = why)
  /\ \A next, force : \A s \in Applies(next, force) :
       s.do = "apply" /\ s.of \in Providers /\ s.cfg = next[s.of] /\ s.flag = force
<1>1. \A p : /\ Step("reconcile", p).do = "reconcile" /\ Step("retry", p).do = "retry"
             /\ Step("sample", p).do = "sample" /\ Step("renew", p).do = "renew"
  BY DEF Step, StepWith
<1>2. \A p, why : StopStep(p, why, NoPlan).do = "stop" /\ StopStep(p, why, NoPlan).tag = why
  BY DEF StopStep, StepWith
<1>3. \A p, next, force :
        /\ ApplyStep(p, next[p], force).do = "apply" /\ ApplyStep(p, next[p], force).of = p
        /\ ApplyStep(p, next[p], force).cfg = next[p] /\ ApplyStep(p, next[p], force).flag = force
  BY DEF ApplyStep, StepWith
<1>4. \A s \in Polls : s.do = "reconcile"
  BY <1>1, Zenon DEF Polls
<1>5. ASSUME NEW s \in SampleSteps
      PROVE  s.do \in {"reconcile", "retry", "sample"}
  <2>1. \/ s \in Polls \/ \E p \in Providers : s = Step("retry", p) \/ s = Step("sample", p)
    BY Zenon DEF SampleSteps
  <2>2. QED
    BY <1>1, <1>4, <2>1
<1>6. ASSUME NEW why, NEW s \in StopSteps(why)
      PROVE  s.do \in {"renew", "reconcile"} \/ (s.do = "stop" /\ s.tag = why)
  <2>1. \/ s \in Polls
        \/ \E p \in Providers : s = Step("renew", p) \/ s = StopStep(p, why, NoPlan)
    BY Zenon DEF StopSteps
  <2>2. QED
    BY <1>1, <1>2, <1>4, <2>1
<1>7. ASSUME NEW next, NEW force, NEW s \in Applies(next, force)
      PROVE  s.do = "apply" /\ s.of \in Providers /\ s.cfg = next[s.of] /\ s.flag = force
  <2>1. PICK p \in Providers : s = ApplyStep(p, next[p], force)
    BY Zenon DEF Applies
  <2>2. QED
    BY <2>1 DEF ApplyStep, StepWith
<1>8. QED
  BY <1>4, <1>5, <1>6, <1>7

LEMMA OrderIsOnto == \A p \in Providers : \E j \in 1 .. Cardinality(Providers) : Order[j] = p
<1> DEFINE k == Cardinality(Providers)
<1>1. k \in Nat /\ IsFiniteSet(Providers) /\ ExistsBijection(1 .. k, Providers)
  BY FS_CardinalityType, ProvidersAssumption
<1>2. \E f \in [1 .. k -> Providers] : IsInjective(f)
  BY <1>1 DEF ExistsBijection, Bijection, Injection, IsInjective
<1>3. Order \in [1 .. k -> Providers] /\ IsInjective(Order)
  BY <1>2 DEF Order, SetToSeq
<1>4. Order \in Injection(1 .. k, Providers)
  BY <1>3 DEF Injection, IsInjective
<1>5. IsFiniteSet(1 .. k) /\ Cardinality(1 .. k) = k
  BY <1>1, FS_Interval
<1>6. Order \in Surjection(1 .. k, Providers)
  <2> HIDE DEF k
  <2>1. Cardinality(1 .. k) = Cardinality(Providers)
    BY <1>5 DEF k
  <2>2. QED
    BY <1>1, <1>4, <2>1, FS_Injection, Zenon
<1>7. QED
  BY <1>6 DEF Surjection

LEMMA ThirdOfThree ==
  ASSUME NEW k \in Nat, NEW j \in 1 .. k
  PROVE  3 * j \in 1 .. 3 * k /\ ((3 * j - 1) \div 3) + 1 = j /\ ((3 * j - 1) % 3) + 1 = 3
<1>1. 3 * j \in 1 .. 3 * k
  OBVIOUS
<1>2. 3 * j - 1 = 3 * (j - 1) + 2 /\ j - 1 \in Nat
  OBVIOUS
<1>3. \A q \in Nat : (3 * q + 2) \div 3 = q /\ (3 * q + 2) % 3 = 2
  OBVIOUS
<1>4. QED
  BY <1>1, <1>2, <1>3

LEMMA StopLoopStops ==
  ASSUME NEW why
  PROVE  /\ StopLoop(why) \in Seq(StopSteps(why))
         /\ \A p \in Providers :
              \E i \in 1 .. Len(StopLoop(why)) : StopLoop(why)[i] = StopStep(p, why, NoPlan)
<1> DEFINE first == [p \in Providers |-> Step("renew", p)]
           second == [p \in Providers |-> Step("reconcile", p)]
           third == [p \in Providers |-> StopStep(p, why, NoPlan)]
           S == StopSteps(why)
           k == Cardinality(Providers)
           At(i) == <<first[Order[((i - 1) \div 3) + 1]], second[Order[((i - 1) \div 3) + 1]],
                      third[Order[((i - 1) \div 3) + 1]]>>[((i - 1) % 3) + 1]
<1>1. /\ first \in [Providers -> S] /\ second \in [Providers -> S] /\ third \in [Providers -> S]
  BY DEF StopSteps, Polls
<1>2. StopLoop(why) = [i \in 1 .. 3 * Cardinality(Providers) |->
            <<first[Order[((i - 1) \div 3) + 1]], second[Order[((i - 1) \div 3) + 1]],
              third[Order[((i - 1) \div 3) + 1]]>>[((i - 1) % 3) + 1]]
  BY RoundsAreOfProviders DEF ForEach, StopLoop
<1>3. \A p \in Providers : third[p] = StopStep(p, why, NoPlan)
  OBVIOUS
<1> HIDE DEF first, second, third, S
<1>4. [i \in 1 .. 3 * Cardinality(Providers) |->
         <<first[Order[((i - 1) \div 3) + 1]], second[Order[((i - 1) \div 3) + 1]],
           third[Order[((i - 1) \div 3) + 1]]>>[((i - 1) % 3) + 1]] \in Seq(S)
  BY <1>1, LoopOfThree, ZenonT(60)
<1>5. StopLoop(why) \in Seq(S) /\ StopLoop(why) = [i \in 1 .. 3 * k |-> At(i)]
  BY <1>2, <1>4
<1>6. k \in Nat
  BY OrderIsTyped
<1>7. ASSUME NEW j \in 1 .. k
      PROVE  At(3 * j) = third[Order[j]]
  <2> HIDE DEF k
  <2>1. ((3 * j - 1) \div 3) + 1 = j /\ ((3 * j - 1) % 3) + 1 = 3
    BY <1>6, ThirdOfThree
  <2>2. QED
    BY <2>1
<1>8. ASSUME NEW p \in Providers
      PROVE  \E i \in 1 .. Len(StopLoop(why)) : StopLoop(why)[i] = third[p]
  <2>1. PICK j \in 1 .. k : Order[j] = p
    BY OrderIsOnto
  <2>2. At(3 * j) = third[p]
    BY <1>7, <2>1
  <2> HIDE DEF k, At
  <2>3. 3 * j \in 1 .. 3 * k
    BY <1>6, ThirdOfThree
  <2>4. 3 * k \in Nat
    BY <1>6
  <2>5. Len(StopLoop(why)) = 3 * k /\ StopLoop(why)[3 * j] = At(3 * j)
    BY <1>5, <2>3, <2>4
  <2>6. QED
    BY <2>2, <2>3, <2>5
<1>9. QED
  BY <1>3, <1>5, <1>8 DEF S

LEMMA LengthOfLoops ==
  ASSUME NEW wanted
  PROVE  /\ Len(ProbeLoop) = Cardinality(Providers)
         /\ Len(DesireLoop(wanted)) = Cardinality(Providers)
<1> DEFINE k == Cardinality(Providers)
           Probing(i) == <<Step("probe", Order[((i - 1) \div 1) + 1])>>[((i - 1) % 1) + 1]
           Wanting(i) == <<DesireStep(Order[((i - 1) \div 1) + 1],
                                      wanted[Order[((i - 1) \div 1) + 1]])>>[((i - 1) % 1) + 1]
<1>1. k \in Nat
  BY OrderIsTyped
<1>2. /\ ProbeLoop = [i \in 1 .. 1 * k |-> Probing(i)]
      /\ DesireLoop(wanted) = [i \in 1 .. 1 * k |-> Wanting(i)]
  BY DEF ForEach, ProbeLoop, DesireLoop
<1> HIDE DEF k, Probing, Wanting
<1>3. Len([i \in 1 .. 1 * k |-> Probing(i)]) = k /\ Len([i \in 1 .. 1 * k |-> Wanting(i)]) = k
  BY <1>1
<1>4. QED
  BY <1>2, <1>3 DEF k

\* The stack new settings start the host with.
LEMMA SettingsStack ==
  ASSUME UpdateSettings
  PROVE  \E wanted \in [Providers -> SUBSET Categories], k \in Nat :
           /\ k = Cardinality(Providers)
           /\ agenda' \in Seq(Plain) /\ Len(agenda') = k + k + 1
           /\ \A i \in 1 .. k : agenda'[i] \in {Step("probe", p) : p \in Providers}
           /\ \A i \in k + 1 .. k + k :
                agenda'[i] \in {DesireStep(p, wanted[p]) : p \in Providers}
           /\ agenda'[k + k + 1] = Step("applyDesired", "")
<1>1. PICK wanted \in [Providers -> SUBSET Categories] :
         agenda' = ProbeLoop \o DesireLoop(wanted) \o <<Step("applyDesired", "")>>
  BY DEF UpdateSettings, ProbeLoop, DesireLoop
<1> DEFINE probes == ProbeLoop
           desires == DesireLoop(wanted)
           last == Step("applyDesired", "")
           P == {Step("probe", p) : p \in Providers}
           D == {DesireStep(p, wanted[p]) : p \in Providers}
           k == Cardinality(Providers)
<1>2. wanted \in [Providers -> Plans]
  BY DEF Plans
<1>3. probes \in Seq(P) /\ desires \in Seq(D) /\ Len(probes) = k /\ Len(desires) = k /\ k \in Nat
  <2>1. probes \in Seq(P)
    BY ProbesProbe, Zenon
  <2>2. desires \in Seq(D)
    BY <1>2, DesiresDesire, Zenon
  <2>3. Len(probes) = k /\ Len(desires) = k
    BY LengthOfLoops, Zenon
  <2>4. k \in Nat
    BY OrderIsTyped
  <2> HIDE DEF probes, desires, P, D, k
  <2>5. QED
    BY <2>1, <2>2, <2>3, <2>4
<1>4. probes \in Seq(Plain) /\ desires \in Seq(Plain) /\ last \in Plain
  BY <1>2, ProbesArePlain, DesiresArePlain, PlainSync DEF ProbeLoop, DesireLoop
<1>5. agenda' = (probes \o desires) \o <<last>>
  BY <1>1
<1> HIDE DEF probes, desires, P, D
<1>6. (\A i \in 1 .. k : probes[i] \in P) /\ (\A i \in 1 .. k : desires[i] \in D)
  BY <1>3, ElementOfSeq
<1> HIDE DEF last, k
<1>7. /\ probes \o desires \in Seq(Plain) /\ Len(probes \o desires) = k + k
      /\ \A i \in 1 .. k + k : (probes \o desires)[i] = IF i <= k THEN probes[i] ELSE desires[i - k]
  BY <1>3, <1>4
<1> DEFINE both == probes \o desires
<1> HIDE DEF both
<1>8. /\ agenda' \in Seq(Plain) /\ Len(agenda') = k + k + 1
      /\ \A i \in 1 .. k + k : agenda'[i] = both[i]
      /\ agenda'[k + k + 1] = last
  <2>1. both \in Seq(Plain) /\ Len(both) = k + k /\ agenda' = both \o <<last>>
    BY <1>5, <1>7 DEF both
  <2>2. last \in Plain
    BY <1>4
  <2>3. QED
    BY <2>1, <2>2, OneMore
<1>9. \A i \in 1 .. k : agenda'[i] \in P
  <2> SUFFICES ASSUME NEW i \in 1 .. k
               PROVE  agenda'[i] \in P
    OBVIOUS
  <2>1. i \in 1 .. k + k /\ i <= k
    BY <1>3
  <2>2. agenda'[i] = probes[i]
    BY <1>7, <1>8, <2>1 DEF both
  <2>3. QED
    BY <1>6, <2>2
<1>10. \A i \in k + 1 .. k + k : agenda'[i] \in D
  <2> SUFFICES ASSUME NEW i \in k + 1 .. k + k
               PROVE  agenda'[i] \in D
    OBVIOUS
  <2>1. i \in 1 .. k + k /\ ~(i <= k) /\ i - k \in 1 .. k
    BY <1>3
  <2>2. agenda'[i] = desires[i - k]
    BY <1>7, <1>8, <2>1 DEF both
  <2>3. QED
    BY <1>6, <2>1, <2>2
<1>11. QED
  BY <1>3, <1>8, <1>9, <1>10 DEF P, D, last, k

LEMMA SettingsKinds ==
  ASSUME NEW wanted
  PROVE  /\ \A s \in {Step("probe", p) : p \in Providers} : s.do = "probe"
         /\ \A s \in {DesireStep(p, wanted[p]) : p \in Providers} : s.do = "desire"
<1>1. \A p : Step("probe", p).do = "probe" /\ DesireStep(p, wanted[p]).do = "desire"
  BY DEF Step, DesireStep, StepWith
<1>2. QED
  BY <1>1, Zenon

LEMMA SettingsAreFollowed ==
  ASSUME UpdateSettings, NEW next, "applyDesired" \in next,
         Cardinality(Providers) = 1 \/ "desire" \in next
  PROVE  Followed(agenda', next)
<1>1. PICK wanted \in [Providers -> SUBSET Categories], k \in Nat :
           /\ k = Cardinality(Providers)
           /\ agenda' \in Seq(Plain) /\ Len(agenda') = k + k + 1
           /\ \A i \in 1 .. k : agenda'[i] \in {Step("probe", p) : p \in Providers}
           /\ \A i \in k + 1 .. k + k :
                agenda'[i] \in {DesireStep(p, wanted[p]) : p \in Providers}
           /\ agenda'[k + k + 1] = Step("applyDesired", "")
  BY SettingsStack
<1>2. /\ \A i \in 1 .. k : agenda'[i].do = "probe"
      /\ \A i \in k + 1 .. k + k : agenda'[i].do = "desire"
      /\ agenda'[k + k + 1].do = "applyDesired"
  <2>1. /\ \A s \in {Step("probe", p) : p \in Providers} : s.do = "probe"
        /\ \A s \in {DesireStep(p, wanted[p]) : p \in Providers} : s.do = "desire"
    BY SettingsKinds
  <2>3. Step("applyDesired", "").do = "applyDesired"
    BY Fields
  <2>4. QED
    BY <1>1, <2>1, <2>3
<1>3. Len(agenda') = k + k + 1 /\ (k = 1 \/ "desire" \in next)
  BY <1>1
<1> SUFFICES ASSUME NEW i \in 1 .. Len(agenda'), agenda'[i].do = "desire"
             PROVE  i + 1 \in 1 .. Len(agenda') /\ agenda'[i + 1].do \in next
  BY DEF Followed
<1>4. i \in k + 1 .. k + k
  BY <1>2, <1>3
<1>5. i + 1 = k + k + 1 \/ (i + 1 \in k + 1 .. k + k /\ k # 1)
  BY <1>4
<1>6. QED
  BY <1>2, <1>3, <1>4, <1>5

-----------------------------------------------------------------------------
(* The plan is in hand: when it is not what the user wants of what is      *)
(* supported, the host is about to make it so.                             *)

\* With several providers the first wish is noted long before the last.
Resyncing == {"sync", "applyDesired"} \union (IF Alone THEN {} ELSE {"desire"})
Ahead == Resyncing \ {"sync"}

PlanInHand ==
  /\ Followed(agenda, Ahead)
  /\ Doing("attempt") \/ Doing("awaitStart") => 2 \in 1 .. Len(agenda) /\ agenda[2].do = "sync"
  /\ plan # Effective => agenda # <<>> /\ Head(agenda).do \in Resyncing

PInv == IInv /\ PlanInHand

NoDesires(s) == \A i \in 1 .. Len(s) : s[i].do # "desire"

LEMMA ShortOnesDesireNothing ==
  /\ NoDesires(<<>>)
  /\ \A x : x.do # "desire" => NoDesires(<<x>>)
  /\ \A x, y : x.do # "desire" /\ y.do # "desire" => NoDesires(<<x, y>>)
  /\ \A x, y, z : x.do # "desire" /\ y.do # "desire" /\ z.do # "desire" => NoDesires(<<x, y, z>>)
BY DEF NoDesires

LEMMA LoopsDesireNothing ==
  /\ NoDesires(SampleLoop) /\ \A why : NoDesires(StopLoop(why))
  /\ \A next \in [Providers -> Plans], force \in BOOLEAN : NoDesires(ApplyLoop(next, force))
<1>1. \A s \in SampleSteps : s.do # "desire"
  BY LoopKinds
<1>2. \A why : \A s \in StopSteps(why) : s.do # "desire"
  BY LoopKinds
<1>3. \A next, force : \A s \in Polls \union Applies(next, force) : s.do # "desire"
  BY LoopKinds
<1>4. QED
  BY <1>1, <1>2, <1>3, SampleLoopSamples, StopLoopStops, ApplyLoopApplies, ElementOfSeq
     DEF NoDesires

LEMMA PlanStep ==
  ASSUME PInv, agenda # <<>>, NEW s \in Seq(Plain), NoDesires(s), Then(s),
         plan' # Effective' => s # <<>> /\ Head(s).do \in Resyncing
  PROVE  PlanInHand'
<1>1. agenda \in Seq(Steps) /\ agenda \in Stacks /\ s \in Seq(Steps) /\ s \in Stacks
      /\ (s # <<>> => Head(s) \in Plain)
  BY PlainIsAStack DEF PInv, IInv, CallsInOrder, Stacks
<1>2. Followed(agenda', Ahead)
  BY <1>1, FollowedRest DEF PInv, PlanInHand, NoDesires, Then
<1>3. /\ s # <<>> => agenda' # <<>> /\ Head(agenda') = Head(s)
      /\ agenda' # <<>> => Head(agenda') \in Plain
  BY <1>1, ThenStacks
<1>4. ~(Doing("attempt") \/ Doing("awaitStart"))'
  BY <1>3 DEF Doing, Plain, Waits
<1>5. QED
  BY <1>2, <1>3, <1>4 DEF PlanInHand

\* A request finds the plan right, and starts the host on plain steps.
LEMMA PlanRequest ==
  ASSUME PInv, agenda = <<>>, agenda' \in Seq(Plain),
         Followed(agenda', Ahead), plan' = Effective'
  PROVE  PlanInHand'
<1>1. agenda' # <<>> => Head(agenda') \in Plain
  BY PlainIsAStack
<1>2. QED
  BY <1>1 DEF PlanInHand, Doing, Plain, Waits

LEMMA NoDesiresIsFollowed == \A s, next : NoDesires(s) => Followed(s, next)
BY DEF NoDesires, Followed

LEMMA RequestsKeepPlan ==
  ASSUME PInv, UpdateSettings \/ SampleDue \/ Pause \/ Resume \/ StopAll
  PROVE  PlanInHand'
<1>1. agenda = <<>> /\ plan = Effective
  BY DEF PInv, PlanInHand, UpdateSettings, SampleDue, Pause, Resume, StopAll, Calm
<1>2. Effective' = Effective
  BY DEF Effective, UpdateSettings, SampleDue, Pause, Resume, StopAll
<1>3. plan' = Effective'
  BY <1>1, <1>2 DEF UpdateSettings, SampleDue, Pause, Resume, StopAll
<1>4. CASE UpdateSettings
  <2>1. agenda' \in Seq(Plain)
    BY <1>4, SettingsStack
  <2>2. Followed(agenda', Ahead)
    <3>1. "applyDesired" \in Ahead /\ (Cardinality(Providers) = 1 \/ "desire" \in Ahead)
      BY DEF Ahead, Resyncing, Alone
    <3>2. QED
      BY <1>4, <3>1, SettingsAreFollowed
  <2>3. QED
    BY <1>1, <1>3, <2>1, <2>2, PlanRequest
<1>5. CASE SampleDue
  <2>1. agenda' \in Seq(Plain)
    <3>1. agenda' = SampleLoop
      BY <1>5 DEF SampleDue, SampleLoop
    <3>2. SampleSteps \subseteq Plain
      BY PlainStep, NoPlanIsAPlan DEF SampleSteps, Polls
    <3>3. QED
      BY <3>1, <3>2, SampleLoopSamples, SeqMonotonic
  <2>2. NoDesires(agenda')
    BY <1>5, LoopsDesireNothing DEF SampleDue, SampleLoop
  <2>3. QED
    BY <1>1, <1>3, <2>1, <2>2, PlanRequest, NoDesiresIsFollowed
<1>6. CASE Pause \/ StopAll
  <2>1. PICK why \in {"pause", "shutdown"} : agenda' = StopLoop(why)
    BY <1>6 DEF Pause, StopAll, StopLoop
  <2>2. agenda' \in Seq(Plain)
    BY <2>1, StopLoopIsPlain DEF StopLoop
  <2>3. NoDesires(agenda')
    BY <2>1, LoopsDesireNothing
  <2>4. QED
    BY <1>1, <1>3, <2>2, <2>3, PlanRequest, NoDesiresIsFollowed
<1>7. CASE Resume
  <2>1. Effective \in [Providers -> Plans]
    BY EffectiveIsAPlan DEF PInv, IInv
  <2>2. agenda' = ApplyLoop(Effective, TRUE)
    BY <1>7 DEF Resume
  <2>3. agenda' \in Seq(Plain) /\ NoDesires(agenda')
    BY <2>1, <2>2, ApplyLoopIsPlain, LoopsDesireNothing
  <2>4. QED
    BY <1>1, <1>3, <2>3, PlanRequest, NoDesiresIsFollowed
<1>8. QED
  BY <1>4, <1>5, <1>6, <1>7

-----------------------------------------------------------------------------
(* Every step of the host keeps the plan in hand.                          *)

\* A step that neither is about the plan nor touches it.
LEMMA PlanUntouched ==
  ASSUME PInv, NEW what, Doing(what), what \notin Resyncing, NEW s \in Seq(Plain), NoDesires(s),
         Then(s), UNCHANGED <<desired, plan, rt>>
  PROVE  PlanInHand'
<1>1. agenda # <<>> /\ plan = Effective
  BY DEF PInv, PlanInHand, Doing
<1>2. Effective' = Effective
  BY DEF Effective
<1>3. QED
  BY <1>1, <1>2, PlanStep

\* A step that leaves what is supported alone, or goes on to see to the plan.
KeepsCaps == \A p \in Providers : rt'[p].caps = rt[p].caps
KeepsPlans == \A p \in Providers : rt'[p].plan = rt[p].plan

LEMMA PlanUntold ==
  ASSUME PInv, NEW what, Doing(what), what \notin Resyncing, NEW s \in Seq(Plain), NoDesires(s),
         Then(s), UNCHANGED <<desired, plan>>, KeepsCaps \/ (s # <<>> /\ Head(s) = SyncStep)
  PROVE  PlanInHand'
<1>1. agenda # <<>> /\ plan = Effective
  BY DEF PInv, PlanInHand, Doing
<1>2. CASE s # <<>> /\ Head(s) = SyncStep
  <2>1. Head(s).do \in Resyncing
    BY <1>2, Fields DEF Resyncing
  <2>2. QED
    BY <1>1, <1>2, <2>1, PlanStep
<1>3. CASE KeepsCaps
  <2>1. Effective' = Effective
    BY <1>3 DEF Effective, KeepsCaps
  <2>2. QED
    BY <1>1, <2>1, PlanStep
<1>4. QED
  BY <1>2, <1>3

\* A step that sends a call leaves the wait for its answer in its place.
LEMMA PlanWaits ==
  ASSUME PInv, NEW what, Doing(what), what \notin Resyncing, NEW p \in Providers,
         NEW wait \in Waits, NEW cfg \in Plans, NEW tag \in {"", "Start", "Reconfigure"} \union Whys,
         wait = "awaitStart" => tag \in {"Start", "Reconfigure"} /\ what = "attempt",
         wait = "awaitStop" => tag \in Whys,
         Then(<<StepWith(wait, p, cfg, tag, FALSE)>>), plan' # Effective' <=> plan # Effective
  PROVE  PlanInHand'
<1> DEFINE x == StepWith(wait, p, cfg, tag, FALSE)
<1>1. x \in Steps /\ x.do = wait /\ x.do # "desire" /\ x.do # "attempt"
  BY DEF StepWith, Steps, Waits
<1>2. Then(<<x>>)
  OBVIOUS
<1> HIDE DEF x
<1>3. <<x>> \in Seq(Steps) /\ Len(<<x>>) = 1 /\ <<x>>[1] = x /\ NoDesires(<<x>>)
  <2>1. <<x>> \in Seq(Steps) /\ Len(<<x>>) = 1 /\ <<x>>[1] = x
    BY <1>1, Single
  <2>2. NoDesires(<<x>>)
    BY <1>1, ShortOnesDesireNothing, Zenon
  <2>3. QED
    BY <2>1, <2>2
<1>4. /\ agenda # <<>> /\ agenda \in Seq(Steps) /\ agenda' = <<x>> \o Tail(agenda)
      /\ Head(agenda).do = what
  BY <1>2 DEF Doing, Then, PInv, IInv, CallsInOrder, Stacks
<1>5. Followed(agenda', Ahead)
  BY <1>3, <1>4, FollowedRest DEF PInv, PlanInHand, NoDesires
<1>6. /\ Len(agenda) \in Nat \ {0} /\ Len(agenda') = Len(agenda) /\ Head(agenda') = x
      /\ 2 \in 1 .. Len(agenda) => 2 \in 1 .. Len(agenda') /\ agenda'[2] = agenda[2]
  BY <1>1, <1>4, OneForOne
<1>7. plan' = Effective'
  BY <1>4 DEF PInv, PlanInHand
<1>8. ASSUME (Doing("attempt") \/ Doing("awaitStart"))'
      PROVE  2 \in 1 .. Len(agenda') /\ agenda'[2].do = "sync"
  <2>1. what = "attempt"
    BY <1>1, <1>6, <1>8 DEF Doing
  <2>2. 2 \in 1 .. Len(agenda) /\ agenda[2].do = "sync"
    BY <2>1 DEF PInv, PlanInHand
  <2>3. QED
    BY <1>6, <2>2, Zenon
<1>9. QED
  BY <1>5, <1>7, <1>8 DEF PlanInHand

LEMMA NotResyncing ==
  /\ "renew" \notin Resyncing /\ "probe" \notin Resyncing /\ "apply" \notin Resyncing
  /\ "settle" \notin Resyncing /\ "shed" \notin Resyncing /\ "retry" \notin Resyncing
  /\ "sendProbe" \notin Resyncing /\ "attempt" \notin Resyncing /\ "sample" \notin Resyncing
  /\ "stop" \notin Resyncing /\ "awaitProbe" \notin Resyncing /\ "awaitStart" \notin Resyncing
  /\ "awaitSample" \notin Resyncing /\ "awaitStop" \notin Resyncing
  /\ "reconcile" \notin Resyncing /\ "cleanup" \notin Resyncing
BY DEF Resyncing

LEMMA DesireKeepsPlan == ASSUME PInv, Desire PROVE PlanInHand'
<1>1. /\ agenda # <<>> /\ agenda \in Seq(Steps) /\ agenda[1].do = "desire"
      /\ agenda' = <<>> \o Tail(agenda) /\ Len(agenda) \in Nat \ {0}
  BY EmptySeq DEF Desire, Doing, Then, PInv, IInv, CallsInOrder, Stacks
<1>2. /\ Len(agenda') = Len(agenda) - 1
      /\ \A i \in 2 .. Len(agenda) : i - 1 \in 1 .. Len(agenda') /\ agenda'[i - 1] = agenda[i]
  <2>1. <<>> \in Seq(Steps) /\ Len(<<>>) = 0
    OBVIOUS
  <2>2. QED
    BY <1>1, <2>1, Restacked
<1>3. 2 \in 1 .. Len(agenda) /\ agenda[2].do \in Ahead
  BY <1>1 DEF PInv, PlanInHand, Followed
<1>4. 1 \in 1 .. Len(agenda') /\ agenda'[1] = agenda[2]
  BY <1>2, <1>3
<1>5. agenda' # <<>> /\ Head(agenda').do \in Resyncing
  BY <1>3, <1>4 DEF Ahead
<1>6. Followed(agenda', Ahead)
  <2>1. <<>> \in Seq(Steps) /\ \A i \in 1 .. Len(<<>>) : <<>>[i].do # "desire"
    BY ShortOnesDesireNothing DEF NoDesires
  <2>2. QED
    BY <1>1, <2>1, FollowedRest DEF PInv, PlanInHand
<1>7. QED
  BY <1>5, <1>6 DEF PlanInHand, Doing, Resyncing

LEMMA ResyncsKeepPlan == ASSUME PInv, ApplyDesired \/ Sync PROVE PlanInHand'
<1>1. Effective \in [Providers -> Plans] /\ TypeOK /\ agenda # <<>>
  BY EffectiveIsAPlan DEF PInv, IInv, ApplyDesired, Sync, Doing
<1>2. PICK s \in Seq(Plain) : NoDesires(s) /\ Then(s)
  <2>1. /\ ApplyLoop(Effective, FALSE) \in Seq(Plain) /\ NoDesires(ApplyLoop(Effective, FALSE))
        /\ <<>> \in Seq(Plain) /\ NoDesires(<<>>)
    BY <1>1, ApplyLoopIsPlain, LoopsDesireNothing, EmptyIsPlain, ShortOnesDesireNothing
  <2>2. Then(ApplyLoop(Effective, FALSE)) \/ Then(<<>>)
    BY DEF ApplyDesired, Sync
  <2>3. QED
    BY <2>1, <2>2
<1>3. \A p \in Providers : rt'[p].caps = rt[p].caps
  <2>1. \A x \in Runtimes : \A next : [x EXCEPT !.plan = next].caps = x.caps
    BY DEF Runtimes
  <2>2. \A p \in Providers : rt[p] \in Runtimes
    BY <1>1 DEF TypeOK
  <2>3. \/ rt' = rt
        \/ rt' = [p \in Providers |-> [rt[p] EXCEPT !.plan = Effective[p]]]
    BY DEF ApplyDesired, Sync
  <2>4. CASE rt' = [p \in Providers |-> [rt[p] EXCEPT !.plan = Effective[p]]]
    <3> SUFFICES ASSUME NEW p \in Providers
                 PROVE  rt'[p].caps = rt[p].caps
      OBVIOUS
    <3>1. rt'[p] = [rt[p] EXCEPT !.plan = Effective[p]]
      BY <2>4
    <3>2. rt[p] \in Runtimes
      BY <2>2
    <3>3. QED
      BY <3>1, <3>2 DEF Runtimes
  <2>5. QED
    BY <2>3, <2>4
<1>4. Effective' = Effective /\ plan' = Effective
  BY <1>3 DEF Effective, ApplyDesired, Sync
<1>5. QED
  BY <1>1, <1>2, <1>4, PlanStep

LEMMA QuietOnesKeepPlan ==
  ASSUME PInv, Renew \/ Probe \/ Shed \/ SendProbe \/ Cleanup
  PROVE  PlanInHand'
<1> DEFINE p == Now.of
<1>1. p \in Providers
  <2>1. \E what \in {"renew", "probe", "shed", "sendProbe", "cleanup"} : Doing(what)
    BY DEF Renew, Probe, Shed, SendProbe, Cleanup
  <2>2. QED
    BY <2>1, HeadIsAStep DEF PInv
<1>2. /\ <<>> \in Seq(Plain) /\ NoDesires(<<>>)
  BY EmptyIsPlain, ShortOnesDesireNothing
<1>3. CASE Renew
  BY <1>2, <1>3, PlanUntouched, NotResyncing DEF Renew
<1>4. CASE Probe
  <2> DEFINE x == Step("reconcile", p)
             y == Step("sendProbe", p)
  <2>1. x \in Plain /\ y \in Plain /\ x.do # "desire" /\ y.do # "desire"
    <3>1. x \in Plain /\ y \in Plain
      BY <1>1, PlainStep, NoPlanIsAPlan
    <3>2. QED
      BY <3>1 DEF Step, StepWith
  <2>2. Then(<<x, y>>) /\ Doing("probe") /\ UNCHANGED <<desired, plan, rt>>
    BY <1>4 DEF Probe
  <2> HIDE DEF x, y
  <2>3. <<x, y>> \in Seq(Plain) /\ NoDesires(<<x, y>>)
    BY <2>1, ShortOnesDesireNothing
  <2>4. QED
    BY <2>2, <2>3, PlanUntouched, NotResyncing
<1>5. CASE Shed \/ Cleanup
  <2>1. PICK why \in Whys : Then(<<>>) \/ Then(<<StopStep(p, why, NoPlan)>>)
    BY <1>5 DEF Shed, Cleanup, Whys
  <2> DEFINE x == StopStep(p, why, NoPlan)
  <2>2. x \in Plain /\ x.do # "desire"
    BY <1>1, PlainStop, NoPlanIsAPlan, Fields
  <2>3. Then(<<>>) \/ Then(<<x>>)
    BY <2>1
  <2> HIDE DEF x
  <2>4. <<x>> \in Seq(Plain) /\ NoDesires(<<x>>)
    BY <2>2, ShortOnesDesireNothing
  <2>5. (Doing("shed") \/ Doing("cleanup")) /\ UNCHANGED <<desired, plan, rt>>
    BY <1>5 DEF Shed, Cleanup
  <2>6. QED
    BY <1>2, <2>3, <2>4, <2>5, PlanUntouched, NotResyncing
<1>6. CASE SendProbe
  <2>1. Doing("sendProbe") /\ UNCHANGED <<desired, plan, rt>>
    BY <1>6 DEF SendProbe
  <2>2. CASE Then(<<>>)
    BY <1>2, <2>1, <2>2, PlanUntouched, NotResyncing
  <2>3. CASE Then(<<Step("awaitProbe", p)>>)
    <3>1. Effective' = Effective
      BY <2>1 DEF Effective
    <3>2. Then(<<StepWith("awaitProbe", p, NoPlan, "", FALSE)>>)
      BY <2>3 DEF Step
    <3>3. "awaitProbe" \in Waits
      BY DEF Waits
    <3>4. QED
      BY <1>1, <2>1, <3>1, <3>2, <3>3, PlanWaits, NoPlanIsAPlan, NotResyncing
  <2>4. QED
    BY <1>6, <2>2, <2>3 DEF SendProbe
<1>7. QED
  BY <1>3, <1>4, <1>5, <1>6

-----------------------------------------------------------------------------
(* What the helpers, and with them the steps, leave alone.                 *)

LEMMA HelpersKeepCaps ==
  ASSUME NEW r \in Runtimes
  PROVE  /\ ClearRetry(r).caps = r.caps /\ ClearRetry(r).plan = r.plan
         /\ Failed(r).caps = r.caps /\ Failed(r).plan = r.plan
         /\ Started(r).caps = r.caps /\ Started(r).plan = r.plan
         /\ ProbeFailed(r).caps = {} /\ ProbeFailed(r).plan = r.plan
         /\ \A caps : Probed(r, caps).caps = caps /\ Probed(r, caps).plan = r.plan
         /\ \A action : /\ RetryLater(r, action).caps = r.caps /\ RetryLater(r, action).plan = r.plan
                         /\ RetryNow(r, action).caps = r.caps /\ RetryNow(r, action).plan = r.plan
BY DEF Runtimes, ClearRetry, Failed, Started, ProbeFailed, Probed, RetryLater, RetryNow

LEMMA FieldsKeepCaps ==
  ASSUME NEW r \in Runtimes, NEW v
  PROVE  /\ [r EXCEPT !.started = v].caps = r.caps /\ [r EXCEPT !.started = v].plan = r.plan
         /\ [r EXCEPT !.lifecycle = v].caps = r.caps /\ [r EXCEPT !.lifecycle = v].plan = r.plan
         /\ [r EXCEPT !.retry = v].caps = r.caps /\ [r EXCEPT !.retry = v].plan = r.plan
         /\ [r EXCEPT !.sampleDue = v].caps = r.caps /\ [r EXCEPT !.sampleDue = v].plan = r.plan
         /\ [r EXCEPT !.retryDue = v].caps = r.caps /\ [r EXCEPT !.retryDue = v].plan = r.plan
         /\ [r EXCEPT !.stopFailed = v].caps = r.caps /\ [r EXCEPT !.stopFailed = v].plan = r.plan
         /\ [r EXCEPT !.caps = v].caps = v /\ [r EXCEPT !.caps = v].plan = r.plan
         /\ [r EXCEPT !.plan = v].caps = r.caps /\ [r EXCEPT !.plan = v].plan = v
BY DEF Runtimes

LEMMA AfterStopKeepsCaps ==
  ASSUME NEW r \in Runtimes, NEW why \in Whys, NEW cfg, NEW ok
  PROVE  AfterStop(r, why, cfg, ok).caps = r.caps /\ AfterStop(r, why, cfg, ok).plan = r.plan
<1>1. ClearRetry(r) \in Runtimes /\ ClearRetry(r).caps = r.caps /\ ClearRetry(r).plan = r.plan
  BY HelpersKeepCaps DEF ClearRetry, Runtimes
<1>2. \A x \in Runtimes : \A v : /\ [x EXCEPT !.lifecycle = v].caps = x.caps
                             /\ [x EXCEPT !.lifecycle = v].plan = x.plan
                             /\ [x EXCEPT !.sampleDue = TRUE].caps = x.caps
                             /\ [x EXCEPT !.sampleDue = TRUE].plan = x.plan
                             /\ [x EXCEPT !.sampleDue = TRUE] \in Runtimes
  BY DEF Runtimes
<1>3. \A x \in Runtimes : \A v : /\ [x EXCEPT !.sampleDue = TRUE, !.lifecycle = v].caps = x.caps
                             /\ [x EXCEPT !.sampleDue = TRUE, !.lifecycle = v].plan = x.plan
  BY DEF Runtimes
<1>4. CASE why = "cleanup"
  BY <1>2, <1>4 DEF AfterStop
<1>5. CASE why = "apply"
  <2> DEFINE v == IF paused /\ ~Enabled(cfg) THEN "Stopped" ELSE IF ok THEN Resting ELSE "Failed"
  <2>1. AfterStop(r, why, cfg, ok) = [ClearRetry(r) EXCEPT !.sampleDue = TRUE, !.lifecycle = v]
    BY <1>5 DEF AfterStop
  <2> HIDE DEF v
  <2>2. QED
    BY <1>1, <1>3, <2>1
<1>6. CASE why = "pause"
  <2> DEFINE v == IF ~Enabled(r.plan) THEN ClearRetry(r).lifecycle ELSE IF ok THEN "Paused" ELSE "Failed"
  <2>1. AfterStop(r, why, cfg, ok) = [ClearRetry(r) EXCEPT !.sampleDue = TRUE, !.lifecycle = v]
    BY <1>6 DEF AfterStop
  <2> HIDE DEF v
  <2>2. QED
    BY <1>1, <1>3, <2>1
<1>7. CASE why = "shutdown"
  BY <1>1, <1>2, <1>7 DEF AfterStop
<1>8. CASE why = "shed"
  BY <1>8 DEF AfterStop
<1>9. QED
  BY <1>4, <1>5, <1>6, <1>7, <1>8 DEF Whys

LEMMA SampleFailedKeepsCaps ==
  ASSUME NEW r \in Runtimes, NEW result
  PROVE  /\ SampleFailed(r, result).caps = r.caps /\ SampleFailed(r, result).plan = r.plan
<1> DEFINE f == [Failed(r) EXCEPT !.sampleDue = FALSE]
<1>1. f \in Runtimes /\ f.caps = r.caps /\ f.plan = r.plan
  BY DEF Runtimes, Failed
<1>2. SampleFailed(r, result) \in {f, [RetryLater(f, "Reconfigure") EXCEPT !.started = FALSE]}
  BY DEF SampleFailed
<1> HIDE DEF f
<1>3. /\ [RetryLater(f, "Reconfigure") EXCEPT !.started = FALSE].caps = f.caps
      /\ [RetryLater(f, "Reconfigure") EXCEPT !.started = FALSE].plan = f.plan
  BY <1>1 DEF Runtimes, RetryLater
<1>4. QED
  BY <1>1, <1>2, <1>3

\* A late answer leaves the plan alone, and what is supported too unless it says so.
LEMMA LateAnswerKeepsPlan ==
  ASSUME TypeOK, NEW p \in Providers, call[p].op # "None"
  PROVE  /\ LateAnswer(p).rt.plan = rt[p].plan
         /\ ~LateAnswer(p).news => LateAnswer(p).rt.caps = rt[p].caps
         /\ call[p].op # "Probe" /\ LateAnswer(p).news => LateAnswer(p).rt.caps = own[p]
<1> DEFINE Fair(o) == o.rt.plan = rt[p].plan /\ (~o.news => o.rt.caps = rt[p].caps)
           Fine(o) == Fair(o) /\ (o.news => o.rt.caps = own[p])
           i == Install(rt[p], p)
<1>1. /\ rt[p] \in Runtimes /\ call[p] \in Calls /\ own[p] \in SUBSET Categories
      /\ i \in Runtimes /\ i.plan = rt[p].plan /\ i.caps = own[p]
  BY DEF TypeOK, Install, Runtimes
<1>2. call[p].op \in Operations
  BY <1>1 DEF Calls
<1>3. /\ \A r, cleanup :
           r.plan = rt[p].plan /\ r.caps = rt[p].caps => Fine(Outcome(r, cleanup, FALSE))
      /\ \A r, cleanup : r.plan = rt[p].plan /\ r.caps = own[p] => Fine(Outcome(r, cleanup, News(p)))
      /\ \A r, cleanup : r.plan = rt[p].plan => Fair(Outcome(r, cleanup, TRUE))
  BY DEF Outcome, News
<1>4. \A o : Fine(o) => Fair(o) /\ (o.news => o.rt.caps = own[p])
  OBVIOUS
<1> HIDE DEF Fine, Fair, i
<1>5. Fair(LateProbe(p))
  <2>1. /\ Probed(rt[p], own[p]).caps = own[p] /\ Probed(rt[p], own[p]).plan = rt[p].plan
        /\ ProbeFailed(i).plan = rt[p].plan
    BY <1>1, HelpersKeepCaps
  <2>2. LateProbe(p) \in {Outcome(rt[p], FALSE, FALSE), Outcome(Probed(rt[p], own[p]), FALSE, News(p)),
                          Outcome(ProbeFailed(i), FALSE, TRUE)}
    BY DEF LateProbe, i
  <2>3. Fine(Outcome(rt[p], FALSE, FALSE)) /\ Fine(Outcome(Probed(rt[p], own[p]), FALSE, News(p)))
    BY <1>1, <1>3, <2>1
  <2>4. Fair(Outcome(ProbeFailed(i), FALSE, TRUE))
    BY <1>3, <2>1
  <2>5. QED
    BY <1>4, <2>2, <2>3, <2>4
<1>6. Fine(LateSample(p))
  <2>1. /\ [i EXCEPT !.lifecycle = "Running"].caps = own[p]
        /\ [i EXCEPT !.lifecycle = "Running"].plan = rt[p].plan
    BY <1>1 DEF Runtimes
  <2>2. SampleFailed(i, call[p].result).caps = own[p] /\ SampleFailed(i, call[p].result).plan = rt[p].plan
    BY <1>1, SampleFailedKeepsCaps
  <2>3. LateSample(p) \in
          {Outcome(rt[p], ~Active(p) /\ rt[p].started, FALSE), Outcome(rt[p], rt[p].started, FALSE),
           Outcome([i EXCEPT !.lifecycle = "Running"], FALSE, News(p)), Outcome(i, FALSE, News(p)),
           Outcome(SampleFailed(i, call[p].result), FALSE, News(p))}
    BY DEF LateSample, i
  <2>4. \A b : Fine(Outcome(rt[p], b, FALSE))
    BY <1>3
  <2>5. /\ Fine(Outcome([i EXCEPT !.lifecycle = "Running"], FALSE, News(p)))
        /\ Fine(Outcome(i, FALSE, News(p)))
        /\ Fine(Outcome(SampleFailed(i, call[p].result), FALSE, News(p)))
    BY <1>1, <1>3, <2>1, <2>2
  <2>6. QED
    BY <2>3, <2>4, <2>5
<1>7. Fine(LateStart(p))
  <2> DEFINE c == call[p]
             r == IF c.stale THEN rt[p] ELSE i
             off == [r EXCEPT !.sampleDue = TRUE]
             news == ~c.stale /\ News(p)
             down == [off EXCEPT !.started = FALSE]
             Told(x) == x.plan = r.plan /\ x.caps = r.caps
  <2>1. r \in Runtimes /\ r.plan = rt[p].plan /\ (~c.stale => r.caps = own[p]) /\ (c.stale => r = rt[p])
    BY <1>1
  <2> HIDE DEF r
  <2>2. off \in Runtimes /\ Told(off) /\ down \in Runtimes /\ Told(down)
    BY <2>1 DEF Runtimes
  <2>3. \A x \in Runtimes : \A op :
           /\ [RetryNow(Failed(x), op) EXCEPT !.started = TRUE].plan = x.plan
           /\ [RetryNow(Failed(x), op) EXCEPT !.started = TRUE].caps = x.caps
           /\ [ClearRetry(x) EXCEPT !.started = TRUE].plan = x.plan
           /\ [ClearRetry(x) EXCEPT !.started = TRUE].caps = x.caps
           /\ [x EXCEPT !.retry = op].plan = x.plan /\ [x EXCEPT !.retry = op].caps = x.caps
           /\ RetryLater(Failed(x), op).plan = x.plan /\ RetryLater(Failed(x), op).caps = x.caps
           /\ RetryNow(Failed(x), op).plan = x.plan /\ RetryNow(Failed(x), op).caps = x.caps
           /\ [ClearRetry(x) EXCEPT !.lifecycle = Resting].plan = x.plan
           /\ [ClearRetry(x) EXCEPT !.lifecycle = Resting].caps = x.caps
    BY DEF Runtimes, RetryNow, RetryLater, Failed, ClearRetry
  <2>4. Told(Started(r))
    BY <2>1, HelpersKeepCaps
  <2> HIDE DEF off, down, news
  <2>5. LateStart(p) \in
          {Outcome(Started(r), FALSE, news),
           Outcome([RetryNow(Failed(off), "Reconfigure") EXCEPT !.started = TRUE], FALSE, news),
           Outcome([ClearRetry(off) EXCEPT !.started = TRUE], TRUE, news),
           Outcome([down EXCEPT !.retry = c.op], FALSE, news),
           Outcome(RetryLater(Failed(down), c.op), FALSE, news),
           Outcome(RetryNow(Failed(down), c.op), FALSE, news),
           Outcome([ClearRetry(down) EXCEPT !.lifecycle = Resting], FALSE, news)}
    <3> HIDE DEF c
    <3>1. LateStart(p) =
            IF c.result = "ok"
            THEN IF ~c.stale /\ Active(p) THEN Outcome(Started(r), FALSE, news)
                 ELSE IF Active(p)
                 THEN Outcome([RetryNow(Failed(off), "Reconfigure") EXCEPT !.started = TRUE], FALSE, news)
                 ELSE Outcome([ClearRetry(off) EXCEPT !.started = TRUE], TRUE, news)
            ELSE IF ~c.stale /\ Active(p)
                 THEN Outcome(IF c.result = "timeout" /\ c.accounted THEN [down EXCEPT !.retry = c.op]
                              ELSE RetryLater(Failed(down), c.op), FALSE, news)
                 ELSE IF Active(p) THEN Outcome(RetryNow(Failed(down), c.op), FALSE, news)
                 ELSE Outcome([ClearRetry(down) EXCEPT !.lifecycle = Resting], FALSE, news)
      BY DEF LateStart, c, r, off, news, down, i
    <3>2. QED
      BY <3>1
  <2>6. \A x, b : Told(x) => Fine(Outcome(x, b, news))
    <3> SUFFICES ASSUME NEW x, NEW b, Told(x)
                 PROVE  Fine(Outcome(x, b, news))
      OBVIOUS
    <3>1. CASE c.stale
      <4>1. news = FALSE
        BY <3>1 DEF news
      <4>2. QED
        BY <1>3, <2>1, <3>1, <4>1
    <3>2. CASE ~c.stale
      <4>1. news = News(p)
        BY <3>2 DEF news, News
      <4>2. x.plan = rt[p].plan /\ x.caps = own[p]
        BY <2>1, <3>2
      <4>3. QED
        BY <1>3, <4>1, <4>2
    <3>3. QED
      BY <3>1, <3>2
  <2>7. /\ Told([RetryNow(Failed(off), "Reconfigure") EXCEPT !.started = TRUE])
        /\ Told([ClearRetry(off) EXCEPT !.started = TRUE])
        /\ Told([down EXCEPT !.retry = c.op]) /\ Told(RetryLater(Failed(down), c.op))
        /\ Told(RetryNow(Failed(down), c.op)) /\ Told([ClearRetry(down) EXCEPT !.lifecycle = Resting])
    BY <2>2, <2>3
  <2> HIDE DEF Told, c
  <2>8. QED
    BY <2>4, <2>5, <2>6, <2>7
<1>8. Fine(LateStop(p))
  <2> DEFINE down == [rt[p] EXCEPT !.started = FALSE, !.sampleDue = TRUE]
             r == [ClearRetry(down) EXCEPT !.stopFailed = FALSE]
             f == [Failed(down) EXCEPT !.stopFailed = TRUE]
             Told(x) == x.plan = rt[p].plan /\ x.caps = rt[p].caps
  <2>1. r \in Runtimes /\ f \in Runtimes /\ Told(r) /\ Told(f)
    BY <1>1 DEF Runtimes, ClearRetry, Failed
  <2>2. LateStop(p) \in
          {Outcome(RetryNow(Failed(r), "Start"), FALSE, FALSE),
           Outcome([r EXCEPT !.lifecycle = Resting], FALSE, FALSE),
           Outcome(RetryLater(f, "Reconfigure"), FALSE, FALSE),
           Outcome(ClearRetry(f), FALSE, FALSE)}
    <3>1. LateStop(p) =
            IF call[p].result = "ok"
            THEN Outcome(IF Active(p) THEN RetryNow(Failed(r), "Start")
                         ELSE [r EXCEPT !.lifecycle = Resting], FALSE, FALSE)
            ELSE Outcome(IF Active(p) THEN RetryLater(f, "Reconfigure") ELSE ClearRetry(f),
                         FALSE, FALSE)
      BY DEF LateStop
    <3> HIDE DEF r, f
    <3>2. QED
      BY <3>1
  <2> HIDE DEF r, f
  <2>3. /\ Told(RetryNow(Failed(r), "Start"))
        /\ Told([r EXCEPT !.lifecycle = Resting])
        /\ Told(RetryLater(f, "Reconfigure")) /\ Told(ClearRetry(f))
    BY <2>1 DEF Runtimes, RetryNow, RetryLater, Failed, ClearRetry
  <2>4. \A x : Told(x) => Fine(Outcome(x, FALSE, FALSE))
    BY <1>3
  <2> HIDE DEF Told
  <2>5. QED
    BY <2>2, <2>3, <2>4
<1>9. (call[p].op = "Probe" /\ LateAnswer(p) = LateProbe(p)) \/ Fine(LateAnswer(p))
  BY <1>2, <1>6, <1>7, <1>8 DEF LateAnswer, Operations
<1>10. Fair(LateAnswer(p)) /\ (call[p].op # "Probe" => Fine(LateAnswer(p)))
  BY <1>5, <1>9, <1>4
<1>11. QED
  BY <1>4, <1>10 DEF Fair

\* A step on one runtime.
LEMMA OneRuntime ==
  ASSUME TypeOK, NEW p \in Providers, NEW r, rt' = [rt EXCEPT ![p] = r], r.plan = rt[p].plan
  PROVE  KeepsPlans /\ (r.caps = rt[p].caps => KeepsCaps)
BY DEF TypeOK, KeepsPlans, KeepsCaps

LEMMA SendersKeep ==
  ASSUME IInv, SendStart \/ SendSample \/ Stop \/ AwaitStop
  PROVE  KeepsPlans /\ KeepsCaps
<1> DEFINE p == Now.of
<1>1. p \in Providers /\ rt[p] \in Runtimes
  <2>1. \E what \in {"attempt", "sample", "stop", "awaitStop"} : Doing(what)
    BY DEF SendStart, SendSample, Stop, AwaitStop
  <2>2. QED
    BY <2>1, HeadIsAStep DEF IInv, TypeOK
<1>2. ASSUME NEW r, rt' = [rt EXCEPT ![p] = r], r.plan = rt[p].plan, r.caps = rt[p].caps
      PROVE  KeepsPlans /\ KeepsCaps
  BY <1>1, <1>2, OneRuntime DEF IInv
<1>3. CASE SendStart
  <2> DEFINE v == rt[p].started /\ Now.tag = "Start"
  <2>1. rt' = [rt EXCEPT ![p] = [rt[p] EXCEPT !.started = v]]
    BY <1>3 DEF SendStart
  <2> HIDE DEF v
  <2>2. QED
    BY <1>1, <1>2, <2>1, FieldsKeepCaps
<1>4. CASE SendSample
  <2> DEFINE r == [rt[p] EXCEPT !.sampleDue = FALSE]
  <2>1. rt' = [rt EXCEPT ![p] = r] \/ rt' = rt
    BY <1>4 DEF SendSample
  <2>2. r.plan = rt[p].plan /\ r.caps = rt[p].caps
    BY <1>1, FieldsKeepCaps
  <2> HIDE DEF r
  <2>3. QED
    BY <1>2, <2>1, <2>2 DEF KeepsPlans, KeepsCaps
<1>5. ASSUME Stop \/ AwaitStop, NEW s \in Runtimes, NEW ok,
             rt' = [rt EXCEPT ![p] = AfterStop(s, Now.tag, Now.cfg, ok)],
             s.plan = rt[p].plan, s.caps = rt[p].caps
      PROVE  KeepsPlans /\ KeepsCaps
  <2>1. Now.tag \in Whys
    BY <1>5, HeadIsAStep DEF Stop, AwaitStop
  <2> DEFINE r == AfterStop(s, Now.tag, Now.cfg, ok)
  <2>2. r.plan = s.plan /\ r.caps = s.caps
    BY <2>1, AfterStopKeepsCaps
  <2>3. rt' = [rt EXCEPT ![p] = r]
    BY <1>5
  <2> HIDE DEF r
  <2>4. QED
    BY <1>2, <1>5, <2>2, <2>3
<1>6. CASE Stop
  <2> DEFINE r == [ClearRetry(rt[p]) EXCEPT !.sampleDue = TRUE]
             s1 == [Failed(r) EXCEPT !.stopFailed = @ \/ call[p].op = "Stop"]
             s2 == IF r.stopFailed \/ r.lifecycle = "Failed" THEN r
                   ELSE [r EXCEPT !.lifecycle = "Stopped"]
             s3 == [Failed(r) EXCEPT !.started = FALSE, !.stopFailed = TRUE]
             Told(x) == x \in Runtimes /\ x.plan = rt[p].plan /\ x.caps = rt[p].caps
  <2>1. Told(r)
    BY <1>1 DEF Runtimes, ClearRetry
  <2> HIDE DEF r
  <2>2. Told(s1) /\ Told(s2) /\ Told(s3)
    BY <2>1 DEF Runtimes, Failed
  <2>3. \/ \E ok : rt' = [rt EXCEPT ![p] = AfterStop(s1, Now.tag, Now.cfg, ok)]
        \/ \E ok : rt' = [rt EXCEPT ![p] = AfterStop(s2, Now.tag, Now.cfg, ok)]
        \/ \E ok : rt' = [rt EXCEPT ![p] = AfterStop(s3, Now.tag, Now.cfg, ok)]
        \/ rt' = [rt EXCEPT ![p] = r]
    BY <1>6 DEF Stop, r
  <2> HIDE DEF s1, s2, s3
  <2>4. QED
    BY <1>2, <1>5, <1>6, <2>1, <2>2, <2>3
<1>7. CASE AwaitStop
  <2> DEFINE ok == Answered(p) /\ call[p].result = "ok"
             r == [rt[p] EXCEPT !.started = FALSE]
             s == IF ok THEN [r EXCEPT !.lifecycle = "Stopped", !.stopFailed = FALSE]
                  ELSE [Failed(r) EXCEPT !.stopFailed = TRUE]
  <2>1. s \in Runtimes /\ s.plan = rt[p].plan /\ s.caps = rt[p].caps
    BY <1>1 DEF Runtimes, Failed
  <2>2. rt' = [rt EXCEPT ![p] = AfterStop(s, Now.tag, Now.cfg, ok)]
    BY <1>7 DEF AwaitStop
  <2> HIDE DEF s, ok
  <2>3. QED
    BY <1>5, <1>7, <2>1, <2>2
<1>8. QED
  BY <1>3, <1>4, <1>6, <1>7

LEMMA AwaitersKeep ==
  ASSUME IInv, AwaitProbe \/ AwaitStart \/ AwaitSample
  PROVE  /\ KeepsPlans
         /\ AwaitProbe \/ AwaitSample =>
              \/ Then(<<SyncStep>>)
              \/ KeepsCaps /\ Then(<<>>)
<1> DEFINE p == Now.of
           i == Install(rt[p], p)
<1>1. /\ p \in Providers /\ rt[p] \in Runtimes /\ i \in Runtimes /\ i.plan = rt[p].plan
      /\ (~News(p) => i.caps = rt[p].caps) /\ i.caps = own[p]
  <2>1. \E what \in {"awaitProbe", "awaitStart", "awaitSample"} : Doing(what)
    BY DEF AwaitProbe, AwaitStart, AwaitSample
  <2>2. p \in Providers /\ rt[p] \in Runtimes /\ own[p] \in SUBSET Categories
    BY <2>1, HeadIsAStep DEF IInv, TypeOK
  <2>3. QED
    BY <2>2 DEF Install, Runtimes, News
<1>2. ASSUME NEW r, rt' = [rt EXCEPT ![p] = r], r.plan = rt[p].plan
      PROVE  KeepsPlans /\ (r.caps = rt[p].caps => KeepsCaps)
  BY <1>1, <1>2, OneRuntime DEF IInv
<1>3. CASE AwaitProbe
  <2>1. /\ Probed(rt[p], own[p]).plan = rt[p].plan /\ ProbeFailed(i).plan = rt[p].plan
        /\ ProbeFailed(rt[p]).plan = rt[p].plan /\ Probed(rt[p], own[p]).caps = own[p]
        /\ ProbeFailed(rt[p]).caps = {}
    BY <1>1, HelpersKeepCaps
  <2>2. \/ rt' = [rt EXCEPT ![p] = Probed(rt[p], own[p])] /\ Then(IF News(p) THEN <<SyncStep>> ELSE <<>>)
        \/ rt' = [rt EXCEPT ![p] = ProbeFailed(i)] /\ Then(<<SyncStep>>)
        \/ /\ rt' = [rt EXCEPT ![p] = ProbeFailed(rt[p])]
           /\ Then(IF rt[p].caps # {} THEN <<SyncStep>> ELSE <<>>)
    BY <1>3 DEF AwaitProbe
  <2> HIDE DEF i, p
  <2>3. ~News(p) => own[p] = rt[p].caps
    BY DEF News
  <2>4. QED
    BY <1>2, <2>1, <2>2, <2>3, <1>3
<1>4. CASE AwaitSample
  <2> DEFINE on == [i EXCEPT !.lifecycle = "Running"]
             f == SampleFailed(i, call[p].result)
             t == SampleFailed(rt[p], "timeout")
  <2>1. /\ on.plan = i.plan /\ on.caps = i.caps /\ f.plan = i.plan /\ f.caps = i.caps
        /\ t.plan = rt[p].plan /\ t.caps = rt[p].caps
    BY <1>1, FieldsKeepCaps, SampleFailedKeepsCaps
  <2>2. \/ /\ rt' = [rt EXCEPT ![p] = on] \/ rt' = [rt EXCEPT ![p] = f]
           /\ Then(IF News(p) THEN <<SyncStep>> ELSE <<>>)
        \/ rt' = [rt EXCEPT ![p] = t] /\ Then(<<>>)
    BY <1>4 DEF AwaitSample
  <2> HIDE DEF i, p, on, f, t
  <2>3. QED
    BY <1>1, <1>2, <2>1, <2>2, <1>4
<1>5. CASE AwaitStart
  <2> DEFINE Refused(r) == [RetryLater(Failed(r), Now.tag) EXCEPT !.started = FALSE,
                                                                  !.sampleDue = TRUE]
  <2>1. \A r \in Runtimes : Refused(r).plan = r.plan
    BY DEF Runtimes, RetryLater, Failed
  <2>2. Started(i).plan = rt[p].plan /\ Refused(i).plan = rt[p].plan /\ Refused(rt[p]).plan = rt[p].plan
    BY <1>1, <2>1, HelpersKeepCaps
  <2>3. \/ rt' = [rt EXCEPT ![p] = Started(i)] \/ rt' = [rt EXCEPT ![p] = Refused(i)]
        \/ rt' = [rt EXCEPT ![p] = Refused(rt[p])]
    BY <1>5 DEF AwaitStart
  <2>4. ~AwaitProbe /\ ~AwaitSample
    BY <1>5 DEF AwaitStart, AwaitProbe, AwaitSample, Doing
  <2> HIDE DEF Refused, i, p
  <2>5. QED
    BY <1>2, <2>2, <2>3, <2>4
<1>6. QED
  BY <1>3, <1>4, <1>5

LEMMA TwoOfOnes ==
  ASSUME NEW S, NEW x \in S, NEW y \in S
  PROVE  <<y>> \o <<x>> = <<y, x>>
<1> DEFINE a == <<y>>
           b == <<x>>
           c == <<y, x>>
           d == a \o b
<1>1. a \in Seq(S) /\ Len(a) = 1 /\ a[1] = y /\ b \in Seq(S) /\ Len(b) = 1 /\ b[1] = x
  OBVIOUS
<1>2. c \in Seq(S) /\ Len(c) = 2 /\ c[1] = y /\ c[2] = x
  OBVIOUS
<1> HIDE DEF a, b, c
<1>3. d \in Seq(S) /\ Len(d) = 2 /\ d[1] = y /\ d[2] = x
  BY <1>1 DEF a, b
<1> HIDE DEF d
<1>4. \A i \in 1 .. Len(d) : d[i] = c[i]
  BY <1>2, <1>3
<1>5. d = c
  BY <1>2, <1>3, <1>4, SeqEqual
<1>6. QED
  BY <1>5 DEF a, b, c, d

LEMMA ShortConcats ==
  ASSUME NEW x, NEW y
  PROVE  <<y>> \o <<x>> = <<y, x>> /\ <<>> \o <<x>> = <<x>> /\ <<>> \o <<>> = <<>>
<1> DEFINE S == {x, y}
<1>1. x \in S /\ y \in S
  OBVIOUS
<1> HIDE DEF S
<1>2. \A a \in Seq(S) : <<>> \o a = a
  OBVIOUS
<1>3. <<x>> \in Seq(S) /\ <<>> \in Seq(S)
  BY <1>1
<1>4. QED
  BY <1>1, <1>2, <1>3, TwoOfOnes

LEMMA ReconcileIs ==
  ASSUME IInv, Reconcile
  PROVE  LET p == Now.of
         IN  /\ KeepsPlans /\ p \in Providers
             /\ \/ KeepsCaps /\ Then(<<>>)
                \/ KeepsCaps /\ Then(<<StepWith("cleanup", p, NoPlan, "", TRUE)>>)
                \/ \E flag \in BOOLEAN : Then(<<SyncStep, StepWith("cleanup", p, NoPlan, "", flag)>>)
<1> DEFINE p == Now.of
           after == LateAnswer(p)
<1>1. p \in Providers /\ rt[p] \in Runtimes /\ call[p] \in Calls /\ Doing("reconcile")
  <2>1. Doing("reconcile")
    BY DEF Reconcile
  <2>2. QED
    BY <2>1, HeadIsAStep DEF IInv, TypeOK
<1>2. ASSUME NEW r, rt' = [rt EXCEPT ![p] = r], r.plan = rt[p].plan
      PROVE  KeepsPlans /\ (r.caps = rt[p].caps => KeepsCaps)
  BY <1>1, <1>2, OneRuntime DEF IInv
<1>3. CASE ~call[p].pending \/ call[p].stage \in {"queued", "running"}
  BY <1>1, <1>3 DEF Reconcile, KeepsPlans, KeepsCaps
<1>4. CASE call[p].pending /\ call[p].stage = "dead"
  <2> DEFINE r == [(IF Enabled(rt[p].plan) THEN RetryNow(Failed(rt[p]), "Start")
                    ELSE ClearRetry(Failed(rt[p]))) EXCEPT !.started = FALSE]
  <2>1. r.plan = rt[p].plan /\ r.caps = rt[p].caps
    BY <1>1 DEF Runtimes, RetryNow, Failed, ClearRetry
  <2>2. rt' = [rt EXCEPT ![p] = r] /\ Then(<<>>)
    BY <1>4 DEF Reconcile
  <2> HIDE DEF r
  <2>3. QED
    BY <1>1, <1>2, <2>1, <2>2
<1>5. CASE call[p].pending /\ call[p].stage \notin {"queued", "running", "dead"}
  <2>1. call[p].op # "None"
    BY <1>1, <1>5 DEF IInv, CallsInOrder, Accounted, Calls
  <2>2. /\ after.cleanup \in BOOLEAN /\ after.news \in BOOLEAN /\ after.rt.plan = rt[p].plan
        /\ ~after.news => after.rt.caps = rt[p].caps
    BY <1>1, <2>1, LateAnswerIsTyped, LateAnswerKeepsPlan DEF IInv
  <2>3. /\ rt' = [rt EXCEPT ![p] = after.rt]
        /\ Then((IF after.news THEN <<SyncStep>> ELSE <<>>)
                \o (IF after.news \/ after.cleanup
                    THEN <<StepWith("cleanup", p, NoPlan, "", after.cleanup)>>
                    ELSE <<>>))
    BY <1>5 DEF Reconcile
  <2> HIDE DEF after
  <2>4. KeepsPlans /\ (~after.news => KeepsCaps)
    BY <1>2, <2>2, <2>3
  <2> DEFINE x == StepWith("cleanup", p, NoPlan, "", after.cleanup)
             y == SyncStep
  <2>5. Then((IF after.news THEN <<y>> ELSE <<>>)
             \o (IF after.news \/ after.cleanup THEN <<x>> ELSE <<>>))
    BY <2>3
  <2> HIDE DEF x, y
  <2>6. /\ <<y>> \o <<x>> = <<y, x>> /\ <<>> \o <<x>> = <<x>> /\ <<>> \o <<>> = <<>>
    BY ShortConcats
  <2>7. \/ after.news /\ Then(<<y, x>>)
        \/ ~after.news /\ after.cleanup = TRUE /\ Then(<<x>>)
        \/ ~after.news /\ Then(<<>>)
    BY <2>2, <2>5, <2>6
  <2>8. QED
    BY <1>1, <2>2, <2>4, <2>7 DEF x, y
<1>6. QED
  BY <1>3, <1>4, <1>5

-----------------------------------------------------------------------------
(* The other steps of the host keep the plan in hand.                      *)

LEMMA KeepsEffective == ASSUME KeepsCaps, UNCHANGED desired PROVE Effective' = Effective
BY DEF KeepsCaps, Effective

LEMMA CallsKeepPlan ==
  ASSUME PInv, SendStart \/ SendSample \/ Stop \/ AwaitProbe \/ AwaitSample \/ AwaitStop \/ Reconcile
  PROVE  PlanInHand'
<1> DEFINE p == Now.of
<1>1. PICK what \in {"attempt", "sample", "stop", "awaitProbe", "awaitSample", "awaitStop", "reconcile"} :
        Doing(what)
  BY DEF SendStart, SendSample, Stop, AwaitProbe, AwaitSample, AwaitStop, Reconcile
<1>2. p \in Providers /\ IInv /\ NoPlan \in Plans /\ what \notin Resyncing
  BY <1>1, HeadIsAStep, NoPlanIsAPlan, NotResyncing DEF PInv
<1>3. <<>> \in Seq(Plain) /\ NoDesires(<<>>)
  BY EmptyIsPlain, ShortOnesDesireNothing
<1>4. <<SyncStep>> \in Seq(Plain) /\ NoDesires(<<SyncStep>>) /\ <<SyncStep>> # <<>>
      /\ Head(<<SyncStep>>) = SyncStep
  <2> DEFINE y == SyncStep
  <2>1. y.do # "desire"
    BY DEF SyncStep, Step, StepWith
  <2> HIDE DEF y
  <2>2. NoDesires(<<y>>) /\ <<y>> # <<>> /\ Head(<<y>>) = y
    BY <2>1, ShortOnesDesireNothing
  <2>3. QED
    BY <2>2, SyncAlone DEF y
<1>5. UNCHANGED <<desired, plan>>
  BY DEF SendStart, SendSample, Stop, AwaitProbe, AwaitSample, AwaitStop, Reconcile
<1>6. ASSUME KeepsCaps
      PROVE  plan' # Effective' <=> plan # Effective
  BY <1>5, <1>6, KeepsEffective
<1>7. CASE Then(<<>>) /\ KeepsCaps
  BY <1>1, <1>2, <1>3, <1>5, <1>7, PlanUntold
<1>8. CASE Then(<<SyncStep>>)
  BY <1>1, <1>2, <1>4, <1>5, <1>8, PlanUntold
<1>9. CASE SendStart
  <2>1. Then(<<StepWith("awaitStart", p, NoPlan, Now.tag, FALSE)>>) /\ KeepsCaps
    BY <1>2, <1>9, SendersKeep DEF SendStart
  <2>2. Doing("attempt") /\ Now.tag \in {"Start", "Reconfigure"}
    BY <1>2, <1>9, HeadIsAStep DEF SendStart
  <2>3. QED
    BY <1>2, <1>6, <2>1, <2>2, PlanWaits, NotResyncing DEF Waits
<1>10. CASE SendSample
  <2>1. KeepsCaps /\ Doing("sample")
        /\ (Then(<<>>) \/ Then(<<StepWith("awaitSample", p, NoPlan, "", FALSE)>>))
    BY <1>2, <1>10, SendersKeep DEF SendSample, Step
  <2>2. CASE Then(<<StepWith("awaitSample", p, NoPlan, "", FALSE)>>)
    BY <1>2, <1>6, <2>1, <2>2, PlanWaits, NotResyncing DEF Waits
  <2>3. QED
    BY <1>7, <2>1, <2>2
<1>11. CASE Stop
  <2>1. KeepsCaps /\ Doing("stop") /\ Now.cfg \in Plans /\ Now.tag \in Whys
        /\ (Then(<<>>) \/ Then(<<StepWith("awaitStop", p, Now.cfg, Now.tag, FALSE)>>))
    BY <1>2, <1>11, SendersKeep, HeadIsAStep DEF Stop
  <2>2. CASE Then(<<StepWith("awaitStop", p, Now.cfg, Now.tag, FALSE)>>)
    BY <1>2, <1>6, <2>1, <2>2, PlanWaits, NotResyncing DEF Waits
  <2>3. QED
    BY <1>7, <2>1, <2>2
<1>12. CASE AwaitStop
  BY <1>2, <1>7, <1>12, SendersKeep DEF AwaitStop
<1>13. CASE AwaitProbe \/ AwaitSample
  BY <1>2, <1>7, <1>8, <1>13, AwaitersKeep
<1>14. CASE Reconcile
  <2> DEFINE x(flag) == StepWith("cleanup", p, NoPlan, "", flag)
  <2>1. \A flag \in BOOLEAN : x(flag) \in Plain /\ x(flag).do # "desire"
    <3> SUFFICES ASSUME NEW flag \in BOOLEAN
                 PROVE  x(flag) \in Plain /\ x(flag).do # "desire"
      OBVIOUS
    <3>1. x(flag) \in Plain
      BY <1>2, PlainStep
    <3>2. QED
      BY <3>1 DEF StepWith
  <2>2. \/ KeepsCaps /\ Then(<<>>)
        \/ KeepsCaps /\ Then(<<x(TRUE)>>)
        \/ \E flag \in BOOLEAN : Then(<<SyncStep, x(flag)>>)
    BY <1>2, <1>14, ReconcileIs
  <2> HIDE DEF x
  <2>3. CASE KeepsCaps /\ Then(<<x(TRUE)>>)
    <3> DEFINE z == x(TRUE)
    <3>1. z \in Plain /\ z.do # "desire"
      BY <2>1
    <3>2. Then(<<z>>)
      BY <2>3
    <3> HIDE DEF z
    <3>3. <<z>> \in Seq(Plain) /\ NoDesires(<<z>>)
      BY <3>1, ShortOnesDesireNothing
    <3>4. QED
      BY <1>1, <1>2, <1>5, <2>3, <3>2, <3>3, PlanUntold
  <2>4. ASSUME NEW flag \in BOOLEAN, Then(<<SyncStep, x(flag)>>)
        PROVE  PlanInHand'
    <3> DEFINE y == SyncStep
               s == <<y, x(flag)>>
    <3>1. y \in Plain /\ y.do # "desire"
      BY PlainSync, Fields
    <3> HIDE DEF y
    <3>2. x(flag) \in Plain /\ x(flag).do # "desire"
      BY <2>1
    <3> DEFINE z == x(flag)
    <3> HIDE DEF z
    <3>5. <<y, z>> \in Seq(Plain) /\ <<y, z>> # <<>> /\ Head(<<y, z>>) = y
      BY <3>1, <3>2 DEF z
    <3>6. NoDesires(<<y, z>>)
      BY <3>1, <3>2, ShortOnesDesireNothing DEF z
    <3>3. Then(s)
      BY <2>4 DEF y
    <3> HIDE DEF s
    <3>4. QED
      BY <1>1, <1>2, <1>5, <3>3, <3>5, <3>6, PlanUntold DEF y, s, z
  <2>5. QED
    BY <1>7, <2>2, <2>3, <2>4
<1>15. QED
  BY <1>9, <1>10, <1>11, <1>12, <1>13, <1>14

LEMMA ApplyKeepsPlan == ASSUME PInv, Apply PROVE PlanInHand'
<1> DEFINE p == Now.of
           x == Step("reconcile", p)
           y == StepWith("settle", p, Now.cfg, "", rt[p].plan # Now.cfg)
<1>1. Doing("apply") /\ p \in Providers /\ Now.cfg \in Plans /\ IInv /\ rt[p] \in Runtimes
  <2>1. Doing("apply") /\ IInv
    BY DEF Apply, PInv
  <2>2. p \in Providers /\ Now.cfg \in Plans
    BY <2>1, HeadIsAStep
  <2>3. QED
    BY <2>1, <2>2 DEF IInv, TypeOK
<1>2. UNCHANGED <<desired, plan>>
  BY DEF Apply
<1>3. CASE Now.cfg = NoPlan
  BY <1>1, <1>2, <1>3, PlanUntouched, EmptyIsPlain, ShortOnesDesireNothing, NotResyncing DEF Apply
<1>4. CASE Now.cfg # NoPlan
  <2>1. x \in Plain /\ x.do # "desire"
    BY <1>1, PlainStep, NoPlanIsAPlan DEF Step, StepWith
  <2>2. y \in Plain /\ y.do # "desire"
    <3>1. (rt[p].plan # Now.cfg) \in BOOLEAN
      OBVIOUS
    <3>2. y \in Plain
      BY <1>1, <3>1, PlainStep
    <3>3. QED
      BY <3>2 DEF StepWith
  <2>3. Then(<<x, y>>)
    BY <1>4 DEF Apply
  <2>4. KeepsCaps
    <3> DEFINE r == [rt[p] EXCEPT !.plan = Now.cfg]
    <3>1. r.caps = rt[p].caps /\ rt' = [rt EXCEPT ![p] = r]
      BY <1>1, <1>4, FieldsKeepCaps DEF Apply
    <3> HIDE DEF r
    <3>2. QED
      BY <1>1, <3>1 DEF KeepsCaps, IInv, TypeOK
  <2> HIDE DEF x, y
  <2>5. <<x, y>> \in Seq(Plain) /\ NoDesires(<<x, y>>)
    BY <2>1, <2>2, ShortOnesDesireNothing
  <2>6. QED
    BY <1>1, <1>2, <2>3, <2>4, <2>5, PlanUntold, NotResyncing
<1>5. QED
  BY <1>3, <1>4

\* An attempt to start is followed by another look at the plan.
LEMMA AttemptKeepsPlan ==
  ASSUME PInv, NEW what, Doing(what), what \notin Resyncing, UNCHANGED <<desired, plan, rt>>,
         NEW x \in Steps, x.do = "attempt", NEW t \in Seq(Plain), NoDesires(t),
         Then(<<x, SyncStep>> \o t)
  PROVE  PlanInHand'
<1> DEFINE y == SyncStep
           s == <<x, y>> \o t
<1>1. y \in Steps /\ y.do = "sync" /\ t \in Seq(Steps)
  <2>1. y \in Steps
    BY PlainSync DEF Plain
  <2>2. y.do = "sync"
    BY DEF SyncStep, Step, StepWith
  <2>3. t \in Seq(Steps)
    BY PlainIsAStack DEF Stacks
  <2>4. QED
    BY <2>1, <2>2, <2>3
<1>2. Then(s)
  OBVIOUS
<1> HIDE DEF y
<1>3. /\ Len(t) \in Nat /\ s \in Seq(Steps) /\ Len(s) = Len(t) + 2 /\ s[1] = x /\ s[2] = y
      /\ \A i \in 3 .. Len(s) : i - 2 \in 1 .. Len(t) /\ s[i] = t[i - 2]
  <2> DEFINE a == <<x, y>>
  <2>1. a \in Seq(Steps) /\ Len(a) = 2 /\ a[1] = x /\ a[2] = y
    BY <1>1
  <2> HIDE DEF a
  <2>2. s = a \o t
    BY DEF a
  <2> HIDE DEF s
  <2>3. /\ Len(t) \in Nat /\ s \in Seq(Steps) /\ Len(s) = 2 + Len(t)
        /\ \A i \in 1 .. 2 + Len(t) : s[i] = IF i <= 2 THEN a[i] ELSE t[i - 2]
    <3>1. a \in Seq(Steps) /\ t \in Seq(Steps)
      BY <1>1, <2>1
    <3>2. /\ a \o t \in Seq(Steps) /\ Len(a \o t) = Len(a) + Len(t)
          /\ \A i \in 1 .. Len(a) + Len(t) :
               (a \o t)[i] = IF i <= Len(a) THEN a[i] ELSE t[i - Len(a)]
      BY <3>1, ConcatProperties, Zenon
    <3>3. Len(t) \in Nat
      BY <3>1
    <3>4. QED
      BY <2>1, <2>2, <3>2, <3>3
  <2>4. QED
    BY <2>1, <2>3
<1> HIDE DEF s
<1>4. NoDesires(s)
  <2> SUFFICES ASSUME NEW i \in 1 .. Len(s)
               PROVE  s[i].do # "desire"
    BY DEF NoDesires
  <2>1. i = 1 \/ i = 2 \/ i \in 3 .. Len(s)
    BY <1>3
  <2>2. QED
    BY <1>1, <1>3, <2>1 DEF NoDesires
<1>5. agenda # <<>> /\ agenda \in Seq(Steps) /\ agenda' = s \o Tail(agenda) /\ plan = Effective
  BY <1>2 DEF PInv, IInv, CallsInOrder, Stacks, Doing, Then, PlanInHand
<1>6. Followed(agenda', Ahead)
  BY <1>3, <1>4, <1>5, FollowedRest DEF PInv, PlanInHand, NoDesires
<1>7. 2 \in 1 .. Len(agenda') /\ agenda'[2] = y
  <2>1. /\ Len(agenda) \in Nat \ {0} /\ Len(agenda') = Len(s) + Len(agenda) - 1
        /\ \A i \in 1 .. Len(s) : i \in 1 .. Len(agenda') /\ agenda'[i] = s[i]
    <3>1. s \in Seq(Steps)
      BY <1>3
    <3>2. QED
      BY <1>5, <3>1, Restacked
  <2>2. QED
    BY <1>3, <2>1
<1>8. Effective' = Effective
  BY DEF Effective
<1>9. QED
  BY <1>1, <1>5, <1>6, <1>7, <1>8 DEF PlanInHand

LEMMA OneOfThree ==
  ASSUME NEW S, NEW x \in S, NEW y \in S, NEW z \in S
  PROVE  <<x, y>> \o <<z>> = <<x, y, z>> /\ <<x, y>> \o <<>> = <<x, y>>
<1> DEFINE a == <<x, y>>
           b == <<z>>
           c == <<x, y, z>>
           d == a \o b
<1>1. a \in Seq(S) /\ Len(a) = 2 /\ a[1] = x /\ a[2] = y /\ b \in Seq(S) /\ Len(b) = 1 /\ b[1] = z
  OBVIOUS
<1>2. c \in Seq(S) /\ Len(c) = 3 /\ c[1] = x /\ c[2] = y /\ c[3] = z
  OBVIOUS
<1>3. d \in Seq(S) /\ Len(d) = 3 /\ d[1] = x /\ d[2] = y /\ d[3] = z
  BY <1>1
<1>4. a \o <<>> = a
  BY <1>1
<1> HIDE DEF a, b, c, d
<1>5. \A i \in 1 .. Len(d) : d[i] = c[i]
  BY <1>2, <1>3
<1>6. d = c
  BY <1>2, <1>3, <1>5, SeqEqual
<1>7. QED
  BY <1>4, <1>6 DEF a, b, c, d

LEMMA AttemptersKeepPlan == ASSUME PInv, Settle \/ Retry PROVE PlanInHand'
<1> DEFINE p == Now.of
           y == SyncStep
           z == Step("shed", p)
<1>1. PICK what \in {"settle", "retry"} : Doing(what)
  BY DEF Settle, Retry
<1>2. /\ p \in Providers /\ rt[p] \in Runtimes /\ Now.cfg \in Plans /\ what \notin Resyncing
      /\ UNCHANGED <<desired, plan, rt>>
  BY <1>1, HeadIsAStep, NotResyncing DEF PInv, IInv, TypeOK, Settle, Retry
<1>3. <<>> \in Seq(Plain) /\ NoDesires(<<>>)
  BY EmptyIsPlain, ShortOnesDesireNothing
<1>4. z \in Plain /\ z.do # "desire"
  BY <1>2, PlainStep, NoPlanIsAPlan DEF Step, StepWith
<1>5. \/ Then(<<>>) \/ Then(<<StopStep(p, "apply", Now.cfg)>>)
      \/ \E cfg \in Plans, action \in {"Start", "Reconfigure"} :
           Then(<<AttemptStep(p, cfg, action), y, z>>) \/ Then(<<AttemptStep(p, cfg, action), y>>)
  <2>1. CASE Settle
    <3> DEFINE action == IF rt[p].retry # "None" THEN rt[p].retry
                         ELSE IF rt[p].started THEN "Reconfigure" ELSE "Start"
    <3>1. action \in {"Start", "Reconfigure"}
      BY <1>2 DEF Runtimes
    <3>2. \/ Then(<<>>) \/ Then(<<StopStep(p, "apply", Now.cfg)>>)
          \/ Then(<<AttemptStep(p, Now.cfg, action), y, z>>)
      BY <2>1 DEF Settle
    <3> HIDE DEF action, y, z
    <3>3. QED
      BY <1>2, <3>1, <3>2
  <2>2. CASE Retry
    <3>1. rt[p].retry # "None" => rt[p].retry \in {"Start", "Reconfigure"} /\ rt[p].plan \in Plans
      BY <1>2 DEF Runtimes
    <3>2. \/ Then(<<>>)
          \/ rt[p].retry # "None" /\ Then(<<AttemptStep(p, rt[p].plan, rt[p].retry), y>>)
      BY <2>2 DEF Retry
    <3> HIDE DEF y, z
    <3>3. QED
      BY <3>1, <3>2
  <2>3. QED
    BY <2>1, <2>2
<1>6. CASE Then(<<>>)
  BY <1>1, <1>2, <1>3, <1>6, PlanUntouched
<1>7. CASE Then(<<StopStep(p, "apply", Now.cfg)>>)
  <2> DEFINE x == StopStep(p, "apply", Now.cfg)
  <2>1. x \in Plain /\ x.do # "desire"
    BY <1>2, PlainStop, Fields DEF Whys
  <2>2. Then(<<x>>)
    BY <1>7
  <2> HIDE DEF x
  <2>3. <<x>> \in Seq(Plain) /\ NoDesires(<<x>>)
    BY <2>1, ShortOnesDesireNothing
  <2>4. QED
    BY <1>1, <1>2, <2>2, <2>3, PlanUntouched
<1>8. ASSUME NEW cfg \in Plans, NEW action \in {"Start", "Reconfigure"},
             Then(<<AttemptStep(p, cfg, action), y, z>>) \/ Then(<<AttemptStep(p, cfg, action), y>>)
      PROVE  PlanInHand'
  <2> DEFINE x == AttemptStep(p, cfg, action)
  <2>1. x \in Steps /\ x.do = "attempt"
    BY <1>2, AttemptIsAStep
  <2>2. y \in Steps
    BY PlainSync DEF Plain
  <2>3. z \in Steps
    BY <1>4 DEF Plain
  <2>4. Then(<<x, y, z>>) \/ Then(<<x, y>>)
    BY <1>8
  <2> HIDE DEF x, y, z
  <2>5. <<x, y>> \o <<z>> = <<x, y, z>> /\ <<x, y>> \o <<>> = <<x, y>>
    BY <2>1, <2>2, <2>3, OneOfThree
  <2>6. <<z>> \in Seq(Plain) /\ NoDesires(<<z>>)
    BY <1>4, ShortOnesDesireNothing
  <2>7. CASE Then(<<x, y, z>>)
    BY <1>1, <1>2, <2>1, <2>5, <2>6, <2>7, AttemptKeepsPlan DEF y
  <2>8. CASE Then(<<x, y>>)
    BY <1>1, <1>2, <1>3, <2>1, <2>5, <2>8, AttemptKeepsPlan DEF y
  <2>9. QED
    BY <2>4, <2>7, <2>8
<1>9. QED
  BY <1>5, <1>6, <1>7, <1>8

LEMMA AwaitStartKeepsPlan == ASSUME PInv, AwaitStart PROVE PlanInHand'
<1>1. /\ agenda # <<>> /\ agenda \in Seq(Steps) /\ agenda' = <<>> \o Tail(agenda)
      /\ Doing("awaitStart")
  BY DEF PInv, IInv, CallsInOrder, Stacks, AwaitStart, Doing, Then
<1>2. <<>> \in Seq(Steps) /\ Len(<<>>) = 0 /\ \A i \in 1 .. Len(<<>>) : <<>>[i].do # "desire"
  BY ShortOnesDesireNothing DEF NoDesires
<1>3. Followed(agenda', Ahead)
  BY <1>1, <1>2, FollowedRest DEF PInv, PlanInHand
<1>4. 2 \in 1 .. Len(agenda) /\ agenda[2].do = "sync"
  BY <1>1 DEF PInv, PlanInHand
<1>5. 1 \in 1 .. Len(agenda') /\ agenda'[1] = agenda[2]
  <2>1. \A i \in 2 .. Len(agenda) : i - 1 + 0 \in 1 .. Len(agenda') /\ agenda'[i - 1 + 0] = agenda[i]
    BY <1>1, <1>2, Restacked
  <2>2. QED
    BY <1>4, <2>1
<1>6. agenda' # <<>> /\ Head(agenda').do = "sync"
  BY <1>4, <1>5
<1>7. QED
  BY <1>3, <1>6 DEF PlanInHand, Doing, Resyncing

LEMMA OthersKeepPlan ==
  ASSUME PInv,
         \/ \E p \in Providers : Worker(p) \/ WorkerDies(p) \/ RetryFallsDue(p) \/ SampleFallsDue(p)
         \/ DeadlinePasses
         \/ UNCHANGED vars
  PROVE  PlanInHand' /\ KeepsPlans /\ KeepsCaps
<1>1. UNCHANGED <<desired, plan, agenda>>
  BY DEF Worker, WorkerCalls, WorkerRefuses, WorkerAnswers, WorkerAnswersWith, WorkerDies,
         RetryFallsDue, SampleFallsDue, DeadlinePasses, vars
<1>2. KeepsCaps /\ KeepsPlans
  <2>1. CASE rt' = rt
    BY <2>1 DEF KeepsCaps, KeepsPlans
  <2>2. ASSUME NEW p \in Providers, RetryFallsDue(p) \/ SampleFallsDue(p)
        PROVE  KeepsCaps /\ KeepsPlans
    <3>1. rt[p] \in Runtimes /\ TypeOK
      BY DEF PInv, IInv, TypeOK
    <3>2. PICK r \in {[rt[p] EXCEPT !.retryDue = TRUE], [rt[p] EXCEPT !.sampleDue = TRUE]} :
            rt' = [rt EXCEPT ![p] = r]
      BY <2>2 DEF RetryFallsDue, SampleFallsDue
    <3>3. r.caps = rt[p].caps /\ r.plan = rt[p].plan
      BY <3>1, <3>2 DEF Runtimes
    <3>4. QED
      BY <3>1, <3>2, <3>3, OneRuntime
  <2>3. QED
    BY <2>1, <2>2 DEF Worker, WorkerCalls, WorkerRefuses, WorkerAnswers, WorkerAnswersWith,
                      WorkerDies, DeadlinePasses, vars
<1>3. Effective' = Effective
  BY <1>1, <1>2, KeepsEffective
<1>4. QED
  BY <1>1, <1>2, <1>3 DEF PInv, PlanInHand, Doing

LEMMA PlanInHandAtFirst == ASSUME Init PROVE PlanInHand
<1>1. plan = Effective
  <2>1. desired = [p \in Providers |-> NoPlan] /\ plan = desired
    BY DEF Init
  <2>2. QED
    BY <2>1 DEF Effective
<1>2. agenda = <<>>
  BY DEF Init
<1>3. QED
  BY <1>1, <1>2 DEF PlanInHand, Followed, Doing

LEMMA StepKeepsPlan == ASSUME PInv, [Next]_vars PROVE PInv'
<1>1. IInv'
  BY StepKeeps DEF PInv
<1>2. PlanInHand'
  BY RequestsKeepPlan, DesireKeepsPlan, ResyncsKeepPlan, QuietOnesKeepPlan, ApplyKeepsPlan,
     AttemptersKeepPlan, CallsKeepPlan, AwaitStartKeepsPlan, OthersKeepPlan DEF Next, Host
<1>3. QED
  BY <1>1, <1>2 DEF PInv

-----------------------------------------------------------------------------
(* The steps on the stack, and those under its head.                       *)

Under(a) == {a[i] : i \in 2 .. Len(a)}
Members(a) == {a[i] : i \in 1 .. Len(a)}

LEMMA MembersOf ==
  ASSUME NEW S, NEW a \in Seq(S)
  PROVE  /\ Members(a) \subseteq S /\ Under(a) \subseteq Members(a)
         /\ a = <<>> => Members(a) = {}
         /\ a # <<>> => Members(a) = {Head(a)} \union Under(a) /\ Head(a) \in Members(a)
<1>1. Len(a) \in Nat /\ \A i \in 1 .. Len(a) : a[i] \in S
  BY ElementOfSeq
<1>2. a # <<>> => Len(a) \in Nat \ {0} /\ Head(a) = a[1]
  BY EmptySeq
<1>3. a = <<>> => Len(a) = 0
  OBVIOUS
<1>4. Members(a) \subseteq S /\ Under(a) \subseteq Members(a)
  BY <1>1 DEF Members, Under
<1>5. CASE a # <<>>
  <2>1. \A i \in 1 .. Len(a) : i = 1 \/ i \in 2 .. Len(a)
    BY <1>1
  <2>2. 1 \in 1 .. Len(a)
    BY <1>2, <1>5
  <2>3. Members(a) = {Head(a)} \union Under(a)
    BY <1>2, <1>4, <1>5, <2>1, <2>2 DEF Members, Under
  <2>4. QED
    BY <1>4, <1>5, <2>3
<1>6. CASE a = <<>>
  <2>1. 1 .. Len(a) = {}
    BY <1>3, <1>6
  <2>2. Members(a) = {}
    BY <2>1 DEF Members
  <2>3. QED
    BY <1>4, <1>6, <2>2
<1>7. QED
  BY <1>5, <1>6

LEMMA ShortMembers ==
  ASSUME NEW x, NEW y, NEW z
  PROVE  /\ Members(<<>>) = {} /\ Members(<<x>>) = {x} /\ Members(<<x, y>>) = {x, y}
         /\ Members(<<x, y, z>>) = {x, y, z}
         /\ Under(<<x>>) = {} /\ Under(<<x, y>>) = {y} /\ Under(<<x, y, z>>) = {y, z}
<1>1. 1 .. 0 = {} /\ 1 .. 1 = {1} /\ 1 .. 2 = {1, 2} /\ 1 .. 3 = {1, 2, 3}
      /\ 2 .. 1 = {} /\ 2 .. 2 = {2} /\ 2 .. 3 = {2, 3}
  OBVIOUS
<1>2. QED
  BY <1>1 DEF Members, Under

LEMMA PairMembers == \A x, y : Members(<<x, y>>) = {x, y}
<1>1. 1 .. 2 = {1, 2}
  OBVIOUS
<1>2. QED
  BY <1>1 DEF Members

\* The stack after a step whose head is replaced by s.
LEMMA NewStack ==
  ASSUME IInv, agenda # <<>>, NEW s \in Seq(Steps), Then(s)
  PROVE  /\ agenda \in Seq(Steps) /\ Now \in Steps /\ Under(agenda) \subseteq Plain
         /\ Members(agenda) = {Now} \union Under(agenda)
         /\ Members(agenda') = Members(s) \union Under(agenda)
         /\ s # <<>> => /\ agenda' # <<>> /\ Head(agenda') = Head(s)
                        /\ Under(agenda') = Under(s) \union Under(agenda)
         /\ s = <<>> => /\ Under(agenda') \subseteq Under(agenda)
                        /\ agenda' # <<>> => Head(agenda') \in Under(agenda)
         /\ agenda' \in Seq(Steps)
<1>1. agenda \in Seq(Steps) /\ agenda' = s \o Tail(agenda)
      /\ \A i \in 2 .. Len(agenda) : agenda[i] \in Plain
  BY DEF IInv, CallsInOrder, Stacks, Then
<1>2. /\ Len(agenda) \in Nat \ {0} /\ Len(s) \in Nat /\ Len(agenda') = Len(s) + Len(agenda) - 1
      /\ \A i \in 1 .. Len(s) : i \in 1 .. Len(agenda') /\ agenda'[i] = s[i]
      /\ \A i \in 1 .. Len(agenda') :
           i \notin 1 .. Len(s) =>
             i - Len(s) + 1 \in 2 .. Len(agenda) /\ agenda'[i] = agenda[i - Len(s) + 1]
      /\ \A i \in 2 .. Len(agenda) :
           i - 1 + Len(s) \in 1 .. Len(agenda') /\ agenda'[i - 1 + Len(s)] = agenda[i]
  BY <1>1, Restacked
<1>3. Now \in Steps /\ Under(agenda) \subseteq Plain /\ Members(agenda) = {Now} \union Under(agenda)
  <2>1. Under(agenda) \subseteq Plain
    BY <1>1 DEF Under
  <2>2. Members(agenda) = {Now} \union Under(agenda) /\ Members(agenda) \subseteq Steps
        /\ Now \in Members(agenda)
    BY <1>1, MembersOf DEF Now
  <2>3. QED
    BY <2>1, <2>2
<1>4. Members(agenda') = Members(s) \union Under(agenda)
  <2>1. ASSUME NEW x \in Members(agenda')
        PROVE  x \in Members(s) \union Under(agenda)
    <3>1. PICK i \in 1 .. Len(agenda') : x = agenda'[i]
      BY DEF Members
    <3>2. CASE i \in 1 .. Len(s)
      BY <1>2, <3>1, <3>2 DEF Members
    <3>3. CASE i \notin 1 .. Len(s)
      BY <1>2, <3>1, <3>3 DEF Under
    <3>4. QED
      BY <3>2, <3>3
  <2>2. Members(s) \subseteq Members(agenda')
    BY <1>2 DEF Members
  <2>3. ASSUME NEW x \in Under(agenda)
        PROVE  x \in Members(agenda')
    <3>1. PICK i \in 2 .. Len(agenda) : x = agenda[i]
      BY DEF Under
    <3>2. i - 1 + Len(s) \in 1 .. Len(agenda') /\ agenda'[i - 1 + Len(s)] = x
      BY <1>2, <3>1
    <3> DEFINE k == i - 1 + Len(s)
    <3> HIDE DEF k
    <3>3. k \in 1 .. Len(agenda') /\ agenda'[k] = x
      BY <3>2 DEF k
    <3>4. QED
      BY <3>3 DEF Members
  <2>4. QED
    BY <2>1, <2>2, <2>3
<1>5. agenda' \in Seq(Steps)
  <2>1. Tail(agenda) \in Seq(Steps)
    BY <1>1
  <2>2. QED
    BY <1>1, <2>1, ConcatProperties, Zenon
<1>6. CASE s # <<>>
  <2>1. Len(s) # 0 /\ Len(s) \in Nat
    BY <1>2, <1>6, EmptySeq
  <2>2. 1 \in 1 .. Len(s) /\ Len(agenda') # 0
    BY <1>2, <2>1
  <2>3. agenda' # <<>> /\ Head(agenda') = agenda'[1] /\ agenda'[1] = s[1] /\ Head(s) = s[1]
    BY <1>2, <1>5, <2>1, <2>2
  <2>4. ASSUME NEW x \in Under(agenda')
        PROVE  x \in Under(s) \union Under(agenda)
    <3>1. PICK i \in 2 .. Len(agenda') : x = agenda'[i]
      BY DEF Under
    <3>2. CASE i \in 1 .. Len(s)
      <4>1. i \in 2 .. Len(s)
        BY <2>1, <3>2
      <4>2. QED
        BY <1>2, <3>1, <3>2, <4>1 DEF Under
    <3>3. CASE i \notin 1 .. Len(s)
      <4>1. i \in 1 .. Len(agenda')
        BY <1>2
      <4>2. QED
        BY <1>2, <3>1, <3>3, <4>1 DEF Under
    <3>4. QED
      BY <3>2, <3>3
  <2>5. Under(s) \subseteq Under(agenda')
    <3>1. \A i \in 2 .. Len(s) : i \in 1 .. Len(s) /\ i \in 2 .. Len(agenda')
      BY <1>2
    <3>2. QED
      BY <1>2, <3>1 DEF Under
  <2>6. ASSUME NEW x \in Under(agenda)
        PROVE  x \in Under(agenda')
    <3>1. PICK i \in 2 .. Len(agenda) : x = agenda[i]
      BY DEF Under
    <3> DEFINE k == i - 1 + Len(s)
    <3>2. k \in 2 .. Len(agenda') /\ agenda'[k] = x
      BY <1>2, <2>1, <3>1
    <3> HIDE DEF k
    <3>3. QED
      BY <3>2 DEF Under
  <2>7. QED
    BY <1>1, <1>3, <1>4, <1>5, <1>6, <2>3, <2>4, <2>5, <2>6
<1>7. CASE s = <<>>
  <2>1. Members(s) = {} /\ Members(agenda') = Under(agenda)
    BY <1>4, <1>7, ShortMembers
  <2>2. /\ Under(agenda') \subseteq Members(agenda')
        /\ agenda' # <<>> => Head(agenda') \in Members(agenda')
    BY <1>5, MembersOf
  <2>3. QED
    BY <1>1, <1>3, <1>4, <1>5, <1>7, <2>1, <2>2
<1>8. QED
  BY <1>6, <1>7

-----------------------------------------------------------------------------
(* What the steps of the host leave on the stack in their place.           *)

Leaves(p) ==
  /\ Now.do \notin {"applyDesired", "probe", "attempt"}
  /\ Now.do = "sync" => shuttingDown \/ Effective = plan
  /\ Now.do = "apply" => Now.cfg = NoPlan
  /\ Now.do = "settle" => /\ ~paused /\ Enabled(Now.cfg)
                          /\ Busy(p) \/ (rt[p].started /\ ~Now.flag)
  /\ Now.do = "shed" => ~(rt[p].started /\ rt[p].plan # NoPlan /\ ~Enabled(rt[p].plan))
  /\ Now.do = "cleanup" => ~Now.flag /\ ~(rt[p].started /\ ~Active(p))
  /\ Now.do = "stop" => Busy(p) \/ ~rt[p].started \/ (shuttingDown /\ late)

Pushes(p, s) ==
  \/ s = <<>> /\ Leaves(p)
  \/ Now.do = "applyDesired" /\ s = ApplyLoop(Effective, FALSE)
  \/ Now.do = "sync" /\ ~shuttingDown /\ Effective # plan /\ s = ApplyLoop(Effective, FALSE)
  \/ Now.do = "probe" /\ s = <<Step("reconcile", p), Step("sendProbe", p)>>
  \/ /\ Now.do = "apply" /\ Now.cfg # NoPlan
     /\ s = <<Step("reconcile", p),
              StepWith("settle", p, Now.cfg, "", rt[p].plan # Now.cfg)>>
  \/ /\ Now.do = "settle" /\ (paused \/ ~Enabled(Now.cfg))
     /\ s = <<StopStep(p, "apply", Now.cfg)>>
  \/ /\ Now.do = "settle" /\ ~paused /\ Enabled(Now.cfg) /\ ~Busy(p)
     /\ \E action \in {"Start", "Reconfigure"} :
          s = <<AttemptStep(p, Now.cfg, action), SyncStep, Step("shed", p)>>
  \/ /\ Now.do = "shed" /\ rt[p].started /\ rt[p].plan # NoPlan /\ ~Enabled(rt[p].plan)
     /\ s = <<StopStep(p, "shed", NoPlan)>>
  \/ /\ Now.do = "retry" /\ Active(p) /\ ~Busy(p) /\ rt[p].retry # "None"
     /\ s = <<AttemptStep(p, rt[p].plan, rt[p].retry), SyncStep>>
  \/ Now.do = "sendProbe" /\ ~Busy(p) /\ s = <<Step("awaitProbe", p)>>
  \/ Now.do = "attempt" /\ s = <<StepWith("awaitStart", p, NoPlan, Now.tag, FALSE)>>
  \/ Now.do = "sample" /\ Active(p) /\ ~Busy(p) /\ rt[p].started /\ s = <<Step("awaitSample", p)>>
  \/ /\ Now.do = "stop" /\ ~Busy(p) /\ rt[p].started
     /\ s = <<StepWith("awaitStop", p, Now.cfg, Now.tag, FALSE)>>
  \/ Now.do \in {"awaitProbe", "awaitSample"} /\ s = <<SyncStep>>
  \/ Now.do = "reconcile" /\ s = <<StepWith("cleanup", p, NoPlan, "", TRUE)>>
  \/ /\ Now.do = "reconcile"
     /\ \E flag \in BOOLEAN : s = <<SyncStep, StepWith("cleanup", p, NoPlan, "", flag)>>
  \/ /\ Now.do = "cleanup" /\ (Now.flag \/ (rt[p].started /\ ~Active(p)))
     /\ s = <<StopStep(p, "cleanup", NoPlan)>>

LEMMA HostPushes ==
  ASSUME IInv, Host
  PROVE  \E s : Then(s) /\ Pushes(Now.of, s)
<1>1. CASE Desire \/ Renew \/ AwaitStart \/ AwaitStop
  BY <1>1 DEF Desire, Renew, AwaitStart, AwaitStop, Pushes, Leaves, Now, Doing
<1>2. CASE ApplyDesired
  BY <1>2 DEF ApplyDesired, Doing, Now, Pushes, Leaves
<1>3. CASE Sync
  BY <1>3 DEF Sync, Doing, Now, Pushes, Leaves
<1>4. CASE Probe
  BY <1>4 DEF Probe, Doing, Now, Pushes, Leaves
<1>5. CASE Apply
  BY <1>5 DEF Apply, Doing, Now, Pushes, Leaves
<1>6. CASE Settle
  <2> DEFINE p == Now.of
             action == IF rt[p].retry # "None" THEN rt[p].retry
                       ELSE IF rt[p].started THEN "Reconfigure" ELSE "Start"
  <2>1. action \in {"Start", "Reconfigure"} /\ Now.do = "settle"
    <3>1. p \in Providers /\ Now.do = "settle"
      BY <1>6, HeadIsAStep DEF Settle
    <3>2. rt[p] \in Runtimes
      BY <3>1 DEF IInv, TypeOK
    <3>3. QED
      BY <3>1, <3>2 DEF Runtimes
  <2>2. \/ /\ Then(<<>>) /\ ~(paused \/ ~Enabled(Now.cfg))
           /\ Busy(p) \/ (rt[p].started /\ ~Now.flag)
        \/ (paused \/ ~Enabled(Now.cfg)) /\ Then(<<StopStep(p, "apply", Now.cfg)>>)
        \/ /\ ~(paused \/ ~Enabled(Now.cfg)) /\ ~Busy(p)
           /\ Then(<<AttemptStep(p, Now.cfg, action), SyncStep, Step("shed", p)>>)
    BY <1>6 DEF Settle
  <2> HIDE DEF action
  <2>3. CASE /\ Then(<<>>) /\ ~(paused \/ ~Enabled(Now.cfg))
             /\ Busy(p) \/ (rt[p].started /\ ~Now.flag)
    BY <2>1, <2>3 DEF Pushes, Leaves
  <2>4. CASE (paused \/ ~Enabled(Now.cfg)) /\ Then(<<StopStep(p, "apply", Now.cfg)>>)
    BY <2>1, <2>4 DEF Pushes
  <2>5. CASE /\ ~(paused \/ ~Enabled(Now.cfg)) /\ ~Busy(p)
             /\ Then(<<AttemptStep(p, Now.cfg, action), SyncStep, Step("shed", p)>>)
    <3> DEFINE s == <<AttemptStep(p, Now.cfg, action), SyncStep, Step("shed", p)>>
    <3>1. Pushes(p, s)
      BY <2>1, <2>5 DEF Pushes
    <3>2. Then(s)
      BY <2>5
    <3> HIDE DEF s
    <3>3. QED
      BY <3>1, <3>2
  <2>6. QED
    BY <2>2, <2>3, <2>4, <2>5
<1>7. CASE Shed
  BY <1>7 DEF Shed, Doing, Now, Pushes, Leaves
<1>8. CASE Retry
  BY <1>8 DEF Retry, Doing, Now, Pushes, Leaves
<1>9. CASE SendProbe
  BY <1>9 DEF SendProbe, Doing, Now, Pushes, Leaves
<1>10. CASE SendStart
  BY <1>10 DEF SendStart, Doing, Now, Pushes, Leaves
<1>11. CASE SendSample
  BY <1>11 DEF SendSample, Doing, Now, Pushes, Leaves
<1>12. CASE Stop
  <2> DEFINE p == Now.of
             r == [ClearRetry(rt[p]) EXCEPT !.sampleDue = TRUE]
  <2>1. p \in Providers /\ Now.do = "stop"
    BY <1>12, HeadIsAStep DEF Stop
  <2>2. r.started = rt[p].started
    <3>1. rt[p] \in Runtimes
      BY <2>1 DEF IInv, TypeOK
    <3>2. QED
      BY <3>1 DEF Runtimes, ClearRetry
  <2>3. \/ Then(<<>>) /\ (Busy(p) \/ ~r.started \/ (shuttingDown /\ late))
        \/ ~Busy(p) /\ r.started /\ Then(<<StepWith("awaitStop", p, Now.cfg, Now.tag, FALSE)>>)
    BY <1>12 DEF Stop
  <2> HIDE DEF r
  <2>4. QED
    BY <2>1, <2>2, <2>3 DEF Pushes, Leaves
<1>13. CASE AwaitProbe \/ AwaitSample
  BY <1>13 DEF AwaitProbe, AwaitSample, Doing, Now, Pushes, Leaves
<1>14. CASE Reconcile
  <2>1. Now.do = "reconcile"
    BY <1>14 DEF Reconcile, Doing, Now
  <2>2. \/ Then(<<>>)
        \/ Then(<<StepWith("cleanup", Now.of, NoPlan, "", TRUE)>>)
        \/ \E flag \in BOOLEAN : Then(<<SyncStep, StepWith("cleanup", Now.of, NoPlan, "", flag)>>)
    BY <1>14, ReconcileIs
  <2>3. QED
    BY <2>1, <2>2 DEF Pushes, Leaves
<1>15. CASE Cleanup
  BY <1>15 DEF Cleanup, Doing, Now, Pushes, Leaves
<1>16. QED
  BY <1>1, <1>2, <1>3, <1>4, <1>5, <1>6, <1>7, <1>8, <1>9, <1>10, <1>11, <1>12, <1>13, <1>14,
     <1>15 DEF Host

LEMMA ShortSeqs ==
  ASSUME NEW S, NEW x \in S, NEW y \in S, NEW z \in S
  PROVE  /\ <<>> \in Seq(S) /\ <<x>> \in Seq(S) /\ <<x, y>> \in Seq(S) /\ <<x, y, z>> \in Seq(S)
         /\ <<x>> # <<>> /\ <<x, y>> # <<>> /\ <<x, y, z>> # <<>>
         /\ Head(<<x>>) = x /\ Head(<<x, y>>) = x /\ Head(<<x, y, z>>) = x
OBVIOUS

LEMMA SmallSteps ==
  ASSUME NEW p \in Providers
  PROVE  /\ Step("reconcile", p) \in Steps /\ Step("sendProbe", p) \in Steps
         /\ Step("shed", p) \in Steps /\ SyncStep \in Steps
         /\ Step("awaitProbe", p) \in Steps /\ Step("awaitSample", p) \in Steps
         /\ \A cfg \in Plans, flag \in BOOLEAN :
              /\ StepWith("settle", p, cfg, "", flag) \in Steps
              /\ StepWith("cleanup", p, cfg, "", flag) \in Steps
         /\ \A cfg \in Plans, why \in Whys :
              /\ StopStep(p, why, cfg) \in Steps
              /\ StepWith("awaitStop", p, cfg, why, FALSE) \in Steps
         /\ \A cfg \in Plans, action \in {"Start", "Reconfigure"} :
              /\ AttemptStep(p, cfg, action) \in Steps
              /\ StepWith("awaitStart", p, cfg, action, FALSE) \in Steps
<1>1. NoPlan \in Plans
  BY NoPlanIsAPlan
<1>2. /\ Step("reconcile", p) \in Steps /\ Step("sendProbe", p) \in Steps
      /\ Step("shed", p) \in Steps
      /\ Step("awaitProbe", p) \in Steps /\ Step("awaitSample", p) \in Steps
  BY <1>1 DEF Step, StepWith, Steps, Waits
<1>3. SyncStep \in Steps
  BY PlainSync DEF Plain
<1>4. \A cfg \in Plans, flag \in BOOLEAN :
        /\ StepWith("settle", p, cfg, "", flag) \in Steps
        /\ StepWith("cleanup", p, cfg, "", flag) \in Steps
  BY DEF StepWith, Steps
<1>5. \A cfg \in Plans, why \in Whys :
        /\ StopStep(p, why, cfg) \in Steps
        /\ StepWith("awaitStop", p, cfg, why, FALSE) \in Steps
  BY DEF StopStep, StepWith, Steps, Waits
<1>6. \A cfg \in Plans, action \in {"Start", "Reconfigure"} :
        /\ AttemptStep(p, cfg, action) \in Steps
        /\ StepWith("awaitStart", p, cfg, action, FALSE) \in Steps
  BY DEF AttemptStep, StepWith, Steps, Waits
<1>7. QED
  BY <1>2, <1>3, <1>4, <1>5, <1>6

LEMMA PushedSteps ==
  ASSUME IInv, Host, NEW s, Pushes(Now.of, s)
  PROVE  s \in Seq(Steps)
<1> DEFINE p == Now.of
<1>1. CASE s = <<>>
  BY <1>1
<1>2. CASE s = ApplyLoop(Effective, FALSE)
  <2>1. Effective \in [Providers -> Plans]
    BY EffectiveIsAPlan DEF IInv
  <2>2. ApplyLoop(Effective, FALSE) \in Seq(Plain)
    BY <2>1, ApplyLoopIsPlain
  <2>3. Plain \subseteq Steps
    BY DEF Plain
  <2>4. QED
    BY <1>2, <2>2, <2>3, SeqMonotonic
<1>3. CASE Now.do \notin {"applyDesired", "sync"}
  <2>1. /\ p \in Providers /\ Now.cfg \in Plans /\ NoPlan \in Plans
        /\ Now.do \in {"attempt", "awaitStart"} => Now.tag \in {"Start", "Reconfigure"}
        /\ Now.do \in {"stop", "awaitStop"} => Now.tag \in Whys
    <3>1. PICK what : Doing(what)
      BY DEF Host, Desire, ApplyDesired, Sync, Renew, Probe, Apply, Settle, Shed, Retry, SendProbe,
             SendStart, SendSample, Stop, AwaitProbe, AwaitStart, AwaitSample, AwaitStop,
             Reconcile, Cleanup
    <3>2. what = Now.do
      BY <3>1 DEF Doing, Now
    <3>3. QED
      BY <1>3, <3>1, <3>2, HeadIsAStep, NoPlanIsAPlan
  <2>2. rt[p] \in Runtimes
    BY <2>1 DEF IInv, TypeOK
  <2>3. rt[p].plan \in Plans /\ (rt[p].retry # "None" => rt[p].retry \in {"Start", "Reconfigure"})
    BY <2>2 DEF Runtimes
  <2> DEFINE changed == rt[p].plan # Now.cfg
  <2>4. changed \in BOOLEAN
    OBVIOUS
  <2> HIDE DEF changed, p
  <2>5. \/ s = <<>>
        \/ \E x \in Steps : s = <<x>>
        \/ \E x \in Steps, y \in Steps : s = <<x, y>>
        \/ \E x \in Steps, y \in Steps, z \in Steps : s = <<x, y, z>>
    <3>1. CASE s = <<Step("reconcile", p), Step("sendProbe", p)>>
      BY <2>1, <3>1, SmallSteps
    <3>2. CASE s = <<Step("reconcile", p), StepWith("settle", p, Now.cfg, "", changed)>>
      BY <2>1, <2>4, <3>2, SmallSteps
    <3>3. CASE \E why \in Whys, cfg \in Plans : s = <<StopStep(p, why, cfg)>>
      BY <2>1, <3>3, SmallSteps
    <3>4. CASE \E action \in {"Start", "Reconfigure"} :
                 s = <<AttemptStep(p, Now.cfg, action), SyncStep, Step("shed", p)>>
      BY <2>1, <3>4, SmallSteps
    <3>5. CASE rt[p].retry # "None" /\ s = <<AttemptStep(p, rt[p].plan, rt[p].retry), SyncStep>>
      BY <2>1, <2>3, <3>5, SmallSteps
    <3>6. CASE \/ s = <<Step("awaitProbe", p)>> \/ s = <<Step("awaitSample", p)>>
               \/ s = <<SyncStep>>
      BY <2>1, <3>6, SmallSteps
    <3>7. CASE Now.do = "attempt" /\ s = <<StepWith("awaitStart", p, NoPlan, Now.tag, FALSE)>>
      BY <2>1, <3>7, SmallSteps
    <3>8. CASE Now.do = "stop" /\ s = <<StepWith("awaitStop", p, Now.cfg, Now.tag, FALSE)>>
      BY <2>1, <3>8, SmallSteps
    <3>9. CASE s = <<StepWith("cleanup", p, NoPlan, "", TRUE)>>
      BY <2>1, <3>9, SmallSteps
    <3>10. CASE \E flag \in BOOLEAN : s = <<SyncStep, StepWith("cleanup", p, NoPlan, "", flag)>>
      BY <2>1, <3>10, SmallSteps
    <3>11. {"apply", "shed", "cleanup"} \subseteq Whys
      BY DEF Whys
    <3>12. QED
      BY <1>3, <2>1, <3>1, <3>2, <3>3, <3>4, <3>5, <3>6, <3>7, <3>8, <3>9, <3>10, <3>11
         DEF Pushes, p, changed
  <2>6. /\ \A x \in Steps : <<x>> \in Seq(Steps)
        /\ \A x \in Steps, y \in Steps : <<x, y>> \in Seq(Steps)
        /\ \A x \in Steps, y \in Steps, z \in Steps : <<x, y, z>> \in Seq(Steps)
    OBVIOUS
  <2>7. QED
    BY <1>1, <2>5, <2>6
<1>4. QED
  BY <1>1, <1>2, <1>3 DEF Pushes

\* What a step that is left on the stack tells of the step that left it.
Begets(p, x) ==
  /\ x.do \notin {"desire", "applyDesired", "renew", "probe", "retry", "sample"}
  /\ x.do = "apply" => /\ Now.do \in {"applyDesired", "sync"} /\ x.of \in Providers
                       /\ x.cfg = Effective[x.of] /\ x.flag = FALSE
                       /\ Now.do = "sync" => ~shuttingDown
  /\ x.do \notin {"apply", "sync", "reconcile"} => x.of = p
  /\ x.do = "settle" => /\ Now.do = "apply" /\ x.cfg = Now.cfg /\ Now.cfg # NoPlan
                        /\ x.flag = (rt[p].plan # Now.cfg)
  /\ x.do = "attempt" =>
       \/ Now.do = "settle" /\ x.cfg = Now.cfg /\ ~paused /\ Enabled(Now.cfg) /\ ~Busy(p)
       \/ Now.do = "retry" /\ x.cfg = rt[p].plan /\ Active(p) /\ ~Busy(p)
  /\ x.do = "shed" => Now.do = "settle" /\ ~paused /\ Enabled(Now.cfg)
  /\ x.do = "awaitStart" => Now.do = "attempt" /\ x.tag = Now.tag
  /\ x.do = "awaitSample" => Now.do = "sample" /\ Active(p) /\ ~Busy(p) /\ rt[p].started
  /\ x.do = "sendProbe" => Now.do = "probe"
  /\ x.do = "awaitProbe" => Now.do = "sendProbe" /\ ~Busy(p)
  /\ x.do = "cleanup" => Now.do = "reconcile"
  /\ x.do = "stop" =>
       \/ /\ Now.do = "settle" /\ x.tag = "apply" /\ x.cfg = Now.cfg
          /\ paused \/ ~Enabled(Now.cfg)
       \/ Now.do = "shed" /\ x.tag = "shed" /\ rt[p].started /\ ~Enabled(rt[p].plan)
       \/ Now.do = "cleanup" /\ x.tag = "cleanup" /\ (Now.flag \/ (rt[p].started /\ ~Active(p)))
  /\ x.do = "awaitStop" => /\ Now.do = "stop" /\ x.cfg = Now.cfg /\ x.tag = Now.tag
                           /\ ~Busy(p) /\ rt[p].started

LEMMA MadeSteps ==
  /\ \A do, p : Step(do, p).do = do /\ Step(do, p).of = p
  /\ \A do, p, cfg, tag, flag :
       /\ StepWith(do, p, cfg, tag, flag).do = do /\ StepWith(do, p, cfg, tag, flag).of = p
       /\ StepWith(do, p, cfg, tag, flag).cfg = cfg /\ StepWith(do, p, cfg, tag, flag).tag = tag
       /\ StepWith(do, p, cfg, tag, flag).flag = flag
BY DEF StepWith, Step

LEMMA MemberOfOne == \A u, s, x : s = <<u>> /\ x \in Members(s) => x = u
<1> SUFFICES ASSUME NEW u, NEW s, NEW x, s = <<u>>, x \in Members(s)
             PROVE  x = u
  OBVIOUS
<1>1. Members(<<u>>) = {u}
  BY ShortMembers
<1>2. QED
  BY <1>1

LEMMA MemberOfTwo == \A u, v, s, x : s = <<u, v>> /\ x \in Members(s) => x = u \/ x = v
<1> SUFFICES ASSUME NEW u, NEW v, NEW s, NEW x, s = <<u, v>>, x \in Members(s)
             PROVE  x = u \/ x = v
  OBVIOUS
<1>1. Members(<<u, v>>) = {u, v}
  BY PairMembers, Zenon
<1>2. QED
  BY <1>1

LEMMA MemberOfThree ==
  \A u, v, w, s, x : s = <<u, v, w>> /\ x \in Members(s) => x = u \/ x = v \/ x = w
<1> SUFFICES ASSUME NEW u, NEW v, NEW w, NEW s, NEW x, s = <<u, v, w>>, x \in Members(s)
             PROVE  x = u \/ x = v \/ x = w
  OBVIOUS
<1>1. Members(<<u, v, w>>) = {u, v, w}
  <2>1. 1 .. 3 = {1, 2, 3}
    OBVIOUS
  <2>2. QED
    BY <2>1 DEF Members
<1>2. QED
  BY <1>1

LEMMA Begetting ==
  ASSUME IInv, Host, NEW s, Pushes(Now.of, s), NEW x \in Members(s)
  PROVE  Begets(Now.of, x)
<1> DEFINE p == Now.of
           changed == rt[p].plan # Now.cfg
           Made(do) == x.do = do /\ x.of = p
<1> SUFFICES Begets(p, x)
  OBVIOUS
<1>0. Begets(p, SyncStep) /\ Begets(p, Step("reconcile", p))
  <2>1. SyncStep.do = "sync" /\ Step("reconcile", p).do = "reconcile"
    BY DEF SyncStep, Step, StepWith
  <2> HIDE DEF p
  <2>2. QED
    BY <2>1 DEF Begets
<1>1. CASE s = <<>>
  BY <1>1, ShortMembers
<1>2. CASE Now.do \in {"applyDesired", "sync"} /\ (Now.do = "sync" => ~shuttingDown)
           /\ s = ApplyLoop(Effective, FALSE)
  <2>1. Effective \in [Providers -> Plans]
    BY EffectiveIsAPlan DEF IInv
  <2>2. s \in Seq(Polls \union Applies(Effective, FALSE))
    BY <1>2, <2>1, ApplyLoopApplies
  <2>3. x \in Polls \union Applies(Effective, FALSE)
    BY <2>2, MembersOf
  <2>4. \/ x.do = "reconcile"
        \/ x.do = "apply" /\ x.of \in Providers /\ x.cfg = Effective[x.of] /\ x.flag = FALSE
    BY <2>3, LoopKinds
  <2> HIDE DEF p
  <2>5. QED
    BY <1>2, <2>4 DEF Begets
<1>3. CASE Now.do = "probe" /\ s = <<Step("reconcile", p), Step("sendProbe", p)>>
  <2>1. x = Step("reconcile", p) \/ x = Step("sendProbe", p)
    BY <1>3, MemberOfTwo
  <2>2. Step("sendProbe", p).do = "sendProbe" /\ Step("sendProbe", p).of = p
    BY DEF Step, StepWith
  <2>3. x = Step("reconcile", p) \/ Made("sendProbe")
    BY <2>1, <2>2
  <2> HIDE DEF p
  <2>4. QED
    BY <1>0, <1>3, <2>3 DEF Begets
<1>4. CASE /\ Now.do = "apply" /\ Now.cfg # NoPlan
           /\ s = <<Step("reconcile", p), StepWith("settle", p, Now.cfg, "", changed)>>
  <2> DEFINE u == Step("reconcile", p)
             v == StepWith("settle", p, Now.cfg, "", changed)
  <2>1. v.do = "settle" /\ v.of = p /\ v.cfg = Now.cfg /\ v.flag = changed
    BY DEF StepWith
  <2>2. s = <<u, v>>
    BY <1>4
  <2> HIDE DEF u, v
  <2>3. x = u \/ x = v
    BY <2>2, MemberOfTwo
  <2>4. x = u \/ (Made("settle") /\ x.cfg = Now.cfg /\ x.flag = changed)
    BY <2>1, <2>3
  <2> HIDE DEF p
  <2>5. QED
    BY <1>0, <1>4, <2>4 DEF Begets, u, p
<1>5. CASE /\ Now.do = "settle" /\ (paused \/ ~Enabled(Now.cfg))
           /\ s = <<StopStep(p, "apply", Now.cfg)>>
  <2>1. x = StopStep(p, "apply", Now.cfg)
    BY <1>5, MemberOfOne
  <2>2. Made("stop") /\ x.tag = "apply" /\ x.cfg = Now.cfg
    BY <2>1 DEF StopStep, StepWith
  <2> HIDE DEF p
  <2>3. QED
    BY <1>5, <2>2 DEF Begets
<1>6. ASSUME Now.do = "settle" /\ ~paused /\ Enabled(Now.cfg) /\ ~Busy(p),
             NEW action \in {"Start", "Reconfigure"},
             s = <<AttemptStep(p, Now.cfg, action), SyncStep, Step("shed", p)>>
      PROVE  Begets(p, x)
  <2>1. x = AttemptStep(p, Now.cfg, action) \/ x = SyncStep \/ x = Step("shed", p)
    BY <1>6, MemberOfThree
  <2>2. /\ Step("shed", p).do = "shed" /\ Step("shed", p).of = p
        /\ AttemptStep(p, Now.cfg, action).do = "attempt" /\ AttemptStep(p, Now.cfg, action).of = p
        /\ AttemptStep(p, Now.cfg, action).cfg = Now.cfg
    BY DEF Step, AttemptStep, StepWith
  <2>3. x = SyncStep \/ Made("shed") \/ (Made("attempt") /\ x.cfg = Now.cfg)
    BY <2>1, <2>2
  <2> HIDE DEF p
  <2>4. QED
    BY <1>0, <1>6, <2>3 DEF Begets
<1>7. CASE /\ Now.do = "shed" /\ rt[p].started /\ rt[p].plan # NoPlan /\ ~Enabled(rt[p].plan)
           /\ s = <<StopStep(p, "shed", NoPlan)>>
  <2>1. x = StopStep(p, "shed", NoPlan)
    BY <1>7, MemberOfOne
  <2>2. Made("stop") /\ x.tag = "shed"
    BY <2>1 DEF StopStep, StepWith
  <2> HIDE DEF p
  <2>3. QED
    BY <1>7, <2>2 DEF Begets
<1>8. CASE /\ Now.do = "retry" /\ Active(p) /\ ~Busy(p) /\ rt[p].retry # "None"
           /\ s = <<AttemptStep(p, rt[p].plan, rt[p].retry), SyncStep>>
  <2>1. x = AttemptStep(p, rt[p].plan, rt[p].retry) \/ x = SyncStep
    BY <1>8, MemberOfTwo
  <2>2. x = SyncStep \/ (Made("attempt") /\ x.cfg = rt[p].plan)
    BY <2>1 DEF AttemptStep, StepWith, Step
  <2> HIDE DEF p
  <2>3. QED
    BY <1>0, <1>8, <2>2 DEF Begets
<1>9. CASE \/ Now.do = "sendProbe" /\ ~Busy(p) /\ s = <<Step("awaitProbe", p)>>
           \/ /\ Now.do = "sample" /\ Active(p) /\ ~Busy(p) /\ rt[p].started
              /\ s = <<Step("awaitSample", p)>>
  <2>1. \/ Now.do = "sendProbe" /\ ~Busy(p) /\ x = Step("awaitProbe", p)
        \/ /\ Now.do = "sample" /\ Active(p) /\ ~Busy(p) /\ rt[p].started
           /\ x = Step("awaitSample", p)
    BY <1>9, MemberOfOne
  <2>2. /\ Step("awaitProbe", p).do = "awaitProbe" /\ Step("awaitProbe", p).of = p
        /\ Step("awaitSample", p).do = "awaitSample" /\ Step("awaitSample", p).of = p
    BY DEF Step, StepWith
  <2>3. \/ Now.do = "sendProbe" /\ ~Busy(p) /\ Made("awaitProbe")
        \/ /\ Now.do = "sample" /\ Active(p) /\ ~Busy(p) /\ rt[p].started /\ Made("awaitSample")
    BY <2>1, <2>2
  <2> HIDE DEF p
  <2>4. QED
    BY <2>3 DEF Begets
<1>10. CASE Now.do = "attempt" /\ s = <<StepWith("awaitStart", p, NoPlan, Now.tag, FALSE)>>
  <2>1. x = StepWith("awaitStart", p, NoPlan, Now.tag, FALSE)
    BY <1>10, MemberOfOne
  <2>2. Made("awaitStart") /\ x.tag = Now.tag
    BY <2>1 DEF StepWith, Step
  <2> HIDE DEF p
  <2>3. QED
    BY <1>10, <2>2 DEF Begets
<1>11. CASE /\ Now.do = "stop" /\ ~Busy(p) /\ rt[p].started
            /\ s = <<StepWith("awaitStop", p, Now.cfg, Now.tag, FALSE)>>
  <2>1. x = StepWith("awaitStop", p, Now.cfg, Now.tag, FALSE)
    BY <1>11, MemberOfOne
  <2>2. Made("awaitStop") /\ x.tag = Now.tag /\ x.cfg = Now.cfg
    BY <2>1 DEF StepWith, Step
  <2> HIDE DEF p
  <2>3. QED
    BY <1>11, <2>2 DEF Begets
<1>12. CASE Now.do \in {"awaitProbe", "awaitSample"} /\ s = <<SyncStep>>
  BY <1>0, <1>12, MemberOfOne
<1>13. ASSUME Now.do = "reconcile", NEW flag \in BOOLEAN,
              \/ s = <<StepWith("cleanup", p, NoPlan, "", flag)>>
              \/ s = <<SyncStep, StepWith("cleanup", p, NoPlan, "", flag)>>
       PROVE  Begets(p, x)
  <2>1. x = SyncStep \/ x = StepWith("cleanup", p, NoPlan, "", flag)
    BY <1>13, MemberOfOne, MemberOfTwo
  <2>2. /\ StepWith("cleanup", p, NoPlan, "", flag).do = "cleanup"
        /\ StepWith("cleanup", p, NoPlan, "", flag).of = p
    BY DEF StepWith
  <2>3. x = SyncStep \/ Made("cleanup")
    BY <2>1, <2>2
  <2> HIDE DEF p
  <2>4. QED
    BY <1>0, <1>13, <2>3 DEF Begets
<1>14. CASE /\ Now.do = "cleanup" /\ (Now.flag \/ (rt[p].started /\ ~Active(p)))
            /\ s = <<StopStep(p, "cleanup", NoPlan)>>
  <2>1. x = StopStep(p, "cleanup", NoPlan)
    BY <1>14, MemberOfOne
  <2>2. Made("stop") /\ x.tag = "cleanup"
    BY <2>1 DEF StopStep, StepWith
  <2> HIDE DEF p
  <2>3. QED
    BY <1>14, <2>2 DEF Begets
<1> HIDE DEF p, changed, Made
<1>15. QED
  BY <1>1, <1>2, <1>3, <1>4, <1>5, <1>6, <1>7, <1>8, <1>9, <1>10, <1>11, <1>12, <1>13, <1>14
     DEF Pushes, p, changed

\* The head of the stack tells which step the host takes.
LEMMA HostDoes ==
  ASSUME Host
  PROVE  /\ agenda # <<>> /\ Doing(Now.do)
         /\ Now.do = "desire" => Desire
         /\ Now.do = "applyDesired" => ApplyDesired
         /\ Now.do = "sync" => Sync
         /\ Now.do = "apply" => Apply
         /\ Now.do \notin {"desire", "applyDesired", "sync", "apply"} =>
              \/ Renew \/ Probe \/ Settle \/ Shed \/ Retry \/ SendProbe \/ Cleanup
              \/ SendStart \/ SendSample \/ Stop \/ AwaitStop
              \/ AwaitProbe \/ AwaitStart \/ AwaitSample \/ Reconcile
BY DEF Host, Now, Doing, Desire, ApplyDesired, Sync, Renew, Probe, Apply, Settle, Shed, Retry, SendProbe,
       SendStart, SendSample, Stop, AwaitProbe, AwaitStart, AwaitSample, AwaitStop, Reconcile, Cleanup

LEMMA OthersKeepPlans ==
  ASSUME IInv, Host, Now.do \notin {"desire", "applyDesired", "sync", "apply"}
  PROVE  KeepsPlans /\ UNCHANGED <<desired, plan>>
<1>1. \/ Renew \/ Probe \/ Settle \/ Shed \/ Retry \/ SendProbe \/ Cleanup
      \/ SendStart \/ SendSample \/ Stop \/ AwaitStop
      \/ AwaitProbe \/ AwaitStart \/ AwaitSample \/ Reconcile
  BY HostDoes
<1>2. UNCHANGED <<desired, plan>>
  BY <1>1 DEF Renew, Probe, Settle, Shed, Retry, SendProbe, Cleanup, SendStart, SendSample, Stop,
              AwaitStop, AwaitProbe, AwaitStart, AwaitSample, Reconcile
<1>3. CASE Renew \/ Probe \/ Settle \/ Shed \/ Retry \/ SendProbe \/ Cleanup
  <2>1. rt' = rt
    BY <1>3 DEF Renew, Probe, Settle, Shed, Retry, SendProbe, Cleanup
  <2>2. QED
    BY <1>2, <2>1 DEF KeepsPlans
<1>4. QED
  BY <1>1, <1>2, <1>3, SendersKeep, AwaitersKeep, ReconcileIs

\* Once something was wanted of a provider, its plan is set for good, and a set
\* plan is never unset: an unset one would be neither run nor stopped.
Wished(s) ==
  /\ s.do = "desire" => s.cfg # NoPlan
  /\ s.do = "apply" /\ s.cfg # NoPlan => plan[s.of] # NoPlan
  /\ s.do \in {"settle", "attempt", "awaitStart"} => rt[s.of].plan # NoPlan

Chosen ==
  /\ \A p \in Providers : /\ rt[p].plan # NoPlan => plan[p] # NoPlan
                          /\ plan[p] # NoPlan => desired[p] # NoPlan
  /\ \A s \in Members(agenda) : Wished(s)

Growth ==
  \A p \in Providers : /\ desired[p] # NoPlan => desired'[p] # NoPlan
                       /\ plan[p] # NoPlan => plan'[p] # NoPlan
                       /\ rt[p].plan # NoPlan => rt'[p].plan # NoPlan

LEMMA WishedStays == ASSUME Growth, NEW s \in Steps, Wished(s) PROVE Wished(s)'
<1>1. s.do \notin {"sync", "applyDesired"} => s.of \in Providers
  BY DEF Steps
<1>2. QED
  BY <1>1 DEF Growth, Wished

LEMMA EffectiveIsChosen ==
  ASSUME TypeOK, NEW p \in Providers
  PROVE  Effective[p] # NoPlan <=> desired[p] # NoPlan
<1>1. desired[p] \in Plans /\ rt[p].caps \in SUBSET Categories
  BY DEF TypeOK, Runtimes
<1>2. Unset \notin desired[p] \intersect rt[p].caps
  BY <1>1, UnsetAssumption
<1>3. QED
  BY <1>2 DEF Effective, NoPlan

\* The plans, before and after a step of the host.
LEMMA PlansGrow ==
  ASSUME IInv, Chosen, Host
  PROVE  /\ Growth
         /\ \A p \in Providers : /\ rt'[p].plan # NoPlan => plan'[p] # NoPlan
                                 /\ plan'[p] # NoPlan => desired'[p] # NoPlan
<1>1. Members(agenda) \subseteq Steps /\ Now \in Members(agenda)
  <2>1. agenda \in Seq(Steps) /\ agenda # <<>>
    BY HostDoes DEF IInv, CallsInOrder, Stacks
  <2>2. QED
    BY <2>1, MembersOf DEF Now
<1>2. Wished(Now) /\ Now \in Steps
  BY <1>1 DEF Chosen
<1>3. TypeOK
  BY DEF IInv
<1>4. CASE Now.do = "desire"
  <2>1. Desire /\ Now.cfg # NoPlan
    BY <1>2, <1>4, HostDoes DEF Wished
  <2>2. \A p \in Providers : desired[p] # NoPlan => desired'[p] # NoPlan
    BY <1>3, <2>1 DEF Desire, TypeOK
  <2>3. plan' = plan /\ rt' = rt
    BY <2>1 DEF Desire
  <2>4. QED
    BY <2>2, <2>3 DEF Growth, Chosen
<1>5. CASE Now.do \in {"applyDesired", "sync"}
  <2>1. plan' = Effective /\ desired' = desired
    BY <1>5, HostDoes DEF ApplyDesired, Sync
  <2>2. \A p \in Providers : rt'[p].plan = rt[p].plan \/ rt'[p].plan = Effective[p]
    <3>1. rt' = rt \/ rt' = [p \in Providers |-> [rt[p] EXCEPT !.plan = Effective[p]]]
      BY <1>5, HostDoes DEF ApplyDesired, Sync
    <3>2. CASE rt' = [p \in Providers |-> [rt[p] EXCEPT !.plan = Effective[p]]]
      <4> SUFFICES ASSUME NEW p \in Providers
                   PROVE  rt'[p].plan = Effective[p]
        OBVIOUS
      <4>1. rt'[p] = [rt[p] EXCEPT !.plan = Effective[p]] /\ rt[p] \in Runtimes
        BY <1>3, <3>2 DEF TypeOK
      <4>2. QED
        BY <4>1 DEF Runtimes
    <3>3. QED
      BY <3>1, <3>2
  <2>3. \A p \in Providers : Effective[p] # NoPlan <=> desired[p] # NoPlan
    BY <1>3, EffectiveIsChosen
  <2>4. QED
    BY <2>1, <2>2, <2>3 DEF Growth, Chosen
<1>6. CASE Now.do = "apply"
  <2>1. Apply /\ UNCHANGED <<desired, plan>>
    BY <1>6, HostDoes DEF Apply
  <2>2. CASE Now.cfg = NoPlan
    BY <2>1, <2>2 DEF Apply, Growth, Chosen
  <2>3. CASE Now.cfg # NoPlan
    <3> DEFINE p == Now.of
               r == [rt[p] EXCEPT !.plan = Now.cfg]
    <3>1. p \in Providers /\ rt[p] \in Runtimes /\ plan[p] # NoPlan
      BY <1>2, <1>3, <1>6, <2>3 DEF Steps, Wished, TypeOK
    <3>2. rt' = [rt EXCEPT ![p] = r]
      BY <2>1, <2>3 DEF Apply
    <3>3. r.plan = Now.cfg
      BY <3>1 DEF Runtimes
    <3> HIDE DEF r, p
    <3>4. \A q \in Providers : rt'[q] = IF q = p THEN r ELSE rt[q]
      BY <1>3, <3>1, <3>2 DEF TypeOK
    <3>5. QED
      BY <2>1, <2>3, <3>1, <3>3, <3>4 DEF Growth, Chosen
  <2>4. QED
    BY <2>2, <2>3
<1>7. CASE Now.do \notin {"desire", "applyDesired", "sync", "apply"}
  BY <1>7, OthersKeepPlans DEF KeepsPlans, Growth, Chosen
<1>8. QED
  BY <1>4, <1>5, <1>6, <1>7

LEMMA HostKeepsChosen == ASSUME IInv, Chosen, Host PROVE Chosen'
<1>1. PICK s : Then(s) /\ Pushes(Now.of, s)
  BY HostPushes
<1>2. s \in Seq(Steps) /\ agenda # <<>>
  BY <1>1, PushedSteps, HostDoes
<1>3. /\ Now \in Steps /\ Under(agenda) \subseteq Plain
      /\ Members(agenda) = {Now} \union Under(agenda)
      /\ Members(agenda') = Members(s) \union Under(agenda)
      /\ Members(s) \subseteq Steps
  <2>1. Members(s) \subseteq Steps
    BY <1>2, MembersOf
  <2>2. QED
    BY <1>1, <1>2, <2>1, NewStack
<1>4. Growth
  BY PlansGrow
<1>5. ASSUME NEW x \in Under(agenda)
      PROVE  Wished(x)'
  <2>1. x \in Steps /\ Wished(x)
    BY <1>3, <1>5 DEF Chosen, Plain
  <2>2. QED
    BY <1>4, <2>1, WishedStays
<1>6. ASSUME NEW x \in Members(s)
      PROVE  Wished(x)'
  <2> DEFINE p == Now.of
  <2>1. Begets(p, x) /\ x \in Steps /\ Wished(Now)
    BY <1>1, <1>3, Begetting DEF Chosen
  <2>2. x.do # "desire"
    BY <2>1 DEF Begets
  <2>3. CASE x.do = "apply"
    <3>1. x.of \in Providers /\ x.cfg = Effective[x.of] /\ plan' = Effective
      BY <2>1, <2>3, HostDoes DEF Begets, ApplyDesired, Sync
    <3>2. QED
      BY <2>3, <3>1 DEF Wished
  <2>4. CASE x.do = "settle"
    <3>1. x.of = p /\ Now.do = "apply" /\ Now.cfg # NoPlan /\ p \in Providers
      BY <1>3, <2>1, <2>4 DEF Begets, Steps
    <3>2. Apply
      BY <3>1, HostDoes
    <3>3. rt'[p].plan = Now.cfg
      <4>1. rt' = [rt EXCEPT ![p] = [rt[p] EXCEPT !.plan = Now.cfg]] /\ rt[p] \in Runtimes
        BY <3>1, <3>2 DEF Apply, IInv, TypeOK
      <4>2. [rt[p] EXCEPT !.plan = Now.cfg].plan = Now.cfg
        BY <4>1 DEF Runtimes
      <4>3. QED
        BY <3>1, <4>1, <4>2 DEF IInv, TypeOK
    <3>4. QED
      BY <2>4, <3>1, <3>3 DEF Wished
  <2>5. CASE x.do \in {"attempt", "awaitStart"}
    <3>1. x.of = p /\ p \in Providers /\ rt[p].plan # NoPlan
      <4>1. x.of = p /\ Now.do \in {"settle", "retry", "attempt"}
            /\ (Now.do = "retry" => Active(p))
        BY <2>1, <2>5 DEF Begets
      <4>2. QED
        BY <1>3, <2>1, <4>1 DEF Steps, Wished, Active, Enabled
    <3>2. QED
      BY <1>4, <2>5, <3>1 DEF Growth, Wished
  <2>6. QED
    BY <2>2, <2>3, <2>4, <2>5 DEF Wished
<1>7. QED
  BY <1>3, <1>5, <1>6, PlansGrow DEF Chosen

-----------------------------------------------------------------------------
(* What the requests of the collector put on the empty stack.              *)

Asks(x) ==
  /\ x.do \in {"probe", "desire", "applyDesired", "reconcile", "retry", "sample", "renew", "stop",
               "apply"}
  /\ x.do \in {"probe", "desire", "applyDesired"} => UpdateSettings
  /\ x.do = "desire" => x.cfg \in SUBSET Categories
  /\ x.do = "apply" => /\ Resume /\ x.of \in Providers /\ x.cfg = Effective[x.of]
                       /\ x.flag = TRUE
  /\ x.do \in {"retry", "sample"} => SampleDue
  /\ x.do \in {"renew", "stop"} => Pause \/ StopAll
  /\ x.do = "stop" => x.tag \in {"pause", "shutdown"}

LEMMA SettingsAsk ==
  ASSUME UpdateSettings, NEW x \in Members(agenda')
  PROVE  Asks(x)
<1>1. PICK wanted \in [Providers -> SUBSET Categories], k \in Nat :
           /\ k = Cardinality(Providers)
           /\ agenda' \in Seq(Plain) /\ Len(agenda') = k + k + 1
           /\ \A i \in 1 .. k : agenda'[i] \in {Step("probe", p) : p \in Providers}
           /\ \A i \in k + 1 .. k + k :
                agenda'[i] \in {DesireStep(p, wanted[p]) : p \in Providers}
           /\ agenda'[k + k + 1] = Step("applyDesired", "")
  BY SettingsStack
<1>2. PICK i \in 1 .. Len(agenda') : x = agenda'[i]
  BY DEF Members
<1>3. i \in 1 .. k \/ i \in k + 1 .. k + k \/ i = k + k + 1
  <2>1. k \in Nat /\ i \in 1 .. (k + k + 1)
    BY <1>1, <1>2
  <2>2. QED
    BY <2>1
<1>4. \/ \E p \in Providers : x = Step("probe", p)
      \/ \E p \in Providers : x = DesireStep(p, wanted[p])
      \/ x = Step("applyDesired", "")
  BY <1>1, <1>2, <1>3
<1>5. x.do \in {"probe", "desire", "applyDesired"} /\ (x.do = "desire" => x.cfg \in SUBSET Categories)
  <2>1. ASSUME NEW p \in Providers, x = Step("probe", p)
        PROVE  x.do = "probe"
    BY <2>1, MadeSteps
  <2>2. ASSUME NEW p \in Providers, x = DesireStep(p, wanted[p])
        PROVE  x.do = "desire" /\ x.cfg \in SUBSET Categories
    <3>1. x.do = "desire" /\ x.cfg = wanted[p]
      BY <2>2 DEF DesireStep, StepWith
    <3>2. QED
      BY <1>1, <3>1
  <2>3. ASSUME x = Step("applyDesired", "")
        PROVE  x.do = "applyDesired"
    BY <2>3, MadeSteps
  <2>4. QED
    BY <1>4, <2>1, <2>2, <2>3
<1>6. QED
  BY <1>5 DEF Asks

LEMMA RequestsAsk ==
  ASSUME TypeOK, UpdateSettings \/ SampleDue \/ Pause \/ Resume \/ StopAll, NEW x \in Members(agenda')
  PROVE  Asks(x)
<1>1. CASE UpdateSettings
  BY <1>1, SettingsAsk
<1>2. CASE SampleDue
  <2>1. agenda' = SampleLoop
    BY <1>2 DEF SampleDue, SampleLoop
  <2>2. x \in SampleSteps
    BY <2>1, SampleLoopSamples, MembersOf
  <2>3. x.do \in {"reconcile", "retry", "sample"}
    BY <2>2, LoopKinds
  <2>4. QED
    BY <1>2, <2>3 DEF Asks
<1>3. CASE Pause \/ StopAll
  <2>1. PICK why \in {"pause", "shutdown"} : agenda' = StopLoop(why)
    BY <1>3 DEF Pause, StopAll, StopLoop
  <2>2. StopLoop(why) \in Seq(StopSteps(why))
    BY StopLoopStops
  <2>3. x \in StopSteps(why)
    BY <2>1, <2>2, MembersOf
  <2>4. x.do \in {"renew", "reconcile"} \/ (x.do = "stop" /\ x.tag = why)
    BY <2>3, LoopKinds
  <2>5. QED
    BY <1>3, <2>4 DEF Asks
<1>4. CASE Resume
  <2>1. Effective \in [Providers -> Plans]
    BY EffectiveIsAPlan
  <2>2. agenda' = ApplyLoop(Effective, TRUE)
    BY <1>4 DEF Resume
  <2>3. ApplyLoop(Effective, TRUE) \in Seq(Polls \union Applies(Effective, TRUE))
    BY <2>1, ApplyLoopApplies
  <2>4. x \in Polls \union Applies(Effective, TRUE)
    BY <2>2, <2>3, MembersOf
  <2>5. \/ x.do = "reconcile"
        \/ x.do = "apply" /\ x.of \in Providers /\ x.cfg = Effective[x.of] /\ x.flag = TRUE
    BY <2>4, LoopKinds
  <2>6. QED
    BY <1>4, <2>5 DEF Asks
<1>5. QED
  BY <1>1, <1>2, <1>3, <1>4

LEMMA RequestsKeepChosen ==
  ASSUME IInv, Chosen, UpdateSettings \/ SampleDue \/ Pause \/ Resume \/ StopAll
  PROVE  Chosen'
<1>1. /\ TypeOK /\ UNCHANGED <<desired, rt>>
      /\ (plan' = plan \/ plan' = Effective) /\ (Resume => plan' = Effective)
  BY DEF IInv, UpdateSettings, SampleDue, Pause, Resume, StopAll
<1>2. \A p \in Providers : Effective[p] # NoPlan <=> desired[p] # NoPlan
  BY <1>1, EffectiveIsChosen
<1>3. \A p \in Providers : /\ rt'[p].plan # NoPlan => plan'[p] # NoPlan
                           /\ plan'[p] # NoPlan => desired'[p] # NoPlan
  BY <1>1, <1>2 DEF Chosen
<1>4. ASSUME NEW x \in Members(agenda')
      PROVE  Wished(x)'
  <2>1. Asks(x)
    BY <1>1, RequestsAsk
  <2>2. NoPlan \notin SUBSET Categories
    BY UnsetAssumption DEF NoPlan
  <2>3. QED
    BY <1>1, <2>1, <2>2 DEF Asks, Wished
<1>5. QED
  BY <1>3, <1>4 DEF Chosen

LEMMA OthersKeepChosen ==
  ASSUME PInv, Chosen,
         \/ \E p \in Providers : Worker(p) \/ WorkerDies(p) \/ RetryFallsDue(p) \/ SampleFallsDue(p)
         \/ DeadlinePasses
         \/ UNCHANGED vars
  PROVE  Chosen'
<1>1. UNCHANGED <<desired, plan, agenda>> /\ KeepsPlans
  BY OthersKeepPlan DEF Worker, WorkerCalls, WorkerRefuses, WorkerAnswers, WorkerAnswersWith,
     WorkerDies, RetryFallsDue, SampleFallsDue, DeadlinePasses, vars
<1>2. Growth
  BY <1>1 DEF KeepsPlans, Growth
<1>3. Members(agenda) \subseteq Steps
  <2>1. agenda \in Seq(Steps)
    BY DEF PInv, IInv, CallsInOrder, Stacks
  <2>2. QED
    BY <2>1, MembersOf
<1>4. \A s \in Members(agenda) : Wished(s)'
  BY <1>2, <1>3, WishedStays DEF Chosen
<1>5. QED
  BY <1>1, <1>4 DEF Chosen, KeepsPlans

-----------------------------------------------------------------------------
(* A single provider is on its plan.                                       *)

OnPlan ==
  Alone =>
    /\ \A s \in Under(agenda) : s.do # "apply"
    /\ Doing("apply") => Now.cfg = plan[Now.of]
    /\ \A p \in Providers : rt[p].plan = plan[p] \/ (Doing("apply") /\ Now.of = p)

LEMMA AloneIsOne ==
  ASSUME Alone
  PROVE  Cardinality(Providers) = 1 /\ \A p, q \in Providers : p = q
<1>1. PICK x : Providers = {x}
  BY ProvidersAssumption, FS_Singleton DEF Alone
<1>2. QED
  BY <1>1 DEF Alone

LEMMA AloneLoops ==
  ASSUME Alone, NEW next, NEW force
  PROVE  Len(ApplyLoop(next, force)) = 1 /\ Under(ApplyLoop(next, force)) = {}
<1> DEFINE k == Cardinality(Providers)
           Polling(i) == <<Step("reconcile", Order[((i - 1) \div 1) + 1])>>[((i - 1) % 1) + 1]
           Applying(i) == <<ApplyStep(Order[((i - 1) \div 1) + 1],
                                      next[Order[((i - 1) \div 1) + 1]], force)>>[((i - 1) % 1) + 1]
<1>1. k = 1
  BY AloneIsOne
<1>2. \/ ApplyLoop(next, force) = [i \in 1 .. 1 * k |-> Polling(i)]
      \/ ApplyLoop(next, force) = [i \in 1 .. 1 * k |-> Applying(i)]
  BY DEF ForEach, ApplyLoop
<1> HIDE DEF k, Polling, Applying
<1>3. Len([i \in 1 .. 1 * k |-> Polling(i)]) = 1 /\ Len([i \in 1 .. 1 * k |-> Applying(i)]) = 1
  BY <1>1
<1>4. Len(ApplyLoop(next, force)) = 1
  BY <1>2, <1>3
<1>5. 2 .. 1 = {}
  OBVIOUS
<1>6. QED
  BY <1>4, <1>5 DEF Under

LEMMA HostKeepsOnPlan == ASSUME IInv, Chosen, OnPlan, Host PROVE OnPlan'
<1> SUFFICES ASSUME Alone
             PROVE  /\ \A s \in Under(agenda') : s.do # "apply"
                    /\ Doing("apply")' => Now'.cfg = plan'[Now'.of]
                    /\ \A p \in Providers : rt'[p].plan = plan'[p] \/ (Doing("apply") /\ Now.of = p)'
  BY DEF OnPlan, Alone
<1>1. PICK s : Then(s) /\ Pushes(Now.of, s)
  BY HostPushes
<1>2. s \in Seq(Steps) /\ agenda # <<>>
  BY <1>1, PushedSteps, HostDoes
<1>3. /\ Now \in Steps
      /\ s # <<>> => /\ agenda' # <<>> /\ Head(agenda') = Head(s) /\ Head(s) \in Members(s)
                     /\ Under(agenda') = Under(s) \union Under(agenda)
      /\ s = <<>> => /\ Under(agenda') \subseteq Under(agenda)
                     /\ agenda' # <<>> => Head(agenda') \in Under(agenda)
      /\ Under(s) \subseteq Members(s)
  <2>1. /\ s # <<>> => Head(s) \in Members(s)
        /\ Under(s) \subseteq Members(s)
    BY <1>2, MembersOf
  <2>2. QED
    BY <1>1, <1>2, <2>1, NewStack
<1>4. \A x \in Members(s) : Begets(Now.of, x)
  BY <1>1, Begetting
<1>5. \A x \in Under(agenda) : x.do # "apply"
  BY DEF OnPlan
<1>6. Doing("apply") <=> Now.do = "apply"
  BY <1>2 DEF Doing, Now
<1>7. Doing("apply")' <=> agenda' # <<>> /\ Head(agenda').do = "apply"
  BY DEF Doing
<1>8. CASE Now.do \in {"applyDesired", "sync"} /\ s # <<>>
  <2>1. s = ApplyLoop(Effective, FALSE) /\ plan' = Effective /\ rt' = rt
    <3>1. s = ApplyLoop(Effective, FALSE) /\ (Now.do = "sync" => ~shuttingDown)
      BY <1>1, <1>8 DEF Pushes
    <3>2. QED
      BY <1>8, <3>1, HostDoes DEF ApplyDesired, Sync
  <2>2. Under(s) = {} /\ Under(agenda') = Under(agenda)
    BY <1>3, <1>8, <2>1, AloneLoops
  <2>3. \A p \in Providers : rt[p].plan = plan[p]
    BY <1>6, <1>8 DEF OnPlan
  <2>4. CASE Effective = plan
    <3>1. s \in Seq(Polls)
      BY <2>1, <2>4, PollsArePolls DEF ApplyLoop
    <3>2. Head(s) \in Polls
      BY <1>8, <3>1
    <3>3. Head(s).do = "reconcile"
      BY <3>2, LoopKinds
    <3>4. QED
      BY <1>3, <1>5, <1>7, <1>8, <2>1, <2>2, <2>3, <2>4, <3>3
  <2>5. CASE Effective # plan
    <3>1. s = ForEach(1, LAMBDA p : <<ApplyStep(p, Effective[p], FALSE)>>)
      BY <2>1, <2>5 DEF ApplyLoop
    <3>2. s \in Seq(Applies(Effective, FALSE))
      BY <3>1, AppliesAreApplies, EffectiveIsAPlan DEF IInv
    <3> DEFINE S == Applies(Effective, FALSE)
    <3> HIDE DEF S
    <3>3. Head(s) \in S
      <4>1. s \in Seq(S)
        BY <3>2 DEF S
      <4>2. QED
        BY <1>8, <4>1
    <3>4. Head(s).do = "apply" /\ Head(s).of \in Providers /\ Head(s).cfg = Effective[Head(s).of]
      <4>1. PICK p \in Providers : Head(s) = ApplyStep(p, Effective[p], FALSE)
        BY <3>3 DEF S, Applies
      <4> DEFINE a == ApplyStep(p, Effective[p], FALSE)
      <4>a. a.do = "apply" /\ a.of = p /\ a.cfg = Effective[p]
        BY DEF ApplyStep, StepWith
      <4>b. Head(s) = a
        BY <4>1
      <4> HIDE DEF a, S
      <4>2. Head(s).do = "apply" /\ Head(s).of = p /\ Head(s).cfg = Effective[p]
        BY <4>a, <4>b
      <4>3. QED
        BY <4>2
    <3>5. \A p \in Providers : Head(s).of = p
      BY <3>4, AloneIsOne
    <3>6. agenda' # <<>> /\ Head(agenda') = Head(s)
      BY <1>3, <1>8
    <3>7. QED
      BY <1>5, <1>7, <2>1, <2>2, <3>4, <3>5, <3>6 DEF Now
  <2>6. QED
    BY <2>4, <2>5
<1>9. ASSUME \A x \in Members(s) : x.do # "apply"
      PROVE  (\A x \in Under(agenda') : x.do # "apply") /\ ~Doing("apply")'
  <2>1. \A x \in Under(agenda') : x.do # "apply"
    BY <1>3, <1>5, <1>9
  <2>2. agenda' # <<>> => Head(agenda').do # "apply"
    BY <1>3, <1>5, <1>9
  <2>3. QED
    BY <1>7, <2>1, <2>2
<1>10. CASE Now.do \in {"applyDesired", "sync"} /\ s = <<>>
  <2>1. Members(s) = {}
    BY <1>10, ShortMembers
  <2>2. \A p \in Providers : rt'[p].plan = plan'[p]
    <3>1. \A p \in Providers : rt[p].plan = plan[p]
      BY <1>6, <1>10 DEF OnPlan
    <3> DEFINE l == ApplyLoop(Effective, FALSE)
    <3>a. Len(l) = 1
      BY AloneLoops
    <3> HIDE DEF l
    <3>b. s # l
      BY <1>10, <3>a
    <3>2. s # ApplyLoop(Effective, FALSE)
      BY <3>b DEF l
    <3>3. Sync /\ (shuttingDown \/ Effective = plan)
      BY <1>1, <1>10, <3>2, HostDoes DEF Pushes, Leaves
    <3>4. plan' = Effective
      BY <3>3 DEF Sync
    <3>5. CASE shuttingDown
      <4> SUFFICES ASSUME NEW p \in Providers
                   PROVE  rt'[p].plan = plan'[p]
        OBVIOUS
      <4>1. rt'[p] = [rt[p] EXCEPT !.plan = Effective[p]] /\ rt[p] \in Runtimes
        BY <3>3, <3>5 DEF Sync, IInv, TypeOK
      <4>2. QED
        BY <3>4, <4>1 DEF Runtimes
    <3>6. CASE ~shuttingDown
      BY <3>1, <3>3, <3>4, <3>6 DEF Sync
    <3>7. QED
      BY <3>5, <3>6
  <2>3. QED
    BY <1>9, <2>1, <2>2
<1>11. CASE Now.do \notin {"applyDesired", "sync"}
  <2>1. \A x \in Members(s) : x.do # "apply"
    BY <1>4, <1>11 DEF Begets
  <2>2. \A p \in Providers : rt'[p].plan = plan'[p]
    <3>1. CASE Now.do = "apply"
      <4>1. Apply /\ Now.cfg = plan[Now.of] /\ Now.of \in Providers /\ plan' = plan
        <5>1. Apply
          BY <3>1, HostDoes
        <5>2. Now.cfg = plan[Now.of] /\ Now.of \in Providers
          BY <1>3, <1>6, <3>1 DEF OnPlan, Steps
        <5>3. QED
          BY <5>1, <5>2 DEF Apply
      <4>2. \A p \in Providers : p = Now.of
        BY <4>1, AloneIsOne
      <4>3. CASE Now.cfg = NoPlan
        BY <4>1, <4>2, <4>3 DEF Apply, Chosen
      <4>4. CASE Now.cfg # NoPlan
        <5>1. rt'[Now.of] = [rt[Now.of] EXCEPT !.plan = Now.cfg] /\ rt[Now.of] \in Runtimes
          BY <4>1, <4>4 DEF Apply, IInv, TypeOK
        <5>2. rt'[Now.of].plan = Now.cfg
          BY <5>1 DEF Runtimes
        <5>3. QED
          BY <4>1, <4>2, <5>2
      <4>5. QED
        BY <4>3, <4>4
    <3>2. CASE Now.do # "apply"
      <4>1. \A p \in Providers : rt[p].plan = plan[p]
        BY <1>6, <3>2 DEF OnPlan
      <4>2. KeepsPlans /\ plan' = plan
        <5>1. CASE Now.do = "desire"
          BY <5>1, HostDoes DEF Desire, KeepsPlans
        <5>2. QED
          BY <1>11, <3>2, <5>1, OthersKeepPlans
      <4>3. QED
        BY <4>1, <4>2 DEF KeepsPlans
    <3>3. QED
      BY <3>1, <3>2
  <2>3. QED
    BY <1>9, <2>1, <2>2
<1>12. QED
  BY <1>8, <1>10, <1>11

LEMMA RequestsKeepOnPlan ==
  ASSUME PInv, OnPlan, UpdateSettings \/ SampleDue \/ Pause \/ Resume \/ StopAll
  PROVE  OnPlan'
<1> SUFFICES ASSUME Alone
             PROVE  /\ \A s \in Under(agenda') : s.do # "apply"
                    /\ Doing("apply")' => Now'.cfg = plan'[Now'.of]
                    /\ \A p \in Providers : rt'[p].plan = plan'[p] \/ (Doing("apply") /\ Now.of = p)'
  BY DEF OnPlan, Alone
<1>1. /\ TypeOK /\ agenda = <<>> /\ rt' = rt
      /\ ~Resume => plan' = plan
  BY DEF PInv, IInv, UpdateSettings, SampleDue, Pause, Resume, StopAll, Calm
<1>2. \A p \in Providers : rt[p].plan = plan[p]
  BY <1>1 DEF OnPlan, Doing
<1>3. agenda' \in Seq(Steps)
  BY StepKeepsPlan DEF PInv, IInv, CallsInOrder, Stacks, Next
<1>4. CASE Resume
  <2> DEFINE S == Applies(Effective, TRUE)
             s == ForEach(1, LAMBDA p : <<ApplyStep(p, Effective[p], TRUE)>>)
  <2>1. plan' = Effective /\ agenda' = ApplyLoop(Effective, TRUE) /\ ApplyLoop(Effective, TRUE) = s
    BY <1>4 DEF Resume, ApplyLoop
  <2>2. s \in Seq(S)
    BY <1>1, AppliesAreApplies, EffectiveIsAPlan
  <2> DEFINE l == ApplyLoop(Effective, TRUE)
             b == agenda'
  <2>3. Len(l) = 1 /\ Under(l) = {}
    BY AloneLoops
  <2>a. b = l /\ l = s
    BY <2>1
  <2> HIDE DEF l, s, S, b
  <2>b. b # <<>> /\ Head(b) \in S
    <3>1. b # <<>>
      BY <2>3, <2>a
    <3>2. b \in Seq(S)
      BY <2>2, <2>a
    <3>3. QED
      BY <3>1, <3>2
  <2>4. Under(agenda') = {} /\ agenda' # <<>> /\ Head(agenda') \in S
    BY <2>3, <2>a, <2>b DEF b
  <2>5. PICK p \in Providers : Head(agenda') = ApplyStep(p, Effective[p], TRUE)
    BY <2>4 DEF S, Applies
  <2> DEFINE a == ApplyStep(p, Effective[p], TRUE)
  <2>6. a.do = "apply" /\ a.of = p /\ a.cfg = Effective[p]
    BY DEF ApplyStep, StepWith
  <2>7. Head(agenda') = a
    BY <2>5
  <2> HIDE DEF a
  <2>8. Now'.do = "apply" /\ Now'.of = p /\ Now'.cfg = plan'[p]
    BY <2>1, <2>6, <2>7 DEF Now
  <2>9. Doing("apply")' /\ \A q \in Providers : q = p
    BY <2>4, <2>6, <2>7, AloneIsOne DEF Doing
  <2>10. QED
    BY <2>4, <2>8, <2>9
<1>5. CASE ~Resume
  <2>1. \A x \in Members(agenda') : x.do # "apply"
    <3>1. \A x \in Members(agenda') : Asks(x)
      BY <1>1, RequestsAsk
    <3>2. QED
      BY <1>5, <3>1 DEF Asks
  <2>2. Under(agenda') \subseteq Members(agenda')
    BY <1>3, MembersOf
  <2>3. agenda' # <<>> => Head(agenda') \in Members(agenda')
    BY <1>3, MembersOf
  <2>4. ~Doing("apply")'
    BY <2>1, <2>3 DEF Doing
  <2>5. QED
    BY <1>1, <1>2, <1>5, <2>1, <2>2, <2>4
<1>6. QED
  BY <1>4, <1>5

LEMMA OthersKeepOnPlan ==
  ASSUME PInv, OnPlan,
         \/ \E p \in Providers : Worker(p) \/ WorkerDies(p) \/ RetryFallsDue(p) \/ SampleFallsDue(p)
         \/ DeadlinePasses
         \/ UNCHANGED vars
  PROVE  OnPlan'
<1>1. UNCHANGED <<plan, agenda>> /\ KeepsPlans
  BY OthersKeepPlan DEF Worker, WorkerCalls, WorkerRefuses, WorkerAnswers, WorkerAnswersWith,
     WorkerDies, RetryFallsDue, SampleFallsDue, DeadlinePasses, vars
<1>2. QED
  BY <1>1 DEF OnPlan, Alone, KeepsPlans, Doing, Now, Under

-----------------------------------------------------------------------------
(* The plans, together.                                                    *)

HInv == PInv /\ Chosen /\ OnPlan

LEMMA PlansAtFirst == ASSUME Init PROVE HInv
<1>1. IInv /\ PlanInHand /\ agenda = <<>>
  BY Initially, PlanInHandAtFirst DEF Init
<1>2. Members(agenda) = {}
  BY <1>1, ShortMembers
<1>3. \A p \in Providers : rt[p].plan = NoPlan /\ plan[p] = NoPlan
  BY DEF Init
<1>4. Under(agenda) = {}
  <2>1. 2 .. 0 = {}
    OBVIOUS
  <2>2. QED
    BY <1>1, <2>1 DEF Under
<1>5. QED
  BY <1>1, <1>2, <1>3, <1>4 DEF HInv, PInv, Chosen, OnPlan, Doing

LEMMA StepKeepsPlans == ASSUME HInv, [Next]_vars PROVE HInv'
<1>1. PInv'
  BY StepKeepsPlan DEF HInv
<1>2. CASE UpdateSettings \/ SampleDue \/ Pause \/ Resume \/ StopAll
  BY <1>1, <1>2, RequestsKeepChosen, RequestsKeepOnPlan DEF HInv, PInv
<1>3. CASE Host
  BY <1>1, <1>3, HostKeepsChosen, HostKeepsOnPlan DEF HInv, PInv
<1>4. CASE \/ \E p \in Providers : Worker(p) \/ WorkerDies(p) \/ RetryFallsDue(p) \/ SampleFallsDue(p)
           \/ DeadlinePasses
           \/ UNCHANGED vars
  BY <1>1, <1>4, OthersKeepChosen, OthersKeepOnPlan DEF HInv
<1>5. QED
  BY <1>2, <1>3, <1>4 DEF Next

(* However answers change the capabilities and the loops nest, the host comes
   back to the collector with the plan that the user's wishes and the reported
   capabilities give, and a single provider is on it. *)
THEOREM PlansComeBack == Spec => []PlansAgree
<1>1. HInv => PlansAgree
  <2> SUFFICES ASSUME HInv, agenda = <<>>
               PROVE  /\ plan = Effective
                      /\ Alone => \A p \in Providers : rt[p].plan = plan[p]
    BY DEF PlansAgree
  <2>1. plan = Effective
    BY DEF HInv, PInv, PlanInHand
  <2>2. QED
    BY <2>1 DEF HInv, OnPlan, Doing
<1>2. QED
  BY <1>1, PlansAtFirst, StepKeepsPlans, PTL DEF Spec
=============================================================================
