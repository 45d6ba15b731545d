-------------------------- MODULE ProviderRuns_proofs --------------------------
(***************************************************************************)
(* Providers whose probes answer in time: what is left of one once nothing *)
(* wants it, and that it runs, or will, as long as something does.         *)
(***************************************************************************)
EXTENDS ProviderIntent_proofs

-----------------------------------------------------------------------------
(* The third step of the stack and those below it.                         *)

Deep(a) == {a[i] : i \in 3 .. Len(a)}

LEMMA DeepStack ==
  ASSUME IInv, agenda # <<>>, NEW s \in Seq(Steps), Then(s)
  PROVE  /\ Deep(agenda) \subseteq Under(agenda) /\ Deep(agenda') \subseteq Under(agenda')
         /\ s = <<>> => Under(agenda') \subseteq Deep(agenda) /\ Deep(agenda') \subseteq Deep(agenda)
         /\ Len(s) = 1 => /\ Under(agenda') \subseteq Under(agenda)
                          /\ Deep(agenda') \subseteq Deep(agenda)
         /\ Len(s) = 2 => Deep(agenda') \subseteq Under(agenda)
<1>1. agenda \in Seq(Steps) /\ agenda' = s \o Tail(agenda)
  BY DEF IInv, CallsInOrder, Stacks, Then
<1>2. /\ Len(agenda) \in Nat \ {0} /\ Len(s) \in Nat /\ Len(agenda') = Len(s) + Len(agenda) - 1
      /\ \A i \in 1 .. Len(agenda') :
           i \notin 1 .. Len(s) => i - Len(s) + 1 \in 2 .. Len(agenda) /\ agenda'[i] = agenda[i - Len(s) + 1]
  BY <1>1, Restacked
<1>3. Deep(agenda) \subseteq Under(agenda) /\ Deep(agenda') \subseteq Under(agenda')
  BY <1>2 DEF Deep, Under
<1>4. \A i \in 1 .. Len(agenda'), j \in 2 .. Len(agenda) :
        i \notin 1 .. Len(s) /\ j <= i - Len(s) + 1 =>
          \E k \in j .. Len(agenda) : agenda'[i] = agenda[k]
  BY <1>2
<1>5. CASE s = <<>>
  <2>1. Len(s) = 0
    BY <1>5
  <2>2. ASSUME NEW i \in 2 .. Len(agenda')
        PROVE  \E k \in 3 .. Len(agenda) : agenda'[i] = agenda[k]
    BY <1>2, <2>1
  <2>3. 3 .. Len(agenda') \subseteq 2 .. Len(agenda')
    BY <1>2
  <2>4. Under(agenda') \subseteq Deep(agenda)
    BY <2>2 DEF Deep, Under
  <2>5. Deep(agenda') \subseteq Deep(agenda)
    BY <1>3, <2>4
  <2>6. QED
    BY <1>3, <2>1, <2>4, <2>5
<1>6. CASE Len(s) = 1
  <2>1. ASSUME NEW i \in 2 .. Len(agenda')
        PROVE  \E k \in 2 .. Len(agenda) : agenda'[i] = agenda[k]
    BY <1>2, <1>6
  <2>2. ASSUME NEW i \in 3 .. Len(agenda')
        PROVE  \E k \in 3 .. Len(agenda) : agenda'[i] = agenda[k]
    BY <1>2, <1>6
  <2>3. Under(agenda') \subseteq Under(agenda) /\ Deep(agenda') \subseteq Deep(agenda)
    BY <2>1, <2>2 DEF Deep, Under
  <2>4. s # <<>> /\ Len(s) # 2
    BY <1>6
  <2>5. QED
    BY <1>3, <2>3, <2>4
<1>7. CASE Len(s) = 2
  <2>1. ASSUME NEW i \in 3 .. Len(agenda')
        PROVE  \E k \in 2 .. Len(agenda) : agenda'[i] = agenda[k]
    BY <1>2, <1>7
  <2>2. Deep(agenda') \subseteq Under(agenda)
    BY <2>1 DEF Deep, Under
  <2>3. s # <<>> /\ Len(s) # 1
    BY <1>7
  <2>4. QED
    BY <1>3, <2>2, <2>3
<1>8. QED
  BY <1>3, <1>5, <1>6, <1>7

-----------------------------------------------------------------------------
(* The loops of a single provider, nested.                                 *)

\* What may run while an application of the plan is in progress below it.
OverSettle == {"reconcile", "cleanup", "stop", "awaitStop"}

Nested ==
  Alone /\ ProbesInTime =>
    /\ \A x \in Deep(agenda) : x.do # "settle"
    /\ (\E x \in Under(agenda) : x.do = "settle") =>
         /\ Now.do \in OverSettle
         /\ Now.do = "reconcile" /\ call[Now.of].pending => call[Now.of].stale
    /\ \A x \in Members(agenda) : x.do = "settle" => x.cfg = rt[x.of].plan
    /\ Doing("apply") /\ Now.cfg # NoPlan => Now.flag \/ rt[Now.of].plan # Now.cfg
    /\ Doing("attempt") \/ Doing("awaitStart") \/ Doing("awaitSample") => Active(Now.of)

\* The late answer to a call of an earlier intent brings no news.
LEMMA StaleBringsNoNews ==
  ASSUME NEW p \in Providers, call[p].op \in Operations \ {"Probe"}, call[p].stale
  PROVE  ~LateAnswer(p).news
<1>1. CASE call[p].op = "Sample"
  <2>1. LateAnswer(p) = Outcome(rt[p], ~Active(p) /\ rt[p].started, FALSE)
    BY <1>1 DEF LateAnswer, LateSample
  <2>2. QED
    BY <2>1 DEF Outcome
<1>2. CASE call[p].op \in Starts
  <2>1. LateAnswer(p) = LateStart(p)
    BY <1>2 DEF LateAnswer, Starts
  <2> DEFINE news == ~call[p].stale /\ News(p)
  <2>2. \E r, cleanup : LateStart(p) = Outcome(r, cleanup, news)
    BY Zenon DEF LateStart
  <2>3. news = FALSE
    OBVIOUS
  <2> HIDE DEF news
  <2>4. \A r, cleanup, n : Outcome(r, cleanup, n).news = n
    BY DEF Outcome
  <2>5. LateStart(p).news = FALSE
    BY <2>2, <2>3, <2>4
  <2>6. QED
    BY <2>1, <2>5
<1>3. CASE call[p].op = "Stop"
  <2>1. LateAnswer(p) = LateStop(p)
    BY <1>3 DEF LateAnswer
  <2>2. \E r : LateStop(p) = Outcome(r, FALSE, FALSE)
    BY Zenon DEF LateStop
  <2>3. QED
    BY <2>1, <2>2 DEF Outcome
<1>4. QED
  BY <1>1, <1>2, <1>3 DEF Operations, Starts

\* An unchanged plan is not applied again, a changed one is.
LEMMA AppliedIsNew ==
  ASSUME IInv, OnPlan, Alone, Host, NEW x \in Steps, Begets(Now.of, x), x.do = "apply",
         NEW s, Then(s), Pushes(Now.of, s), x \in Members(s)
  PROVE  /\ rt' = rt /\ x.of \in Providers /\ x.cfg = Effective[x.of]
         /\ rt[x.of].plan # x.cfg
<1>1. /\ Now.do \in {"applyDesired", "sync"} /\ x.of \in Providers /\ x.cfg = Effective[x.of]
      /\ Now.do = "sync" => ~shuttingDown
  BY DEF Begets
<1>2. rt' = rt
  BY <1>1, HostDoes DEF ApplyDesired, Sync
<1>3. rt[x.of].plan = plan[x.of]
  BY <1>1 DEF OnPlan, Doing, Now
<1>4. s = <<>> \/ s = ApplyLoop(Effective, FALSE)
  BY <1>1 DEF Pushes
<1>5. Effective # plan
  <2> SUFFICES ASSUME Effective = plan
               PROVE  FALSE
    OBVIOUS
  <2>1. s \in Seq(Polls)
    <3>1. ApplyLoop(Effective, FALSE) \in Seq(Polls)
      BY PollsArePolls DEF ApplyLoop
    <3>2. <<>> \in Seq(Polls)
      OBVIOUS
    <3>3. QED
      BY <1>4, <3>1, <3>2
  <2>2. x \in Polls
    BY <2>1, MembersOf
  <2>3. QED
    BY <2>2, LoopKinds
<1>6. plan \in [Providers -> Plans] /\ Effective \in [Providers -> Plans]
  BY EffectiveIsAPlan DEF IInv, TypeOK
<1>7. \E p \in Providers : Effective[p] # plan[p]
  BY <1>5, <1>6
<1>8. Effective[x.of] # plan[x.of]
  BY <1>1, <1>7, AloneIsOne
<1>9. QED
  BY <1>1, <1>2, <1>3, <1>8

\* The stack tells how many steps were pushed.
LEMMA SameLength ==
  ASSUME agenda \in Seq(Steps), agenda # <<>>, NEW s \in Seq(Steps), NEW t \in Seq(Steps),
         Then(s), Then(t)
  PROVE  Len(s) = Len(t)
<1>1. Len(agenda') = Len(s) + Len(agenda) - 1 /\ Len(s) \in Nat /\ Len(agenda) \in Nat
  BY Restacked DEF Then
<1>2. Len(agenda') = Len(t) + Len(agenda) - 1 /\ Len(t) \in Nat
  BY Restacked DEF Then
<1>3. QED
  BY <1>1, <1>2

LEMMA SameSteps ==
  ASSUME agenda \in Seq(Steps), agenda # <<>>, NEW s \in Seq(Steps), NEW t \in Seq(Steps),
         Then(s), Then(t)
  PROVE  s = t
<1>1. Len(s) = Len(t)
  BY SameLength
<1>2. \A i \in 1 .. Len(s) : agenda'[i] = s[i]
  BY Restacked DEF Then
<1>3. \A i \in 1 .. Len(t) : agenda'[i] = t[i]
  BY Restacked DEF Then
<1>4. QED
  BY <1>1, <1>2, <1>3

\* While an application of the plan waits below, what is pushed is short and over it.
LEMMA OverSettles ==
  ASSUME IInv, Host, Intent, ProbesInTime, Now.do \in OverSettle,
         Now.do = "reconcile" /\ call[Now.of].pending => call[Now.of].stale,
         NEW s, Pushes(Now.of, s), Then(s)
  PROVE  s = <<>> \/ \E x \in Steps : s = <<x>> /\ x.do \in {"cleanup", "stop", "awaitStop"}
<1> DEFINE p == Now.of
<1>1. p \in Providers /\ Now.cfg \in Plans /\ (Now.do \in {"stop", "awaitStop"} => Now.tag \in Whys)
  BY Concerned DEF OverSettle
<1>2. "cleanup" \in Whys /\ NoPlan \in Plans
  BY NoPlanIsAPlan DEF Whys
<1>3. CASE Now.do = "reconcile"
  <2> DEFINE x == CleanupStep(p, TRUE)
  <2>1. x \in Steps /\ x.do = "cleanup"
    <3>1. x \in Steps
      BY <1>1, <1>2, SmallSteps DEF CleanupStep
    <3>2. QED
      BY <3>1 DEF CleanupStep, StepWith
  <2>2. Reconcile /\ Fits(p)
    BY <1>1, <1>3, TheStep DEF Intent
  <2>3. Busy(p) /\ call[p].op \in Operations => ~LateAnswer(p).news
    BY <1>1, <1>3, <2>2, StaleBringsNoNews DEF Fits, Busy
  <2> HIDE DEF x
  <2>4. Then(<<>>) \/ Then(<<x>>)
    BY <1>1, <2>2, <2>3, ReconcileTells DEF x
  <2>5. s = <<>> \/ s = <<x>>
    <3> DEFINE y(flag) == StepWith("cleanup", p, NoPlan, "", flag)
    <3>1. s = <<>> \/ s = <<y(TRUE)>> \/ \E flag \in BOOLEAN : s = <<SyncStep, y(flag)>>
      BY <1>3 DEF Pushes
    <3>2. x = y(TRUE)
      BY DEF x, CleanupStep
    <3> HIDE DEF y
    <3>3. ASSUME NEW flag \in BOOLEAN, s = <<SyncStep, y(flag)>>
          PROVE  FALSE
      <4>1. s \in Seq(Steps) /\ agenda \in Seq(Steps) /\ agenda # <<>>
        BY PushedSteps, Stacking DEF IInv, CallsInOrder, Stacks
      <4>2. <<>> \in Seq(Steps) /\ Len(<<>>) = 0 /\ <<x>> \in Seq(Steps) /\ Len(<<x>>) = 1
        BY <2>1
      <4>3. Len(s) \in {0, 1}
        BY <2>4, <4>1, <4>2, SameLength
      <4>4. Len(s) = 2
        BY <3>3
      <4>5. QED
        BY <4>3, <4>4
    <3>4. QED
      BY <3>1, <3>2, <3>3
  <2>6. QED
    BY <2>1, <2>5
<1>4. CASE Now.do = "cleanup"
  <2> DEFINE x == StopStep(p, "cleanup", NoPlan)
  <2>1. x \in Steps /\ x.do = "stop"
    <3>1. x \in Steps
      BY <1>1, <1>2, SmallSteps
    <3>2. QED
      BY <3>1 DEF StopStep, StepWith
  <2>2. s = <<>> \/ s = <<x>>
    BY <1>4 DEF Pushes
  <2> HIDE DEF x
  <2>3. QED
    BY <2>1, <2>2
<1>5. CASE Now.do = "stop"
  <2> DEFINE x == StepWith("awaitStop", p, Now.cfg, Now.tag, FALSE)
  <2>1. x \in Steps /\ x.do = "awaitStop"
    <3>1. x \in Steps
      BY <1>1, <1>5, SmallSteps
    <3>2. QED
      BY <3>1 DEF StepWith
  <2>2. s = <<>> \/ s = <<x>>
    BY <1>5 DEF Pushes
  <2> HIDE DEF x
  <2>3. QED
    BY <2>1, <2>2
<1>6. CASE Now.do = "awaitStop"
  BY <1>6 DEF Pushes
<1>7. QED
  BY <1>3, <1>4, <1>5, <1>6 DEF OverSettle

LEMMA HostKeepsNested ==
  ASSUME HInv, Host, Intent, Nested
  PROVE  Nested'
<1> SUFFICES ASSUME Alone, ProbesInTime
             PROVE  /\ \A x \in Deep(agenda') : x.do # "settle"
                    /\ (\E x \in Under(agenda') : x.do = "settle") =>
                         /\ Now'.do \in OverSettle
                         /\ Now'.do = "reconcile" /\ call'[Now'.of].pending => call'[Now'.of].stale
                    /\ \A x \in Members(agenda') : x.do = "settle" => x.cfg = rt'[x.of].plan
                    /\ Doing("apply")' /\ Now'.cfg # NoPlan => Now'.flag \/ rt'[Now'.of].plan # Now'.cfg
                    /\ (Doing("attempt") \/ Doing("awaitStart") \/ Doing("awaitSample") => Active(Now.of))'
  BY HostKeepsModes DEF Nested, Alone, ProbesInTime
<1>a. IInv /\ Chosen /\ OnPlan
  BY DEF HInv, PInv
<1>b. /\ \A x \in Deep(agenda) : x.do # "settle"
      /\ (\E x \in Under(agenda) : x.do = "settle") =>
           /\ Now.do \in OverSettle
           /\ Now.do = "reconcile" /\ call[Now.of].pending => call[Now.of].stale
      /\ \A x \in Members(agenda) : x.do = "settle" => x.cfg = rt[x.of].plan
      /\ Doing("apply") /\ Now.cfg # NoPlan => Now.flag \/ rt[Now.of].plan # Now.cfg
      /\ Doing("attempt") \/ Doing("awaitStart") \/ Doing("awaitSample") => Active(Now.of)
  BY DEF Nested
<1>c. /\ agenda # <<>> /\ Now \in Steps /\ Under(agenda) \subseteq Plain
      /\ Members(agenda) = {Now} \union Under(agenda)
      /\ Members(agenda') \subseteq Steps
  BY <1>a, Stacking
<1>1. PICK s \in Seq(Steps) :
           /\ Then(s) /\ Pushes(Now.of, s)
           /\ Members(agenda') = Members(s) \union Under(agenda)
           /\ \A x \in Members(s) : Begets(Now.of, x)
           /\ s # <<>> => /\ agenda' # <<>> /\ Head(agenda') = Head(s) /\ Head(s) \in Members(s)
                          /\ Under(agenda') = Under(s) \union Under(agenda)
           /\ s = <<>> => /\ Under(agenda') \subseteq Under(agenda)
                          /\ agenda' # <<>> => Head(agenda') \in Under(agenda)
  BY <1>a, Stacking
<1>2. /\ Deep(agenda) \subseteq Under(agenda) /\ Deep(agenda') \subseteq Under(agenda')
      /\ s = <<>> => Under(agenda') \subseteq Deep(agenda) /\ Deep(agenda') \subseteq Deep(agenda)
      /\ Len(s) = 1 => Under(agenda') \subseteq Under(agenda) /\ Deep(agenda') \subseteq Deep(agenda)
      /\ Len(s) = 2 => Deep(agenda') \subseteq Under(agenda)
  BY <1>1, <1>a, <1>c, DeepStack
<1>3. UNCHANGED <<paused, shuttingDown>>
  BY HostKeepsModes
<1>4. Under(s) \subseteq Members(s) /\ Members(s) \subseteq Steps
  BY <1>1, MembersOf
<1>5. ASSUME \E x \in Members(s) : x.do = "settle"
      PROVE  /\ Now.do = "apply" /\ Now.cfg # NoPlan
             /\ s = <<Step("reconcile", Now.of),
                      StepWith("settle", Now.of, Now.cfg, "", rt[Now.of].plan # Now.cfg)>>
  <2>1. Now.do = "apply" /\ Now.cfg # NoPlan
    BY <1>1, <1>5 DEF Begets
  <2>2. QED
    BY <1>1, <2>1 DEF Pushes, Leaves
<1>6. (Doing("attempt") \/ Doing("awaitStart") \/ Doing("awaitSample") => Active(Now.of))'
  <2> SUFFICES ASSUME agenda' # <<>>, Head(agenda').do \in {"attempt", "awaitStart", "awaitSample"}
               PROVE  Active(Head(agenda).of)'
    BY DEF Doing, Now
  <2> DEFINE x == Head(agenda')
  <2>1. Begets(Now.of, x) /\ x \in Steps
    BY <1>a, NewHead DEF Waits
  <2>2. x.of = Now.of /\ Now.do \in {"settle", "retry", "attempt", "sample"}
    BY <2>1 DEF Begets
  <2>3. Active(Now.of)
    <3>1. CASE Now.do = "settle"
      <4>1. ~paused /\ Enabled(Now.cfg)
        BY <2>1, <3>1 DEF Begets
      <4>2. Now.cfg = rt[Now.of].plan /\ Timely(Now)
        BY <1>b, <1>c, <3>1 DEF Intent
      <4>3. QED
        BY <3>1, <4>1, <4>2 DEF Active, Timely, Planning
    <3>2. CASE Now.do = "attempt"
      BY <1>b, <1>c, <3>2 DEF Doing, Now
    <3>3. QED
      BY <2>1, <2>2, <3>1, <3>2 DEF Begets
  <2>4. KeepsPlans /\ Now.of \in Providers
    BY <1>a, <2>2, OthersKeepPlans, Concerned
  <2>5. QED
    BY <1>3, <2>2, <2>3, <2>4 DEF Active, KeepsPlans
<1>7. ASSUME Doing("apply")'
      PROVE  Now'.flag \/ rt'[Now'.of].plan # Now'.cfg
  <2>1. agenda' # <<>> /\ Head(agenda').do = "apply"
    BY <1>7 DEF Doing
  <2>2. Head(agenda') \in Members(s)
    BY <1>1, <1>a, <2>1 DEF OnPlan
  <2> DEFINE x == Head(agenda')
  <2>3. x \in Steps /\ Begets(Now.of, x)
    BY <1>1, <1>4, <2>2
  <2>4. rt' = rt /\ rt[x.of].plan # x.cfg
    BY <1>1, <1>a, <2>1, <2>2, <2>3, AppliedIsNew
  <2>5. QED
    BY <2>4 DEF Now
<1>8. CASE \E x \in Under(agenda) : x.do = "settle"
  <2>1. /\ Now.do \in OverSettle
        /\ Now.do = "reconcile" /\ call[Now.of].pending => call[Now.of].stale
    BY <1>8, <1>b
  <2>2. s = <<>> \/ \E x \in Steps : s = <<x>> /\ x.do \in {"cleanup", "stop", "awaitStop"}
    BY <1>1, <1>a, <2>1, OverSettles
  <2>3. /\ \A x \in Deep(agenda') : x.do # "settle"
        /\ s = <<>> => \A x \in Under(agenda') : x.do # "settle"
    <3>1. s = <<>> \/ Len(s) = 1
      BY <2>2
    <3>2. QED
      BY <1>2, <1>b, <3>1
  <2>4. s # <<>> => Now'.do \in {"cleanup", "stop", "awaitStop"}
    <3>1. s # <<>> => Head(s).do \in {"cleanup", "stop", "awaitStop"}
      BY <2>2
    <3>2. QED
      BY <1>1, <3>1 DEF Now
  <2>5. KeepsPlans
    BY <1>a, <2>1, OthersKeepPlans DEF OverSettle
  <2>6. ASSUME NEW x \in Members(agenda'), x.do = "settle"
        PROVE  x.cfg = rt'[x.of].plan
    <3>1. x \in Under(agenda)
      BY <1>1, <1>5, <2>1, <2>6 DEF OverSettle
    <3>2. x.of \in Providers
      BY <1>c, <2>6 DEF Steps
    <3>3. QED
      BY <1>b, <1>c, <2>5, <2>6, <3>1, <3>2 DEF KeepsPlans
  <2>7. QED
    BY <1>6, <1>7, <2>3, <2>4, <2>6 DEF OverSettle
<1>9. CASE ~\E x \in Under(agenda) : x.do = "settle"
  <2>1. CASE ~\E x \in Members(s) : x.do = "settle"
    <3>1. \A x \in Members(agenda') : x.do # "settle"
      BY <1>1, <1>9, <2>1
    <3>2. Under(agenda') \subseteq Members(agenda')
      BY <1>1, <1>4
    <3>3. QED
      BY <1>2, <1>6, <1>7, <3>1, <3>2
  <2>2. CASE \E x \in Members(s) : x.do = "settle"
    <3> DEFINE p == Now.of
               y == Step("reconcile", p)
               z == StepWith("settle", p, Now.cfg, "", rt[p].plan # Now.cfg)
    <3>1. Now.do = "apply" /\ Now.cfg # NoPlan /\ s = <<y, z>>
      BY <1>5, <2>2
    <3>2. /\ y.do = "reconcile" /\ y.of = p
          /\ z.do = "settle" /\ z.of = p /\ z.cfg = Now.cfg
      BY DEF Step, StepWith
    <3>3. p \in Providers /\ Apply
      BY <1>a, <3>1, Concerned, HostDoes
    <3>4. /\ Ages(call[p], call'[p]) /\ rt'[p].plan = Now.cfg
          /\ call[p].pending /\ call[p].op # "Probe" => call'[p].stale
      <4>1. Now.flag \/ rt[p].plan # Now.cfg
        BY <1>b, <1>c, <3>1 DEF Doing, Now
      <4>2. QED
        BY <1>a, <3>1, <3>3, <4>1, AgersTell
    <3>5. ~(call[p].pending /\ call[p].op = "Probe")
      BY <3>3 DEF Intent, Fits
    <3> HIDE DEF y, z, p
    <3>6. Len(s) = 2 /\ Head(s) = y /\ Members(s) = {y, z}
      <4>1. Members(<<y, z>>) = {y, z}
        BY PairMembers, Zenon
      <4>2. QED
        BY <3>1, <4>1
    <3>7. Deep(agenda') \subseteq Under(agenda)
      BY <1>2, <3>6
    <3>8. agenda' # <<>> /\ Now'.do = "reconcile" /\ Now'.of = p
      <4>1. s # <<>>
        BY <3>1
      <4>2. QED
        BY <1>1, <3>2, <3>6, <4>1 DEF Now
    <3>9. call'[p].pending => call'[p].stale
      BY <3>4, <3>5 DEF Ages
    <3>10. ASSUME NEW x \in Members(agenda'), x.do = "settle"
           PROVE  x.cfg = rt'[x.of].plan
      <4>1. x = z
        BY <1>1, <1>9, <3>2, <3>6, <3>10
      <4>2. QED
        BY <3>2, <3>4, <4>1
    <3>11. QED
      BY <1>6, <1>7, <1>9, <3>7, <3>8, <3>9, <3>10 DEF OverSettle
  <2>3. QED
    BY <2>1, <2>2
<1>10. QED
  BY <1>8, <1>9

LEMMA RequestsKeepNested ==
  ASSUME HInv, UpdateSettings \/ SampleDue \/ Pause \/ Resume \/ StopAll
  PROVE  Nested'
<1>1. TypeOK /\ agenda' \in Seq(Steps)
  BY StepKeepsPlan DEF HInv, PInv, IInv, CallsInOrder, Stacks, Next
<1>2. \A x \in Members(agenda') : Asks(x)
  BY <1>1, RequestsAsk
<1>3. Under(agenda') \subseteq Members(agenda') /\ (agenda' # <<>> => Head(agenda') \in Members(agenda'))
  BY <1>1, MembersOf
<1>4. Deep(agenda') \subseteq Under(agenda')
  <2>1. Len(agenda') \in Nat
    BY <1>1
  <2>2. QED
    BY <2>1 DEF Deep, Under
<1>5. \A x \in Members(agenda') :
        /\ x.do \notin {"settle", "attempt", "awaitStart", "awaitSample"}
        /\ x.do = "apply" => x.flag
  BY <1>2 DEF Asks
<1>6. QED
  BY <1>3, <1>4, <1>5 DEF Nested, Doing, Now

LEMMA OthersKeepNested ==
  ASSUME HInv, Nested,
         \/ \E p \in Providers : Worker(p) \/ WorkerDies(p) \/ RetryFallsDue(p) \/ SampleFallsDue(p)
         \/ DeadlinePasses
         \/ UNCHANGED vars
  PROVE  Nested'
<1>1. IInv /\ agenda \in Seq(Steps)
  BY DEF HInv, PInv, IInv, CallsInOrder, Stacks
<1>2. \A q \in Providers : Drifts(q)
  BY <1>1, OthersDrift
<1>3. UNCHANGED <<slow, paused, shuttingDown, agenda>>
  BY DEF Worker, WorkerCalls, WorkerRefuses, WorkerAnswers, WorkerAnswersWith,
     WorkerDies, RetryFallsDue, SampleFallsDue, DeadlinePasses, vars
<1>4. \A x \in Members(agenda) : x.do \notin {"sync", "applyDesired"} => x.of \in Providers
  <2>1. Members(agenda) \subseteq Steps
    BY <1>1, MembersOf
  <2>2. QED
    BY <2>1 DEF Steps
<1>5. agenda # <<>> => Now \in Members(agenda)
  BY <1>1, MembersOf DEF Now
<1>6. (\E x \in Under(agenda) : x.do = "settle") => agenda # <<>>
  BY <1>1, MembersOf
<1>7. /\ Members(agenda') = Members(agenda) /\ Deep(agenda') = Deep(agenda) /\ Under(agenda') = Under(agenda)
      /\ Now' = Now /\ \A do : Doing(do)' <=> Doing(do)
  BY <1>3 DEF Now, Doing
<1> SUFFICES ASSUME Alone, ProbesInTime
             PROVE  /\ \A x \in Deep(agenda) : x.do # "settle"
                    /\ (\E x \in Under(agenda) : x.do = "settle") =>
                         /\ Now.do \in OverSettle
                         /\ Now.do = "reconcile" /\ call'[Now.of].pending => call'[Now.of].stale
                    /\ \A x \in Members(agenda) : x.do = "settle" => x.cfg = rt'[x.of].plan
                    /\ Doing("apply") /\ Now.cfg # NoPlan => Now.flag \/ rt'[Now.of].plan # Now.cfg
                    /\ Doing("attempt") \/ Doing("awaitStart") \/ Doing("awaitSample") => Active(Now.of)'
  BY <1>3, <1>7 DEF Nested, Alone, ProbesInTime
<1>8. \A q \in Providers : /\ rt'[q].plan = rt[q].plan /\ call'[q].pending = call[q].pending
                           /\ call'[q].stale = call[q].stale /\ (Active(q) => Active(q)')
  BY <1>2, <1>3 DEF Drifts, Active
<1>9. Doing("apply") \/ Doing("attempt") \/ Doing("awaitStart") \/ Doing("awaitSample") => Now.of \in Providers
  BY <1>1, HeadIsAStep
<1>10. Doing("attempt") \/ Doing("awaitStart") \/ Doing("awaitSample") => Active(Now.of)'
  <2> SUFFICES ASSUME Doing("attempt") \/ Doing("awaitStart") \/ Doing("awaitSample")
               PROVE  Active(Now.of)'
    OBVIOUS
  <2>1. Now.of \in Providers /\ Active(Now.of)
    BY <1>9 DEF Nested
  <2>2. QED
    BY <1>3, <1>7, <1>8, <2>1 DEF Active
<1>11. QED
  BY <1>4, <1>5, <1>6, <1>8, <1>9, <1>10 DEF Nested, OverSettle

LEMMA NestedAtFirst == ASSUME Init PROVE Nested
<1>1. agenda = <<>> /\ Members(agenda) = {}
  BY ShortMembers DEF Init
<1>2. Under(agenda) = {} /\ Deep(agenda) = {}
  <2>1. 2 .. 0 = {} /\ 3 .. 0 = {} /\ Len(<<>>) = 0
    OBVIOUS
  <2>2. QED
    BY <1>1, <2>1 DEF Under, Deep
<1>3. QED
  BY <1>1, <1>2 DEF Nested, Doing

LEMMA StepKeepsNested == ASSUME HInv, Intent, Nested, [Next]_vars PROVE Nested'
<1>1. CASE UpdateSettings \/ SampleDue \/ Pause \/ Resume \/ StopAll
  BY <1>1, RequestsKeepNested
<1>2. CASE Host
  BY <1>2, HostKeepsNested
<1>3. CASE \/ \E p \in Providers : Worker(p) \/ WorkerDies(p) \/ RetryFallsDue(p) \/ SampleFallsDue(p)
           \/ DeadlinePasses
           \/ UNCHANGED vars
  BY <1>3, OthersKeepNested
<1>4. QED
  BY <1>1, <1>2, <1>3 DEF Next

-----------------------------------------------------------------------------
(* No retry outlives the wish to run: what clears it is on the stack.      *)

Clears(x, p) ==
  /\ x.of = p
  /\ x.do = "stop" \/ (x.do = "settle" /\ (paused \/ ~Enabled(x.cfg)))

Cleared(p) ==
  ~Active(p) /\ rt[p].retry # "None" /\ call[p].stage # "dead" =>
    \E x \in Members(agenda) : Clears(x, p)

\* A step that schedules no retry.
LEMMA ClearedByTheRest ==
  ASSUME IInv, Host, NEW p \in Providers, Cleared(p), ~Clears(Now, p), Active(p) => Active(p)',
         rt'[p].retry \in {rt[p].retry, "None"}, call[p].stage = "dead" => call'[p].stage = "dead"
  PROVE  Cleared(p)'
<1> SUFFICES ASSUME ~Active(p)', rt'[p].retry # "None", call'[p].stage # "dead"
             PROVE  \E x \in Members(agenda') : Clears(x, p)'
  BY DEF Cleared
<1>1. PICK x \in Members(agenda) : Clears(x, p)
  BY DEF Cleared
<1>2. x \in Members(agenda')
  BY <1>1, Stacking
<1>3. Clears(x, p)'
  BY <1>1, HostKeepsModes DEF Clears
<1>4. QED
  BY <1>2, <1>3

LEMMA ClearerLeft ==
  ASSUME NEW p \in Providers, NEW x, x \in Members(agenda'), Clears(x, p)'
  PROVE  Cleared(p)'
BY DEF Cleared

\* Nor does a step of the host that is about another provider, or only decides.
LEMMA DecidersClear ==
  ASSUME IInv, Host, NEW p \in Providers, Cleared(p), Same(p)
  PROVE  Cleared(p)'
<1>1. UNCHANGED <<paused, shuttingDown>>
  BY HostKeepsModes
<1>2. /\ Active(p) => Active(p)'
      /\ rt'[p].retry = rt[p].retry /\ call'[p] = call[p]
  BY <1>1 DEF Same, Stands, Active
<1>3. CASE ~Clears(Now, p)
  BY <1>2, <1>3, ClearedByTheRest
<1>4. CASE Clears(Now, p) /\ Now.do = "settle"
  <2> DEFINE x == StopStep(p, "apply", Now.cfg)
  <2>1. Then(<<x>>)
    <3>1. PICK s \in Seq(Steps) : Then(s) /\ Pushes(Now.of, s)
      BY Stacking
    <3>2. QED
      BY <1>4, <3>1 DEF Pushes, Leaves, Clears
  <2>2. x \in Steps /\ x.do = "stop" /\ x.of = p
    <3>1. "apply" \in Whys /\ Now.cfg \in Plans
      BY <1>4, Concerned DEF Whys
    <3>2. x \in Steps
      BY <3>1, SmallSteps
    <3>3. QED
      BY <3>2 DEF StopStep, StepWith
  <2> HIDE DEF x
  <2>3. QED
    BY <2>1, <2>2, PushedOne, ClearerLeft DEF Clears
<1>5. CASE Clears(Now, p) /\ Now.do = "stop"
  <2>1. rt'[p].retry = "None"
    BY <1>5, TheStep, StopTells DEF Clears
  <2>2. QED
    BY <2>1 DEF Cleared
<1>6. QED
  BY <1>3, <1>4, <1>5 DEF Clears

LEMMA LateAnswersSchedule ==
  ASSUME TypeOK, NEW p \in Providers, call[p].op \in Operations \ {"Probe"}, ~Active(p)
  PROVE  LateAnswer(p).rt.retry \in {rt[p].retry, "None"}
<1> DEFINE o == LateAnswer(p)
<1>1. CASE call[p].op = "Sample"
  <2>1. o = LateSample(p)
    BY <1>1 DEF LateAnswer
  <2> HIDE DEF o
  <2>2. o.rt = rt[p]
    BY <2>1, LateSampleStands
  <2>3. QED
    BY <2>2 DEF o
<1>2. CASE call[p].op \in Starts
  <2>1. o = LateStart(p)
    BY <1>2 DEF LateAnswer, Starts
  <2> HIDE DEF o
  <2>2. o.rt.retry = "None"
    BY <2>1, LateStartStands
  <2>3. QED
    BY <2>2 DEF o
<1>3. CASE call[p].op = "Stop"
  <2>1. o = LateStop(p)
    BY <1>3 DEF LateAnswer
  <2> HIDE DEF o
  <2>2. o.rt.retry = "None"
    BY <2>1, LateStopStands
  <2>3. QED
    BY <2>2 DEF o
<1>4. QED
  BY <1>1, <1>2, <1>3 DEF Operations, Starts

LEMMA HostClears ==
  ASSUME HInv, Host, Intent, Nested, Alone, ProbesInTime, NEW p \in Providers, Cleared(p)
  PROVE  Cleared(p)'
<1>1. IInv /\ TypeOK /\ UNCHANGED <<paused, shuttingDown>> /\ Now \in Steps /\ agenda # <<>>
  BY HostKeepsModes, Stacking DEF HInv, PInv, IInv
<1>2. Fits(p) /\ Timely(Now)
  BY <1>1, Stacking DEF Intent
<1>3. CASE \/ p # Now.of
           \/ Now.do \in {"sync", "applyDesired", "desire", "settle", "shed", "retry", "cleanup"}
  BY <1>1, <1>3, Bystanders, DecidersClear
<1>4. CASE p = Now.of /\ Now.do \in {"renew", "probe", "sendProbe"}
  <2>1. rt' = rt /\ (call[p].stage = "dead" => call'[p].stage = "dead")
    BY <1>1, <1>4, TheStep, AgersTell, SendersTell DEF Ages, Sent
  <2>2. ~Clears(Now, p)
    BY <1>4 DEF Clears
  <2>3. Active(p) => Active(p)'
    BY <1>1, <2>1 DEF Active
  <2>4. QED
    BY <1>1, <2>1, <2>2, <2>3, ClearedByTheRest
<1>5. CASE p = Now.of /\ Now.do = "apply"
  <2>1. Apply /\ Now.cfg \in Plans
    BY <1>1, <1>5, HostDoes, Concerned
  <2>2. CASE Now.cfg = NoPlan
    <3>1. Same(p)
      BY <1>1, <1>5, <2>1, <2>2, AgersTell, Untouched
    <3>2. QED
      BY <1>1, <3>1, DecidersClear
  <2>3. CASE Now.cfg # NoPlan
    <3> DEFINE changed == rt[p].plan # Now.cfg
               x == StepWith("settle", p, Now.cfg, "", changed)
               y == Step("reconcile", p)
    <3>1. Then(<<y, x>>)
      <4>1. PICK s \in Seq(Steps) : Then(s) /\ Pushes(Now.of, s)
        BY <1>1, Stacking
      <4>2. QED
        BY <1>5, <2>3, <4>1 DEF Pushes, Leaves
    <3>2. x \in Steps /\ x.do = "settle" /\ x.of = p /\ x.cfg = Now.cfg
      <4>1. changed \in BOOLEAN
        OBVIOUS
      <4> HIDE DEF changed
      <4>2. x \in Steps
        BY <2>1, <4>1, SmallSteps
      <4>3. QED
        BY <4>2 DEF StepWith
    <3>3. y \in Steps
      BY SmallSteps
    <3> HIDE DEF x, y, changed
    <3>4. x \in Members(agenda')
      BY <1>1, <3>1, <3>2, <3>3, PushedSecond
    <3>5. ~shuttingDown /\ rt'[p].plan = Now.cfg
      BY <1>1, <1>2, <1>5, <2>1, <2>3, AgersTell DEF Timely, Planning
    <3>6. ~Active(p)' => paused' \/ ~Enabled(x.cfg)
      BY <1>1, <3>2, <3>5 DEF Active
    <3>7. ~Active(p)' => \E z \in Members(agenda') : Clears(z, p)'
      BY <3>2, <3>4, <3>6 DEF Clears
    <3>8. QED
      BY <3>7 DEF Cleared
  <2>4. QED
    BY <2>2, <2>3
<1>6. CASE p = Now.of /\ Now.do \in {"attempt", "sample", "awaitStart", "awaitSample"}
  <2>1. KeepsPlans
    BY <1>1, <1>6, OthersKeepPlans
  <2>2. Active(p)' <=> Active(p)
    BY <1>1, <2>1 DEF Active, KeepsPlans
  <2>3. CASE Now.do # "sample"
    <3>1. Active(p)
      BY <1>1, <1>6, <2>3 DEF Nested, Doing, Now
    <3>2. QED
      BY <2>2, <3>1 DEF Cleared
  <2>4. CASE Now.do = "sample"
    <3>1. \/ rt' = rt /\ call' = call
          \/ Active(p)
      BY <1>1, <1>6, <2>4, TheStep, SendersTell
    <3>2. CASE rt' = rt /\ call' = call
      BY <1>1, <3>2, Untouched, DecidersClear
    <3>3. QED
      BY <2>2, <3>1, <3>2 DEF Cleared
  <2>5. QED
    BY <2>3, <2>4
<1>7. CASE p = Now.of /\ Now.do \in {"awaitProbe", "awaitStop"}
  <2>1. KeepsPlans
    BY <1>1, <1>7, OthersKeepPlans
  <2>2. Active(p) => Active(p)'
    BY <1>1, <2>1 DEF Active, KeepsPlans
  <2>3. Over(p) /\ rt'[p].retry \in {rt[p].retry, "None"}
    BY <1>1, <1>7, TheStep, AwaitProbeTells, AwaitStopTells DEF Stands
  <2>4. call[p].stage = "dead" => call'[p].stage = "dead"
    BY <2>3 DEF Over, Answered, TimesOut
  <2>5. ~Clears(Now, p)
    BY <1>7 DEF Clears
  <2>6. QED
    BY <1>1, <2>2, <2>3, <2>4, <2>5, ClearedByTheRest
<1>8. CASE p = Now.of /\ Now.do = "stop"
  <2>1. rt'[p].retry = "None"
    BY <1>1, <1>8, TheStep, StopTells
  <2>2. QED
    BY <2>1 DEF Cleared
<1>9. CASE p = Now.of /\ Now.do = "reconcile"
  <2>1. Reconcile /\ ~Clears(Now, p)
    BY <1>9, TheStep DEF Clears
  <2>2. rt'[p].plan = rt[p].plan
    BY <1>1, <1>9, <2>1, ReconcileTells
  <2>3. Active(p)' <=> Active(p)
    BY <1>1, <2>2 DEF Active
  <2>4. CASE rt'[p] = rt[p] /\ call'[p] = call[p]
    BY <1>1, <2>1, <2>3, <2>4, ClearedByTheRest
  <2>5. CASE call'[p].stage = "dead"
    BY <2>5 DEF Cleared
  <2>6. CASE /\ Busy(p) /\ call[p].stage = "answered" /\ call[p].op \in Operations
             /\ rt'[p] = LateAnswer(p).rt
    <3>1. ~Active(p) => rt'[p].retry \in {rt[p].retry, "None"}
      BY <1>1, <1>2, <2>6, LateAnswersSchedule DEF Fits, Busy
    <3>2. CASE ~Active(p)
      BY <1>1, <2>1, <2>3, <2>6, <3>1, <3>2, ClearedByTheRest
    <3>3. CASE Active(p)
      BY <2>3, <3>3 DEF Cleared
    <3>4. QED
      BY <3>2, <3>3
  <2>7. QED
    BY <1>1, <1>9, <2>1, <2>4, <2>5, <2>6, ReconcileTells
<1>10. QED
  BY <1>1, <1>3, <1>4, <1>5, <1>6, <1>7, <1>8, <1>9 DEF Steps, Waits

LEMMA RequestsClear ==
  ASSUME HInv, NEW p \in Providers, Cleared(p), UpdateSettings \/ SampleDue \/ Pause \/ Resume \/ StopAll
  PROVE  Cleared(p)'
<1>1. agenda = <<>> /\ UNCHANGED <<rt, call>> /\ Members(agenda) = {}
  <2>1. agenda = <<>> /\ UNCHANGED <<rt, call>>
    BY DEF UpdateSettings, SampleDue, Pause, Resume, StopAll, Calm
  <2>2. QED
    BY <2>1, ShortMembers
<1>2. CASE Pause \/ StopAll
  <2>1. PICK why \in {"pause", "shutdown"} : agenda' = StopLoop(why)
    BY <1>2 DEF Pause, StopAll, StopLoop
  <2>2. \E i \in 1 .. Len(agenda') : agenda'[i] = StopStep(p, why, NoPlan)
    BY <2>1, StopLoopStops
  <2>3. StopStep(p, why, NoPlan) \in Members(agenda')
    BY <2>2 DEF Members
  <2>4. StopStep(p, why, NoPlan).do = "stop" /\ StopStep(p, why, NoPlan).of = p
    BY DEF StopStep, StepWith
  <2>5. QED
    BY <2>3, <2>4 DEF Cleared, Clears
<1>3. CASE UpdateSettings \/ SampleDue \/ Resume
  <2>1. Active(p) \/ rt[p].retry = "None" \/ call[p].stage = "dead"
    BY <1>1 DEF Cleared
  <2>2. Active(p) => Active(p)'
    BY <1>1, <1>3 DEF Active, UpdateSettings, SampleDue, Resume
  <2>3. QED
    BY <1>1, <2>1, <2>2 DEF Cleared
<1>4. QED
  BY <1>2, <1>3

LEMMA OthersClear ==
  ASSUME HInv, NEW p \in Providers, Cleared(p),
         \/ \E q \in Providers : Worker(q) \/ WorkerDies(q) \/ RetryFallsDue(q) \/ SampleFallsDue(q)
         \/ DeadlinePasses
         \/ UNCHANGED vars
  PROVE  Cleared(p)'
<1>1. Drifts(p) /\ UNCHANGED <<slow, paused, shuttingDown, agenda>>
  BY OthersDrift DEF HInv, PInv
<1>2. /\ Active(p)' <=> Active(p)
      /\ rt'[p].retry = rt[p].retry
      /\ call[p].stage = "dead" => call'[p].stage = "dead"
  BY <1>1 DEF Drifts, Stands, Active
<1>3. \A x : Clears(x, p)' <=> Clears(x, p)
  BY <1>1 DEF Clears
<1>4. QED
  BY <1>1, <1>2, <1>3 DEF Cleared

-----------------------------------------------------------------------------
(* What is wanted wins.                                                    *)

WInv ==
  /\ HInv /\ Intent /\ Nested
  /\ Alone /\ ProbesInTime => \A p \in Providers : Cleared(p)

LEMMA WInvAtFirst == ASSUME Init PROVE WInv
<1>1. \A p \in Providers : Cleared(p)
  <2>1. \A p \in Providers : rt[p].retry = "None"
    BY DEF Init
  <2>2. QED
    BY <2>1 DEF Cleared
<1>2. QED
  BY <1>1, PlansAtFirst, IntentAtFirst, NestedAtFirst DEF WInv

LEMMA StepKeepsWInv == ASSUME WInv, [Next]_vars PROVE WInv'
<1>1. HInv' /\ Intent' /\ Nested'
  BY StepKeepsPlans, StepKeepsIntent, StepKeepsNested DEF WInv
<1>2. slow' = slow
  BY DEF Next, vars, UpdateSettings, SampleDue, Pause, Resume, StopAll, Host, Desire, ApplyDesired,
     Sync, Renew, Probe, Apply, Settle, Shed, Retry, SendProbe, SendStart, SendSample, Stop,
     AwaitProbe, AwaitStart, AwaitSample, AwaitStop, Reconcile, Cleanup, Worker, WorkerCalls,
     WorkerRefuses, WorkerAnswers, WorkerAnswersWith, WorkerDies, RetryFallsDue, SampleFallsDue,
     DeadlinePasses
<1>3. ASSUME Alone, ProbesInTime, NEW p \in Providers
      PROVE  Cleared(p)'
  <2>1. HInv /\ Intent /\ Nested /\ Cleared(p)
    BY <1>3 DEF WInv
  <2>2. CASE UpdateSettings \/ SampleDue \/ Pause \/ Resume \/ StopAll
    BY <2>1, <2>2, RequestsClear
  <2>3. CASE Host
    BY <1>3, <2>1, <2>3, HostClears
  <2>4. CASE \/ \E q \in Providers : Worker(q) \/ WorkerDies(q) \/ RetryFallsDue(q) \/ SampleFallsDue(q)
             \/ DeadlinePasses
             \/ UNCHANGED vars
    BY <2>1, <2>4, OthersClear
  <2>5. QED
    BY <2>2, <2>3, <2>4 DEF Next
<1>4. QED
  BY <1>1, <1>2, <1>3 DEF WInv, Alone, ProbesInTime

(* However late answers come and loops nest, a provider that is paused, shut
   down or disabled and has no call outstanding does not run, as long as probes
   answer in time; and a single provider has no retry scheduled then. *)
THEOREM WhatIsWantedWins == Spec => []IntentWins
<1>1. WInv => IntentWins
  <2> SUFFICES ASSUME WInv, ProbesInTime, NEW p \in Providers, agenda = <<>>, ~Busy(p), ~Active(p)
               PROVE  /\ ~rt[p].started /\ rt[p].lifecycle # "Running"
                      /\ Alone => rt[p].retry = "None" \/ call[p].stage = "dead"
    BY DEF IntentWins, Settled
  <2>1. Members(agenda) = {}
    BY ShortMembers
  <2>2. Fits(p) /\ Owed(p) /\ (Alone => Cleared(p))
    BY DEF WInv, Intent
  <2>3. QED
    BY <2>1, <2>2 DEF Owed, Fits, Cleared, Doing
<1>2. QED
  BY <1>1, WInvAtFirst, StepKeepsWInv, PTL DEF Spec


-----------------------------------------------------------------------------
(* Any number of providers: which step of the stack is above which.        *)

\* The host collects: what is wanted is to run.
On == ~paused /\ ~shuttingDown

Nesting == {"apply", "settle", "cleanup"}

\* The steps that no application of a plan, and no clean-up, waits below.
Bottom == {"probe", "sendProbe", "awaitProbe", "retry", "sample", "awaitSample", "renew",
           "desire", "applyDesired"}

Above(x, y, a) == \E i, j \in 1 .. Len(a) : i < j /\ x = a[i] /\ y = a[j]
Beneath(x, y, a) == \E i, j \in 2 .. Len(a) : i < j /\ x = a[i] /\ y = a[j]

LEMMA AboveAfter ==
  ASSUME NEW a \in Seq(Steps), a # <<>>, NEW s \in Seq(Steps), NEW b, b = s \o Tail(a),
         NEW x, NEW y
  PROVE  /\ Above(x, y, b) =>
              Above(x, y, a) \/ (x \in Members(s) /\ y \in Members(s) \union Under(a))
         /\ Beneath(x, y, b) =>
              Beneath(x, y, a) \/ (x \in Under(s) /\ y \in Members(s) \union Under(a))
<1>1. /\ Len(a) \in Nat \ {0} /\ Len(s) \in Nat /\ Len(b) = Len(s) + Len(a) - 1
      /\ \A i \in 1 .. Len(s) : i \in 1 .. Len(b) /\ b[i] = s[i]
      /\ \A i \in 1 .. Len(b) :
           i \notin 1 .. Len(s) => i - Len(s) + 1 \in 2 .. Len(a) /\ b[i] = a[i - Len(s) + 1]
  BY Restacked
<1>2. \A i \in 1 .. Len(b) : b[i] \in Members(s) \union Under(a)
  BY <1>1 DEF Members, Under
<1>3. ASSUME Above(x, y, b)
      PROVE  Above(x, y, a) \/ (x \in Members(s) /\ y \in Members(s) \union Under(a))
  <2>1. PICK i, j \in 1 .. Len(b) : i < j /\ x = b[i] /\ y = b[j]
    BY <1>3 DEF Above
  <2>2. CASE i \in 1 .. Len(s)
    BY <1>1, <1>2, <2>1, <2>2 DEF Members
  <2>3. CASE i \notin 1 .. Len(s)
    <3>1. j \notin 1 .. Len(s)
      BY <1>1, <2>1, <2>3
    <3> DEFINE k == i - Len(s) + 1
               l == j - Len(s) + 1
    <3>2. k \in 1 .. Len(a) /\ l \in 1 .. Len(a) /\ k < l /\ x = a[k] /\ y = a[l]
      BY <1>1, <2>1, <2>3, <3>1
    <3> HIDE DEF k, l
    <3>3. QED
      BY <3>2 DEF Above
  <2>4. QED
    BY <2>2, <2>3
<1>4. ASSUME Beneath(x, y, b)
      PROVE  Beneath(x, y, a) \/ (x \in Under(s) /\ y \in Members(s) \union Under(a))
  <2>1. PICK i, j \in 2 .. Len(b) : i < j /\ x = b[i] /\ y = b[j]
    BY <1>4 DEF Beneath
  <2>2. i \in 1 .. Len(b) /\ j \in 1 .. Len(b)
    BY <2>1
  <2>3. CASE i \in 1 .. Len(s)
    BY <1>1, <1>2, <2>1, <2>2, <2>3 DEF Under
  <2>4. CASE i \notin 1 .. Len(s)
    <3>1. j \notin 1 .. Len(s)
      BY <1>1, <2>1, <2>2, <2>4
    <3> DEFINE k == i - Len(s) + 1
               l == j - Len(s) + 1
    <3>2. k \in 2 .. Len(a) /\ l \in 2 .. Len(a) /\ k < l /\ x = a[k] /\ y = a[l]
      BY <1>1, <2>1, <2>2, <2>4, <3>1
    <3> HIDE DEF k, l
    <3>3. QED
      BY <3>2 DEF Beneath
  <2>5. QED
    BY <2>3, <2>4
<1>5. QED
  BY <1>3, <1>4

LEMMA HeadIsAbove ==
  ASSUME NEW a \in Seq(Steps), a # <<>>, NEW y \in Under(a)
  PROVE  Above(Head(a), y, a)
<1>1. Len(a) \in Nat \ {0} /\ Head(a) = a[1]
  BY EmptySeq
<1>2. PICK j \in 2 .. Len(a) : y = a[j]
  BY DEF Under
<1>3. 1 \in 1 .. Len(a) /\ j \in 1 .. Len(a) /\ 1 < j
  BY <1>1
<1>4. QED
  BY <1>1, <1>2, <1>3 DEF Above

LEMMA AboveAreMembers ==
  ASSUME NEW a \in Seq(Steps), NEW x, NEW y
  PROVE  /\ Above(x, y, a) => x \in Members(a) /\ y \in Under(a)
         /\ Beneath(x, y, a) => x \in Under(a) /\ y \in Under(a)
         /\ Beneath(x, y, a) => Above(x, y, a)
<1>1. Len(a) \in Nat
  OBVIOUS
<1>2. QED
  BY <1>1 DEF Above, Beneath, Members, Under

\* When the head is gone, what is left of the stack was beneath it.
LEMMA PoppedIsBeneath ==
  ASSUME NEW a \in Seq(Steps), a # <<>>, NEW b, b = <<>> \o Tail(a), b # <<>>, NEW y \in Under(b)
  PROVE  Beneath(Head(b), y, a)
<1>1. /\ Len(a) \in Nat \ {0} /\ Len(b) = Len(a) - 1
      /\ \A i \in 1 .. Len(b) : i + 1 \in 2 .. Len(a) /\ b[i] = a[i + 1]
  <2>1. <<>> \in Seq(Steps) /\ Len(<<>>) = 0
    OBVIOUS
  <2>2. /\ Len(a) \in Nat \ {0} /\ Len(b) = 0 + Len(a) - 1
        /\ \A i \in 1 .. Len(b) :
             i \notin 1 .. 0 => i - 0 + 1 \in 2 .. Len(a) /\ b[i] = a[i - 0 + 1]
    BY <2>1, Restacked
  <2>3. QED
    BY <2>2
<1>2. PICK j \in 2 .. Len(b) : y = b[j]
  BY DEF Under
<1>3. b \in Seq(Steps) /\ Head(b) = b[1]
  <2>1. b = Tail(a) /\ Tail(a) \in Seq(Steps)
    OBVIOUS
  <2>2. QED
    BY <2>1, EmptySeq
<1>4. 1 \in 1 .. Len(b) /\ j \in 1 .. Len(b)
  BY <1>1, <1>2
<1>5. 2 \in 2 .. Len(a) /\ j + 1 \in 2 .. Len(a) /\ 2 < j + 1 /\ b[1] = a[2] /\ y = a[j + 1]
  BY <1>1, <1>2, <1>4
<1>6. QED
  BY <1>3, <1>5 DEF Beneath

-----------------------------------------------------------------------------
(* How the stack is layered while the host collects.                       *)

\* A step that is going to leave the provider off, or stopped.
Ends(x, p) ==
  /\ x.of = p
  /\ \/ x.do = "apply" /\ x.cfg = {}
     \/ x.do = "settle" /\ ~Enabled(x.cfg)
     \/ x.do = "cleanup" /\ x.flag

Layered ==
  /\ \A x, y : Above(x, y, agenda) /\ y.do \in Nesting => x.do \notin Bottom
  /\ \A x, y : Beneath(x, y, agenda) /\ y.do \in Nesting => x.do # "reconcile"
  /\ \A x, y : Above(x, y, agenda) /\ x.do \in {"apply", "settle"} /\ Ends(y, x.of) =>
       ~Enabled(x.cfg)
  /\ \A x \in Under(agenda) : x.do # "stop"

\* While it waits, what the user wants of the provider is nothing.
Ended(p) == \A x \in Members(agenda) : Ends(x, p) => ~Enabled(Effective[p])

LEMMA UnderOfOne == \A u, s, x : s = <<u>> => x \notin Under(s)
<1> SUFFICES ASSUME NEW u
             PROVE  Under(<<u>>) = {}
  OBVIOUS
<1>1. 2 .. 1 = {}
  OBVIOUS
<1>2. QED
  BY <1>1 DEF Under

LEMMA UnderOfTwo == \A u, v, s, x : s = <<u, v>> /\ x \in Under(s) => x = v
<1> SUFFICES ASSUME NEW u, NEW v
             PROVE  Under(<<u, v>>) = {v}
  OBVIOUS
<1>1. 2 .. 2 = {2}
  OBVIOUS
<1>2. QED
  BY <1>1 DEF Under

LEMMA UnderOfThree == \A u, v, w, s, x : s = <<u, v, w>> /\ x \in Under(s) => x = v \/ x = w
<1> SUFFICES ASSUME NEW u, NEW v, NEW w
             PROVE  Under(<<u, v, w>>) = {v, w}
  OBVIOUS
<1>1. 2 .. 3 = {2, 3}
  OBVIOUS
<1>2. QED
  BY <1>1 DEF Under

LEMMA ChangedPlansAreApplied ==
  ASSUME TypeOK, Effective # plan, NEW x \in Members(ApplyLoop(Effective, FALSE))
  PROVE  x.do = "apply"
<1>1. ApplyLoop(Effective, FALSE) \in Seq(Applies(Effective, FALSE))
  BY AppliesAreApplies, EffectiveIsAPlan DEF ApplyLoop
<1>2. x \in Applies(Effective, FALSE)
  BY <1>1, MembersOf
<1>3. QED
  BY <1>2, LoopKinds

LEMMA UnchangedPlansArePolled ==
  ASSUME Effective = plan, NEW x \in Members(ApplyLoop(Effective, FALSE))
  PROVE  x.do = "reconcile"
<1>1. ApplyLoop(Effective, FALSE) \in Seq(Polls)
  BY PollsArePolls DEF ApplyLoop
<1>2. x \in Polls
  BY <1>1, MembersOf
<1>3. QED
  BY <1>2, LoopKinds

\* What a step leaves below another.
Second(v) == v.do \in {"sendProbe", "settle", "sync", "cleanup"}

Shapes(s) ==
  \/ /\ Now.do \in {"applyDesired", "sync"} /\ s = ApplyLoop(Effective, FALSE)
     /\ Now.do = "sync" => Effective # plan
  \/ s = <<>>
  \/ \E u : s = <<u>>
  \/ \E u, v : s = <<u, v>> /\ Second(v)
  \/ \E u, v, w : s = <<u, v, w>> /\ Second(v) /\ w.do = "shed"

LEMMA ShapeOfPush ==
  ASSUME NEW p, NEW s, Pushes(p, s)
  PROVE  Shapes(s)
<1>1. /\ Second(Step("sendProbe", p)) /\ Second(SyncStep) /\ Step("shed", p).do = "shed"
      /\ \A cfg, flag : Second(StepWith("settle", p, cfg, "", flag))
      /\ \A cfg, flag : Second(StepWith("cleanup", p, cfg, "", flag))
  <2>1. \A x, y : x.do = y /\ y \in {"sendProbe", "settle", "sync", "cleanup"} => Second(x)
    BY DEF Second
  <2>2. SyncStep.do = "sync"
    BY Fields
  <2>3. Step("sendProbe", p).do = "sendProbe" /\ Step("shed", p).do = "shed"
    BY MadeSteps
  <2>4. ASSUME NEW cfg, NEW flag
        PROVE  /\ StepWith("settle", p, cfg, "", flag).do = "settle"
               /\ StepWith("cleanup", p, cfg, "", flag).do = "cleanup"
    BY DEF StepWith
  <2>5. QED
    BY <2>1, <2>2, <2>3, <2>4
<1>2. CASE Now.do = "settle"
  BY <1>1, <1>2, Zenon DEF Pushes, Shapes
<1>3. CASE Now.do \in {"reconcile", "probe", "apply", "retry"}
  BY <1>1, <1>3, Zenon DEF Pushes, Shapes
<1>4. CASE Now.do \notin {"settle", "reconcile", "probe", "apply", "retry"}
  BY <1>4, Zenon DEF Pushes, Shapes
<1>5. QED
  BY <1>2, <1>3, <1>4

LEMMA UnderPushed ==
  ASSUME IInv, Host, NEW s \in Seq(Steps), Pushes(Now.of, s), NEW x \in Under(s)
  PROVE  /\ x.do # "stop"
         /\ x.do = "reconcile" =>
              Now.do = "applyDesired" /\ \A y \in Members(s) : y.do = "reconcile"
<1>1. x \in Members(s) /\ TypeOK
  BY MembersOf DEF IInv
<1>2. CASE s = ApplyLoop(Effective, FALSE) /\ Effective = plan /\ Now.do = "applyDesired"
  BY <1>1, <1>2, UnchangedPlansArePolled
<1>3. CASE s = ApplyLoop(Effective, FALSE) /\ Effective # plan
  <2>1. x.do = "apply"
    BY <1>1, <1>3, ChangedPlansAreApplied
  <2>2. QED
    BY <2>1
<1>4. CASE s = <<>>
  <2>1. Members(s) = {}
    BY <1>4, MembersOf
  <2>2. QED
    BY <1>1, <2>1
<1>8. CASE \E u : s = <<u>>
  BY <1>8, UnderOfOne, Zenon
<1>5. CASE \E u, v : s = <<u, v>> /\ Second(v)
  <2>1. PICK u, v : s = <<u, v>> /\ Second(v)
    BY <1>5
  <2>2. x = v
    BY <2>1, UnderOfTwo
  <2>3. QED
    BY <2>1, <2>2 DEF Second
<1>6. CASE \E u, v, w : s = <<u, v, w>> /\ Second(v) /\ w.do = "shed"
  <2>1. PICK u, v, w : s = <<u, v, w>> /\ Second(v) /\ w.do = "shed"
    BY <1>6
  <2>2. x = v \/ x = w
    BY <2>1, UnderOfThree
  <2>3. QED
    BY <2>1, <2>2 DEF Second
<1>7. QED
  <2>1. Shapes(s)
    BY ShapeOfPush
  <2>2. QED
    BY <1>2, <1>3, <1>4, <1>5, <1>6, <1>8, <2>1, Zenon DEF Shapes

LEMMA BottomBegets ==
  ASSUME NEW x, Begets(Now.of, x), x.do \in Bottom
  PROVE  Now.do \in {"probe", "sendProbe", "sample"}
BY DEF Begets, Bottom

LEMMA HostKeepsLayered ==
  ASSUME IInv, Host, Layered, \A p \in Providers : Ended(p)
  PROVE  Layered'
<1>1. /\ agenda # <<>> /\ agenda \in Seq(Steps) /\ Now \in Steps
      /\ Members(agenda) = {Now} \union Under(agenda) /\ Members(agenda') \subseteq Steps
  BY Stacking DEF IInv, CallsInOrder, Stacks
<1>2. PICK s \in Seq(Steps) :
           /\ Then(s) /\ Pushes(Now.of, s)
           /\ \A x \in Members(s) : Begets(Now.of, x)
           /\ s # <<>> => Under(agenda') = Under(s) \union Under(agenda)
           /\ s = <<>> => Under(agenda') \subseteq Under(agenda)
  BY Stacking
<1>3. Under(s) \subseteq Members(s) /\ Members(s) \subseteq Steps /\ Under(agenda) \subseteq Steps
  BY <1>1, <1>2, MembersOf
<1>4. \A x, y : /\ Above(x, y, agenda') =>
                    \/ Above(x, y, agenda)
                    \/ x \in Members(s) /\ y \in Members(s) \union Under(agenda)
                /\ Beneath(x, y, agenda') =>
                    \/ Beneath(x, y, agenda)
                    \/ x \in Under(s) /\ y \in Members(s) \union Under(agenda)
  BY <1>1, <1>2, AboveAfter DEF Then
<1>5. \A y \in Under(agenda) : Above(Now, y, agenda)
  BY <1>1, HeadIsAbove DEF Now
<1>6. ASSUME NEW x, NEW y, Above(x, y, agenda'), y.do \in Nesting
      PROVE  x.do \notin Bottom
  <2>1. CASE Above(x, y, agenda)
    BY <1>6, <2>1 DEF Layered
  <2>2. CASE x \in Members(s) /\ y \in Members(s) \union Under(agenda)
    <3>1. SUFFICES ASSUME x.do \in Bottom
                   PROVE  FALSE
      OBVIOUS
    <3>2. Now.do \in {"probe", "sendProbe", "sample"}
      BY <1>2, <2>2, <3>1, BottomBegets
    <3>3. CASE y \in Under(agenda)
      BY <1>5, <1>6, <3>2, <3>3 DEF Layered, Bottom
    <3>4. CASE y \in Members(s)
      BY <1>2, <1>6, <3>2, <3>4 DEF Begets, Nesting
    <3>5. QED
      BY <2>2, <3>3, <3>4
  <2>3. QED
    BY <1>4, <1>6, <2>1, <2>2
<1>7. ASSUME NEW x, NEW y, Beneath(x, y, agenda'), y.do \in Nesting
      PROVE  x.do # "reconcile"
  <2>1. CASE Beneath(x, y, agenda)
    BY <1>7, <2>1 DEF Layered
  <2>2. CASE x \in Under(s) /\ y \in Members(s) \union Under(agenda)
    <3>1. SUFFICES ASSUME x.do = "reconcile"
                   PROVE  FALSE
      OBVIOUS
    <3>2. Now.do = "applyDesired" /\ \A z \in Members(s) : z.do = "reconcile"
      BY <1>2, <2>2, <3>1, UnderPushed
    <3>3. y \in Under(agenda)
      BY <1>7, <2>2, <3>2 DEF Nesting
    <3>4. QED
      BY <1>5, <1>7, <3>2, <3>3 DEF Layered, Bottom
  <2>3. QED
    BY <1>4, <1>7, <2>1, <2>2
<1>8. ASSUME NEW x, NEW y, Above(x, y, agenda'), x.do \in {"apply", "settle"}, Ends(y, x.of)
      PROVE  ~Enabled(x.cfg)
  <2>1. CASE Above(x, y, agenda)
    BY <1>8, <2>1 DEF Layered
  <2>2. CASE x \in Members(s) /\ y \in Members(s)
    BY <1>2, <1>8, <2>2 DEF Begets, Ends, Enabled
  <2>3. CASE x \in Members(s) /\ y \in Under(agenda)
    <3>1. CASE x.do = "apply"
      <4>1. x.of \in Providers /\ x.cfg = Effective[x.of]
        BY <1>2, <2>3, <3>1 DEF Begets
      <4>2. QED
        BY <1>1, <1>8, <2>3, <4>1 DEF Ended
    <3>2. CASE x.do = "settle"
      <4>1. Now.do = "apply" /\ x.cfg = Now.cfg /\ x.of = Now.of
        BY <1>2, <2>3, <3>2 DEF Begets
      <4>2. QED
        BY <1>5, <1>8, <2>3, <4>1 DEF Layered
    <3>3. QED
      BY <1>8, <3>1, <3>2
  <2>4. QED
    BY <1>4, <1>8, <2>1, <2>2, <2>3
<1>9. \A x \in Under(agenda') : x.do # "stop"
  BY <1>2, UnderPushed DEF Layered
<1>10. QED
  BY <1>6, <1>7, <1>8, <1>9 DEF Layered

-----------------------------------------------------------------------------
(* What a step of the host does to what is supported.                      *)

\* The host knows of everything the provider supports.
Knows(p) == own[p] \subseteq rt[p].caps

\* No answer to come is going to say what is supported.
Deaf(p) ==
  call[p].op \in Starts \union {"Sample"} /\ call[p].stage \notin {"idle", "dead"} =>
    call[p].stale

\* Of a provider that is to be off, the host never learns that it supports more.
Informed(p) == ~Enabled(rt[p].plan) => Knows(p) \/ Deaf(p)

Deciding == {"sync", "applyDesired", "desire", "settle", "shed", "retry", "cleanup"}

LEMMA NotConcerned ==
  ASSUME IInv, Host, ~shuttingDown, NEW q \in Providers, q # Now.of \/ Now.do \in Deciding
  PROVE  rt'[q] = rt[q] /\ call'[q] = call[q]
<1>1. CASE Now.do = "sync"
  BY <1>1, HostDoes, SyncTells
<1>2. CASE Now.do \in Deciding \ {"sync"}
  <2>1. Desire \/ ApplyDesired \/ Settle \/ Shed \/ Retry \/ Cleanup
    BY <1>2, HostDoes DEF Deciding, Desire, Settle, Shed, Retry, Cleanup, Renew, Probe, SendProbe,
         SendStart, SendSample, Stop, AwaitStop, AwaitProbe, AwaitStart, AwaitSample, Reconcile,
         Doing, Now
  <2>2. QED
    BY <2>1, DecidersTell
<1>3. CASE Now.do \notin Deciding
  <2> DEFINE p == Now.of
  <2>1. p \in Providers /\ q # p
    BY <1>3, Concerned DEF Deciding
  <2>2. Others(p) \/ (rt' = rt /\ call' = call)
    <3> HIDE DEF p
    <3>0. p = Now.of
      BY DEF p
    <3>1. CASE Renew \/ Probe \/ Apply
      BY <2>1, <3>0, <3>1, AgersTell
    <3>2. CASE SendStart \/ SendSample \/ SendProbe
      BY <2>1, <3>0, <3>2, SendersTell
    <3>3. CASE Stop \/ AwaitStop \/ AwaitProbe \/ AwaitStart \/ AwaitSample \/ Reconcile
      BY <2>1, <3>0, <3>3, StopTells, AwaitStopTells, AwaitProbeTells, AwaitStartTells,
         AwaitSampleTells, ReconcileTells
    <3>4. QED
      BY <1>3, <3>1, <3>2, <3>3, HostDoes, TheStep DEF Deciding, Desire, Settle, Shed, Retry, Cleanup,
           Doing, Now
  <2>3. QED
    BY <2>1, <2>2 DEF Others
<1>4. QED
  BY <1>1, <1>2, <1>3

\* What the end of a wait, or a late answer, says is supported.
LEMMA AwaitersLearn ==
  ASSUME IInv, NEW p \in Providers, p = Now.of, AwaitStart \/ AwaitSample
  PROVE  \/ Answered(p) /\ rt'[p].caps = own[p]
         \/ NoAnswer(p) /\ rt'[p].caps = rt[p].caps
<1>1. /\ TypeOK /\ rt[p] \in Runtimes /\ Install(rt[p], p) \in Runtimes
      /\ Install(rt[p], p).caps = own[p]
  BY InstallStands DEF IInv, Install, TypeOK, Runtimes
<1>2. ASSUME NEW r \in Runtimes
      PROVE  /\ [RetryLater(Failed(r), Now.tag) EXCEPT !.started = FALSE, !.sampleDue = TRUE].caps = r.caps
             /\ Started(r).caps = r.caps /\ SampleFailed(r, call[p].result).caps = r.caps
             /\ SampleFailed(r, "timeout").caps = r.caps
             /\ [r EXCEPT !.lifecycle = "Running"].caps = r.caps
  <2>1. [RetryLater(Failed(r), Now.tag) EXCEPT !.started = FALSE, !.sampleDue = TRUE].caps = r.caps
    BY DEF Runtimes, RetryLater, Failed
  <2>2. QED
    BY <2>1, HelpersKeepCaps, FieldsKeepCaps, SampleFailedKeepsCaps
<1>6. /\ [RetryLater(Failed(Install(rt[p], p)), Now.tag)
            EXCEPT !.started = FALSE, !.sampleDue = TRUE].caps = own[p]
      /\ Started(Install(rt[p], p)).caps = own[p]
      /\ SampleFailed(Install(rt[p], p), call[p].result).caps = own[p]
      /\ [Install(rt[p], p) EXCEPT !.lifecycle = "Running"].caps = own[p]
  BY <1>1, <1>2
<1>7. /\ [RetryLater(Failed(rt[p]), Now.tag) EXCEPT !.started = FALSE, !.sampleDue = TRUE].caps
           = rt[p].caps
      /\ SampleFailed(rt[p], "timeout").caps = rt[p].caps
  BY <1>1, <1>2
<1>3. CASE AwaitStart
  <2>1. \/ Answered(p) /\ rt'[p] = Started(Install(rt[p], p))
        \/ /\ Answered(p)
           /\ rt'[p] = [RetryLater(Failed(Install(rt[p], p)), Now.tag)
                          EXCEPT !.started = FALSE, !.sampleDue = TRUE]
        \/ /\ NoAnswer(p)
           /\ rt'[p] = [RetryLater(Failed(rt[p]), Now.tag) EXCEPT !.started = FALSE, !.sampleDue = TRUE]
    BY <1>1, <1>3 DEF AwaitStart, TypeOK
  <2>2. QED
    BY <1>6, <1>7, <2>1
<1>4. CASE AwaitSample
  <2>1. \/ Answered(p) /\ rt'[p] = [Install(rt[p], p) EXCEPT !.lifecycle = "Running"]
        \/ Answered(p) /\ rt'[p] = SampleFailed(Install(rt[p], p), call[p].result)
        \/ NoAnswer(p) /\ rt'[p] = SampleFailed(rt[p], "timeout")
    BY <1>1, <1>4 DEF AwaitSample, TypeOK
  <2>2. QED
    BY <1>6, <1>7, <2>1
<1>5. QED
  BY <1>3, <1>4

\* Only the answer to a call that is not of an earlier intent is heard.
LEMMA LateAnswersTeach ==
  ASSUME IInv, NEW p \in Providers, p = Now.of, Reconcile, ~(call[p].pending /\ call[p].op = "Probe")
  PROVE  \/ rt'[p].caps = rt[p].caps
         \/ rt'[p].caps = own[p] /\ LateAnswer(p).news /\ ~Deaf(p)
<1>0. TypeOK /\ rt[p] \in Runtimes /\ call[p] \in Calls
  BY DEF IInv, TypeOK
<1>1. CASE Busy(p) /\ call[p].stage = "answered" /\ call[p].op \in Operations /\ rt'[p] = LateAnswer(p).rt
  <2>1. call[p].op # "None" /\ call[p].op # "Probe"
    BY <1>1 DEF Busy, Operations
  <2>2. CASE ~LateAnswer(p).news
    BY <1>0, <1>1, <2>1, <2>2, LateAnswerKeepsPlan
  <2>3. CASE LateAnswer(p).news
    <3>1. ~call[p].stale
      BY <1>1, <2>1, <2>3, StaleBringsNoNews
    <3>2. call[p].op # "Stop"
      BY <2>3 DEF LateAnswer, LateStop, Outcome
    <3>3. QED
      BY <1>0, <1>1, <2>1, <2>3, <3>1, <3>2, LateAnswerKeepsPlan DEF Deaf, Operations, Starts
  <2>4. QED
    BY <2>2, <2>3
<1>2. CASE Busy(p) /\ call[p].stage = "dead"
  <2>1. rt'[p].caps = rt[p].caps
    <3>1. rt' = [rt EXCEPT ![p] = [(IF Enabled(rt[p].plan) THEN RetryNow(Failed(rt[p]), "Start")
                                    ELSE ClearRetry(Failed(rt[p]))) EXCEPT !.started = FALSE]]
      BY <1>2 DEF Reconcile, Busy
    <3>2. QED
      BY <1>0, <3>1 DEF TypeOK, Runtimes, RetryNow, ClearRetry, Failed
  <2>2. QED
    BY <2>1
<1>3. CASE ~Busy(p) \/ call[p].stage \in {"queued", "running"}
  BY <1>3, ReconcileTells DEF Busy
<1>4. QED
  BY <1>0, <1>1, <1>2, <1>3, ReconcileTells

\* What the host may learn of a provider, and when.
Learns(p) ==
  /\ Now.of = p
  /\ \/ Now.do = "awaitProbe"
     \/ Now.do \in {"awaitStart", "awaitSample"} /\ rt'[p].caps = own[p] /\ Answered(p)
     \/ Now.do = "reconcile" /\ rt'[p].caps = own[p] /\ LateAnswer(p).news /\ ~Deaf(p)

LEMMA CapsChange ==
  ASSUME IInv, Host, ~shuttingDown, NEW p \in Providers, ~(call[p].pending /\ call[p].op = "Probe")
  PROVE  rt'[p].caps = rt[p].caps \/ Learns(p)
<1>1. CASE Now.of # p \/ Now.do \in Deciding
  BY <1>1, NotConcerned
<1>2. CASE Now.of = p /\ Now.do \in {"renew", "probe", "apply", "sendProbe"}
  <2>1. Renew \/ Probe \/ Apply \/ SendProbe
    BY <1>2, HostDoes, TheStep
  <2>2. CASE rt' = rt
    BY <2>2
  <2>3. CASE rt' # rt
    <3>1. Apply
      BY <2>1, <2>3 DEF Renew, Probe, SendProbe
    <3>2. rt' = [rt EXCEPT ![p].plan = Now.cfg]
      BY <1>2, <2>3, <3>1 DEF Apply
    <3>3. rt[p] \in Runtimes
      BY DEF IInv, TypeOK
    <3>4. QED
      BY <3>2, <3>3 DEF IInv, TypeOK, Runtimes
  <2>4. QED
    BY <2>2, <2>3
<1>3. CASE Now.of = p /\ Now.do \in {"attempt", "sample", "stop", "awaitStop"}
  BY <1>3, TheStep, SendersKeep DEF KeepsCaps
<1>4. CASE Now.of = p /\ Now.do \in {"awaitStart", "awaitSample"}
  <2>1. AwaitStart \/ AwaitSample
    BY <1>4, TheStep
  <2>2. QED
    BY <1>4, <2>1, AwaitersLearn DEF Learns
<1>5. CASE Now.of = p /\ Now.do = "awaitProbe"
  BY <1>5 DEF Learns
<1>6. CASE Now.of = p /\ Now.do = "reconcile"
  <2>1. Reconcile
    BY <1>6, TheStep
  <2>2. QED
    BY <1>6, <2>1, LateAnswersTeach DEF Learns
<1>7. Now.do \in Deciding \union {"renew", "probe", "apply", "sendProbe", "attempt", "sample", "stop",
                               "awaitStop", "awaitStart", "awaitSample", "awaitProbe", "reconcile"}
  BY Stacking DEF Steps, Waits, Deciding
<1>8. QED
  BY <1>1, <1>2, <1>3, <1>4, <1>5, <1>6, <1>7

LEMMA HostHolds == ASSUME Host PROVE UNCHANGED <<own, held>>
<1>1. CASE Desire \/ ApplyDesired \/ Sync \/ Renew \/ Probe \/ Apply \/ Settle \/ Shed \/ Retry
  BY <1>1 DEF Desire, ApplyDesired, Sync, Renew, Probe, Apply, Settle, Shed, Retry
<1>2. CASE SendProbe \/ SendStart \/ SendSample \/ Stop
  BY <1>2 DEF SendProbe, SendStart, SendSample, Stop
<1>3. CASE AwaitProbe \/ AwaitStart \/ AwaitSample \/ AwaitStop \/ Reconcile \/ Cleanup
  BY <1>3 DEF AwaitProbe, AwaitStart, AwaitSample, AwaitStop, Reconcile, Cleanup
<1>4. QED
  BY <1>1, <1>2, <1>3 DEF Host

\* Which plans a step of the host changes.
LEMMA PlansChange ==
  ASSUME IInv, Host, ~shuttingDown
  PROVE  /\ Now.do # "desire" => desired' = desired
         /\ Now.do \notin {"applyDesired", "sync"} => plan' = plan
         /\ Now.do \in {"applyDesired", "sync"} => plan' = Effective
         /\ \A p \in Providers :
              rt'[p].plan = IF Now.do = "apply" /\ Now.of = p /\ Now.cfg # NoPlan
                            THEN Now.cfg ELSE rt[p].plan
<1>1. CASE Now.do \notin {"desire", "applyDesired", "sync", "apply"}
  BY <1>1, OthersKeepPlans DEF KeepsPlans
<1>2. CASE Now.do = "desire"
  BY <1>2, HostDoes DEF Desire
<1>3. CASE Now.do = "applyDesired"
  BY <1>3, HostDoes DEF ApplyDesired
<1>4. CASE Now.do = "sync"
  BY <1>4, HostDoes DEF Sync
<1>5. CASE Now.do = "apply"
  <2>1. Apply /\ rt \in [Providers -> Runtimes]
    BY <1>5, HostDoes DEF IInv, TypeOK
  <2>2. plan' = plan /\ desired' = desired
    BY <2>1 DEF Apply
  <2>3. rt' = IF Now.cfg = NoPlan THEN rt ELSE [rt EXCEPT ![Now.of].plan = Now.cfg]
    BY <2>1 DEF Apply
  <2>4. ASSUME NEW p \in Providers
        PROVE  rt'[p].plan = IF Now.of = p /\ Now.cfg # NoPlan THEN Now.cfg ELSE rt[p].plan
    BY <2>1, <2>3 DEF Runtimes
  <2>5. QED
    BY <1>5, <2>2, <2>4
<1>6. QED
  BY <1>1, <1>2, <1>3, <1>4, <1>5

\* What is known stays known, unless a probe fails.
LEMMA KnowsStays ==
  ASSUME IInv, Host, ~shuttingDown, NEW p \in Providers, ~(call[p].pending /\ call[p].op = "Probe"),
         Knows(p), ~(Now.do = "awaitProbe" /\ Now.of = p)
  PROVE  Knows(p)'
BY CapsChange, HostHolds DEF Knows, Learns

LEMMA EffectiveShrinks ==
  ASSUME TypeOK, NEW p \in Providers, desired'[p] = desired[p], rt'[p].caps \subseteq rt[p].caps,
         ~Enabled(Effective[p])
  PROVE  ~Enabled(Effective'[p])
<1>1. /\ desired[p] \in Plans /\ rt[p].caps \subseteq Categories
  BY DEF TypeOK, Runtimes
<1>2. CASE desired[p] = NoPlan
  BY <1>2 DEF Effective, Enabled
<1>3. CASE desired[p] # NoPlan
  <2>1. Effective[p] = desired[p] \intersect rt[p].caps /\ Effective'[p] = desired[p] \intersect rt'[p].caps
    BY <1>3 DEF Effective
  <2>2. Effective[p] # NoPlan
    BY <1>1, <2>1, UnsetAssumption DEF NoPlan
  <2>3. Effective[p] = {}
    BY <2>2 DEF Enabled
  <2>4. QED
    BY <2>1, <2>3 DEF Enabled
<1>4. QED
  BY <1>2, <1>3

LEMMA EffectiveStays ==
  ASSUME NEW p \in Providers, desired'[p] = desired[p], rt'[p].caps = rt[p].caps
  PROVE  Effective'[p] = Effective[p]
BY DEF Effective

-----------------------------------------------------------------------------
(* What a provider may count on while the host collects.                   *)

\* A plan that is being applied has been applied to the runtime; what is under
\* way for a provider the host does not know all of, is over its application.
Applied(p) ==
  /\ \A x \in Members(agenda) : x.do = "settle" /\ x.of = p => Knows(p) \/ x.cfg = rt[p].plan
  /\ \A x \in Under(agenda) : x.do = "settle" /\ x.of = p =>
       Knows(p) \/ (Now.of = p /\ Now.do \in OverSettle)
  /\ \A x \in Deep(agenda) : x.do = "settle" /\ x.of = p => Knows(p)
  /\ Doing("attempt") /\ Now.of = p => Knows(p) \/ Enabled(rt[p].plan)

\* What is left of the application of a plan will see to the provider.
Saved(p) ==
  \E x \in Members(agenda) : x.of = p /\ x.do \in {"apply", "settle"} /\ Enabled(x.cfg)

\* What the step at the head finds, before it changes the provider.
Poised(p) ==
  agenda # <<>> /\ Now.of = p =>
    /\ Now.do = "reconcile" =>
         /\ Enabled(plan[p]) => Enabled(rt[p].plan)
         /\ (\E y \in Under(agenda) : Ends(y, p)) => ~Enabled(rt[p].plan)
    /\ Now.do \in {"attempt", "awaitStart"} => \A y \in Under(agenda) : ~Ends(y, p)
    /\ Now.do \in {"stop", "awaitStop"} /\ Enabled(plan[p]) => Saved(p)

LEMMA PlanIsRight ==
  ASSUME HInv, Host, Now.do \notin {"desire", "sync", "applyDesired"}
  PROVE  plan = Effective
BY Stacking DEF HInv, PInv, PlanInHand, Resyncing, Now

LEMMA NothingUnderBottom ==
  ASSUME IInv, Host, Layered, NEW y \in Under(agenda), y.do \in Nesting
  PROVE  Now.do \notin Bottom
<1>1. agenda # <<>> /\ agenda \in Seq(Steps)
  BY Stacking DEF IInv, CallsInOrder, Stacks
<1>2. Above(Now, y, agenda)
  BY <1>1, HeadIsAbove DEF Now
<1>3. QED
  BY <1>2 DEF Layered

\* What a late answer makes the host clean up is not wanted.
LEMMA LateCleaning ==
  ASSUME TypeOK, NEW p \in Providers, call[p].op \in Operations \ {"Probe"}, LateAnswer(p).cleanup
  PROVE  ~Active(p)
<1> DEFINE o == LateAnswer(p)
<1>1. CASE call[p].op = "Sample"
  <2>1. o = LateSample(p)
    BY <1>1 DEF LateAnswer
  <2> HIDE DEF o
  <2>2. QED
    BY <2>1, LateSampleStands DEF o
<1>2. CASE call[p].op \in Starts
  <2>1. o = LateStart(p)
    BY <1>2 DEF LateAnswer, Starts
  <2> HIDE DEF o
  <2>2. QED
    BY <2>1, LateStartStands DEF o
<1>3. CASE call[p].op = "Stop"
  <2>1. o = LateStop(p)
    BY <1>3 DEF LateAnswer
  <2> HIDE DEF o
  <2>2. QED
    BY <2>1, LateStopStands DEF o
<1>4. QED
  BY <1>1, <1>2, <1>3 DEF Operations, Starts

LEMMA CleanupIsUnwanted ==
  ASSUME IInv, Host, NEW s \in Seq(Steps), Then(s), Now.do = "reconcile", NEW x \in Members(s),
         x.do = "cleanup", x.flag, NEW p \in Providers, p = Now.of,
         ~(call[p].pending /\ call[p].op = "Probe")
  PROVE  ~Active(p)
<1>1. Reconcile /\ agenda \in Seq(Steps) /\ agenda # <<>> /\ TypeOK
  BY TheStep, Stacking DEF IInv, CallsInOrder, Stacks
<1>2. /\ SyncStep \in Steps /\ CleanupStep(p, TRUE) \in Steps /\ CleanupStep(p, FALSE) \in Steps
      /\ SyncStep.do = "sync" /\ CleanupStep(p, FALSE).flag = FALSE /\ NoPlan \in Plans
  <2>1. SyncStep \in Steps /\ SyncStep.do = "sync" /\ NoPlan \in Plans
    BY SmallSteps, Fields, NoPlanIsAPlan
  <2>2. CleanupStep(p, TRUE) \in Steps /\ CleanupStep(p, FALSE) \in Steps
    BY <2>1, SmallSteps DEF CleanupStep
  <2>3. CleanupStep(p, FALSE).flag = FALSE
    BY DEF CleanupStep, StepWith
  <2>4. QED
    BY <2>1, <2>2, <2>3
<1>3. CASE Then(<<>>)
  <2>0. <<>> \in Seq(Steps)
    OBVIOUS
  <2>1. s = <<>>
    BY <1>1, <1>3, <2>0, SameSteps
  <2>2. QED
    BY <2>1, MembersOf
<1>4. CASE Busy(p) /\ call[p].op \in Operations /\ LateAnswer(p).cleanup
  BY <1>1, <1>4, LateCleaning DEF Busy
<1>5. CASE Then(<<SyncStep, CleanupStep(p, FALSE)>>)
  <2>1. s = <<SyncStep, CleanupStep(p, FALSE)>>
    BY <1>1, <1>2, <1>5, SameSteps, ShortSeqs
  <2>2. x = SyncStep \/ x = CleanupStep(p, FALSE)
    BY <2>1, MemberOfTwo
  <2>3. QED
    BY <1>2, <2>2
<1>6. QED
  <2>1. LateAnswer(p).news /\ call[p].op # "None" /\ ~LateAnswer(p).cleanup =>
          LateAnswer(p).cleanup = FALSE
    BY <1>1, LateAnswerIsTyped
  <2>2. QED
    BY <1>1, <1>3, <1>4, <1>5, <2>1, ReconcileTells DEF Operations

LEMMA HostKeepsEnded ==
  ASSUME HInv, Host, Intent, ProbesInTime, On, Layered, NEW p \in Providers,
         Ended(p), Poised(p), Informed(p)
  PROVE  Ended(p)'
<1>1. /\ IInv /\ TypeOK /\ ~shuttingDown /\ ~paused /\ Fits(p) /\ agenda # <<>>
      /\ Members(agenda) = {Now} \union Under(agenda)
  BY Stacking DEF HInv, PInv, IInv, On, Intent
<1>2. ~(call[p].pending /\ call[p].op = "Probe")
  BY <1>1 DEF Fits
<1>3. PICK s \in Seq(Steps) :
           /\ Then(s) /\ Members(agenda') = Members(s) \union Under(agenda)
           /\ \A x \in Members(s) : Begets(Now.of, x)
  BY <1>1, Stacking
<1>4. ASSUME ~Enabled(rt[p].plan), Now.do = "reconcile", Now.of = p, ~Enabled(Effective[p])
      PROVE  ~Enabled(Effective'[p])
  <2>1. desired'[p] = desired[p]
    BY <1>1, <1>4, PlansChange
  <2>2. rt'[p].caps \subseteq rt[p].caps
    BY <1>1, <1>2, <1>4, CapsChange DEF Learns, Informed, Knows
  <2>3. QED
    BY <1>1, <1>4, <2>1, <2>2, EffectiveShrinks
<1>5. ASSUME NEW x \in Under(agenda), Ends(x, p)
      PROVE  ~Enabled(Effective'[p])
  <2>1. ~Enabled(Effective[p])
    BY <1>1, <1>5 DEF Ended
  <2>2. Now.do \notin Bottom
    BY <1>1, <1>5, NothingUnderBottom DEF Ends, Nesting
  <2>3. desired' = desired
    BY <1>1, <2>2, PlansChange DEF Bottom
  <2>4. CASE rt'[p].caps = rt[p].caps
    BY <2>1, <2>3, <2>4, EffectiveStays
  <2>5. CASE Learns(p)
    <3>1. Now.do \in {"awaitStart", "reconcile"} /\ Now.of = p
      BY <2>2, <2>5 DEF Learns, Bottom
    <3>2. Now.do = "reconcile" /\ ~Enabled(rt[p].plan)
      BY <1>1, <1>5, <3>1 DEF Poised
    <3>3. QED
      BY <1>4, <2>1, <3>1, <3>2
  <2>6. QED
    BY <1>1, <1>2, <2>4, <2>5, CapsChange
<1>6. ASSUME NEW x \in Members(s), Ends(x, p)
      PROVE  ~Enabled(Effective'[p])
  <2>1. x.of = p /\ x.do \in {"apply", "settle", "cleanup"} /\ Begets(Now.of, x)
    BY <1>3, <1>6 DEF Ends
  <2>2. CASE x.do = "apply"
    <3>1. Now.do \in {"applyDesired", "sync"} /\ x.cfg = Effective[p] /\ x.cfg = {}
      BY <1>6, <2>1, <2>2 DEF Begets, Ends
    <3>2. Effective'[p] = Effective[p]
      BY <1>1, <1>2, <3>1, PlansChange, CapsChange, EffectiveStays DEF Learns
    <3>3. QED
      BY <3>1, <3>2 DEF Enabled
  <2>3. CASE x.do = "settle"
    <3>1. Now.do = "apply" /\ Now.of = p /\ x.cfg = Now.cfg /\ Now.cfg # NoPlan /\ ~Enabled(Now.cfg)
      BY <1>6, <2>1, <2>3 DEF Begets, Ends
    <3>2. Ends(Now, p)
      BY <3>1 DEF Ends, Enabled
    <3>3. ~Enabled(Effective[p])
      BY <1>1, <3>2 DEF Ended
    <3>4. Effective'[p] = Effective[p]
      BY <1>1, <1>2, <3>1, PlansChange, CapsChange, EffectiveStays DEF Learns
    <3>5. QED
      BY <3>3, <3>4
  <2>4. CASE x.do = "cleanup"
    <3>1. Now.do = "reconcile" /\ Now.of = p /\ x.flag
      BY <1>6, <2>1, <2>4 DEF Begets, Ends
    <3>2. ~Active(p)
      BY <1>1, <1>2, <1>3, <2>4, <3>1, CleanupIsUnwanted
    <3>3. ~Enabled(rt[p].plan)
      BY <1>1, <3>2 DEF Active
    <3>4. plan = Effective
      BY <3>1, PlanIsRight
    <3>5. ~Enabled(plan[p])
      BY <1>1, <3>1, <3>3 DEF Poised
    <3>6. ~Enabled(Effective[p])
      BY <3>4, <3>5
    <3>7. QED
      BY <1>4, <3>1, <3>3, <3>6
  <2>5. QED
    BY <2>1, <2>2, <2>3, <2>4
<1>7. QED
  BY <1>3, <1>5, <1>6 DEF Ended, Ends

LEMMA HostKeepsInformed ==
  ASSUME HInv, Host, Intent, ProbesInTime, ~shuttingDown, NEW p \in Providers,
         Informed(p), On => Applied(p)
  PROVE  Informed(p)'
<1>1. IInv /\ TypeOK /\ Fits(p) /\ Timely(Now) /\ own' = own /\ agenda # <<>>
  BY Stacking, HostHolds DEF HInv, PInv, IInv, Intent
<1>2. ~(call[p].pending /\ call[p].op = "Probe")
  BY <1>1 DEF Fits
<1>3. rt'[p].caps = rt[p].caps \/ Learns(p)
  BY <1>1, <1>2, CapsChange
<1>4. rt'[p].plan = IF Now.do = "apply" /\ Now.of = p /\ Now.cfg # NoPlan THEN Now.cfg ELSE rt[p].plan
  BY <1>1, PlansChange
<1>5. ASSUME rt'[p].caps = rt[p].caps, rt'[p].plan = rt[p].plan, Ages(call[p], call'[p]) \/ call'[p] = call[p]
      PROVE  Informed(p)'
  BY <1>1, <1>5 DEF Informed, Knows, Deaf, Ages
<1>6. ASSUME call'[p].op \notin Starts \union {"Sample"} \/ call'[p].stage \in {"idle", "dead"}
      PROVE  Informed(p)'
  BY <1>6 DEF Informed, Deaf
<1>7. CASE Now.of # p \/ Now.do \in Deciding
  <2>1. rt'[p] = rt[p] /\ call'[p] = call[p]
    BY <1>1, <1>7, NotConcerned
  <2>2. QED
    BY <1>5, <2>1
<1>8. CASE Now.of = p /\ Now.do \in {"renew", "probe"}
  <2>1. Ages(call[p], call'[p]) /\ rt' = rt
    BY <1>1, <1>8, TheStep, AgersTell
  <2>2. QED
    BY <1>5, <2>1
<1>9. CASE Now.of = p /\ Now.do = "apply"
  <2>1. Apply /\ rt'[p].caps = rt[p].caps
    BY <1>3, <1>9, HostDoes DEF Learns
  <2>2. CASE rt' = rt /\ call' = call
    BY <1>5, <2>2
  <2>3. CASE Ages(call[p], call'[p]) /\ rt'[p].plan = Now.cfg /\ rt[p].plan = Now.cfg
    BY <1>5, <2>1, <2>3
  <2>4. CASE Ages(call[p], call'[p]) /\ (call[p].pending /\ call[p].op # "Probe" => call'[p].stale)
    <3>1. Accounted(call[p], FALSE) /\ call[p] \in Calls
      BY <1>1, <1>9, NotAwaited DEF Waits, Doing, Now
    <3>2. call[p].stage \in {"idle", "dead"} \/ call[p].pending
      BY <3>1 DEF Accounted, Calls
    <3>3. call'[p].stage = call[p].stage /\ call'[p].op = call[p].op
      BY <2>4 DEF Ages
    <3>4. Deaf(p)'
      BY <2>4, <3>2, <3>3 DEF Deaf, Starts
    <3>5. QED
      BY <3>4 DEF Informed
  <2>5. QED
    BY <1>1, <1>9, <2>1, <2>2, <2>3, <2>4, AgersTell
<1>10. CASE Now.of = p /\ Now.do = "sendProbe"
  <2>1. SendProbe
    BY <1>10, TheStep
  <2>2. (rt' = rt /\ call' = call) \/ (rt' = rt /\ Sent(p, "Probe", NoPlan))
    BY <1>1, <1>10, <2>1, SendersTell
  <2>3. QED
    BY <1>5, <1>6, <2>2 DEF Sent, Starts
<1>11. CASE Now.of = p /\ Now.do = "attempt"
  <2>1. On
    BY <1>1, <1>11 DEF Timely, Driving, On
  <2>2. Knows(p) \/ Enabled(rt[p].plan)
    BY <1>1, <1>11, <2>1 DEF Applied, Doing, Now
  <2>3. rt'[p].caps = rt[p].caps /\ rt'[p].plan = rt[p].plan
    BY <1>3, <1>4, <1>11 DEF Learns
  <2>4. QED
    BY <1>1, <2>2, <2>3 DEF Informed, Knows
<1>12. CASE Now.of = p /\ Now.do = "sample"
  <2>1. SendSample
    BY <1>12, TheStep
  <2>2. (rt' = rt /\ call' = call) \/ Active(p)
    BY <1>1, <1>12, <2>1, SendersTell
  <2>3. rt'[p].plan = rt[p].plan
    BY <1>4, <1>12
  <2>4. QED
    BY <1>5, <2>2, <2>3 DEF Active, Informed
<1>13. CASE Now.of = p /\ Now.do = "stop"
  <2>1. Stop /\ rt'[p].caps = rt[p].caps /\ rt'[p].plan = rt[p].plan
    BY <1>3, <1>4, <1>13, TheStep DEF Learns
  <2>2. Ages(call[p], call'[p]) \/ call'[p] = call[p] \/ Sent(p, "Stop", NoPlan)
    BY <1>1, <1>13, <2>1, StopTells
  <2>3. QED
    BY <1>5, <1>6, <2>1, <2>2 DEF Sent, Starts
<1>14. CASE Now.of = p /\ Now.do \in Waits
  <2>1. Over(p) /\ Awaited(p)
    BY <1>1, <1>14, TheStep, AwaitStartTells, AwaitSampleTells, AwaitProbeTells, AwaitStopTells
       DEF Waits, Awaited, Now
  <2>2. CASE call'[p].op = "None" \/ call'[p].stage = "dead"
    BY <1>6, <2>2 DEF Starts
  <2>3. CASE /\ TimesOut(p) /\ call'[p].op = call[p].op /\ call'[p].stage = call[p].stage
             /\ call'[p].stale = call[p].stale
    <3>1. rt'[p].plan = rt[p].plan
      BY <1>4, <1>14 DEF Waits
    <3>2. CASE Now.do = "awaitProbe"
      <4>1. call[p].op = "Probe"
        BY <1>1, <2>1, <2>3, <3>2 DEF Fits, Expected, TimesOut
      <4>2. QED
        BY <1>6, <2>3, <4>1 DEF Starts
    <3>3. CASE Now.do # "awaitProbe"
      <4>1. rt'[p].caps = rt[p].caps
        BY <1>3, <1>14, <2>3, <3>3 DEF Learns, Waits, TimesOut, Answered
      <4>2. QED
        BY <1>1, <2>3, <3>1, <4>1 DEF Informed, Knows, Deaf
    <3>4. QED
      BY <3>2, <3>3
  <2>4. QED
    BY <2>1, <2>2, <2>3 DEF Over
<1>15. CASE Now.of = p /\ Now.do = "reconcile"
  <2>1. Reconcile
    BY <1>15, TheStep
  <2>2. \/ rt'[p] = rt[p] /\ call'[p] = call[p]
        \/ call'[p].stage = "dead"
        \/ call'[p].op = "None"
    BY <1>1, <1>15, <2>1, ReconcileTells
  <2>3. QED
    BY <1>5, <1>6, <2>2 DEF Starts
<1>16. Now.do \in Deciding \union Waits \union {"renew", "probe", "apply", "sendProbe", "attempt", "sample",
                                            "stop", "reconcile"}
  BY <1>1, Stacking DEF Steps, Deciding, Waits
<1>17. QED
  BY <1>7, <1>8, <1>9, <1>10, <1>11, <1>12, <1>13, <1>14, <1>15, <1>16

\* A late answer that leaves two steps brought news.
LEMMA NewsAreLearnt ==
  ASSUME IInv, Host, NEW p \in Providers, p = Now.of, Now.do = "reconcile",
         ~(call[p].pending /\ call[p].op = "Probe"), NEW s \in Seq(Steps), Then(s), Len(s) = 2
  PROVE  rt'[p].caps = own[p]
<1>1. Reconcile /\ agenda \in Seq(Steps) /\ agenda # <<>> /\ TypeOK
  BY TheStep, Stacking DEF IInv, CallsInOrder, Stacks
<1> DEFINE x == CleanupStep(p, TRUE)
<1>2. x \in Steps
  BY SmallSteps, NoPlanIsAPlan DEF CleanupStep
<1> HIDE DEF x
<1>3. <<>> \in Seq(Steps) /\ Len(<<>>) = 0
  OBVIOUS
<1>4. <<x>> \in Seq(Steps) /\ Len(<<x>>) = 1
  BY <1>2
<1>5. ~Then(<<>>)
  <2> SUFFICES ASSUME Then(<<>>)
               PROVE  FALSE
    OBVIOUS
  <2>1. Len(s) = Len(<<>>)
    BY <1>1, <1>3, SameLength
  <2>2. QED
    BY <1>3, <2>1
<1>8. ~Then(<<x>>)
  <2> SUFFICES ASSUME Then(<<x>>)
               PROVE  FALSE
    OBVIOUS
  <2>1. Len(s) = Len(<<x>>)
    BY <1>1, <1>4, SameLength
  <2>2. QED
    BY <1>4, <2>1
<1>6. /\ Busy(p) /\ call[p].op \in Operations /\ rt'[p] = LateAnswer(p).rt /\ LateAnswer(p).news
  BY <1>1, <1>5, <1>8, ReconcileTells DEF x
<1>7. QED
  BY <1>1, <1>6, LateAnswerKeepsPlan DEF Busy, Operations

\* What is pushed over the application of a plan is short, or brings news.
LEMMA PushedOverSettle ==
  ASSUME IInv, Host, NEW p \in Providers, p = Now.of, Now.do \in OverSettle,
         ~(call[p].pending /\ call[p].op = "Probe"),
         NEW s \in Seq(Steps), Then(s), Pushes(p, s)
  PROVE  \/ s = <<>>
         \/ \E y \in Steps : s = <<y>> /\ y.of = p /\ y.do \in OverSettle
         \/ rt'[p].caps = own[p]
<1>1. CASE Now.do = "reconcile"
  <2>1. \/ s = <<>>
        \/ s = <<CleanupStep(p, TRUE)>>
        \/ \E flag \in BOOLEAN : s = <<SyncStep, CleanupStep(p, flag)>>
    BY <1>1, Zenon DEF Pushes, CleanupStep
  <2>2. CASE s = <<CleanupStep(p, TRUE)>>
    <3>1. CleanupStep(p, TRUE) \in Steps
      BY SmallSteps, NoPlanIsAPlan DEF CleanupStep
    <3>2. CleanupStep(p, TRUE).of = p /\ CleanupStep(p, TRUE).do = "cleanup"
      BY DEF CleanupStep, StepWith
    <3>3. QED
      BY <2>2, <3>1, <3>2 DEF OverSettle
  <2>3. CASE \E flag \in BOOLEAN : s = <<SyncStep, CleanupStep(p, flag)>>
    <3>1. Len(s) = 2
      BY <2>3
    <3>2. QED
      BY <1>1, <3>1, NewsAreLearnt
  <2>4. QED
    BY <2>1, <2>2, <2>3
<1>2. CASE Now.do = "cleanup"
  <2>1. s = <<>> \/ s = <<StopStep(p, "cleanup", NoPlan)>>
    BY <1>2, Zenon DEF Pushes
  <2>2. StopStep(p, "cleanup", NoPlan).of = p /\ StopStep(p, "cleanup", NoPlan).do = "stop"
    BY DEF StopStep, StepWith
  <2>3. "cleanup" \in Whys
    BY DEF Whys
  <2>4. StopStep(p, "cleanup", NoPlan) \in Steps
    BY <2>3, SmallSteps, NoPlanIsAPlan
  <2>5. QED
    BY <2>1, <2>2, <2>4 DEF OverSettle
<1>3. CASE Now.do = "stop"
  <2>1. s = <<>> \/ s = <<StepWith("awaitStop", p, Now.cfg, Now.tag, FALSE)>>
    BY <1>3, Zenon DEF Pushes
  <2>2. Now.cfg \in Plans /\ Now.tag \in Whys
    BY <1>3, Concerned
  <2> DEFINE y == StepWith("awaitStop", p, Now.cfg, Now.tag, FALSE)
  <2>3. y \in Steps /\ y.of = p /\ y.do = "awaitStop"
    BY <2>2, SmallSteps DEF StepWith
  <2> HIDE DEF y
  <2>4. s = <<>> \/ s = <<y>>
    BY <2>1 DEF y
  <2>5. QED
    BY <2>3, <2>4 DEF OverSettle
<1>4. CASE Now.do = "awaitStop"
  BY <1>4, Zenon DEF Pushes
<1>5. QED
  BY <1>1, <1>2, <1>3, <1>4 DEF OverSettle

LEMMA HostKeepsApplied ==
  ASSUME HInv, Host, Intent, ProbesInTime, On, Layered, NEW p \in Providers, Applied(p)
  PROVE  Applied(p)'
<1>1. /\ IInv /\ TypeOK /\ ~shuttingDown /\ ~paused /\ Fits(p) /\ agenda # <<>>
      /\ Members(agenda) = {Now} \union Under(agenda) /\ agenda \in Seq(Steps)
  BY Stacking DEF HInv, PInv, IInv, On, Intent, CallsInOrder, Stacks
<1>2. ~(call[p].pending /\ call[p].op = "Probe")
  BY <1>1 DEF Fits
<1>3. PICK s \in Seq(Steps) :
           /\ Then(s) /\ Pushes(Now.of, s)
           /\ Members(agenda') = Members(s) \union Under(agenda)
           /\ \A x \in Members(s) : Begets(Now.of, x)
           /\ s # <<>> => /\ agenda' # <<>> /\ Head(agenda') = Head(s)
                          /\ Under(agenda') = Under(s) \union Under(agenda)
           /\ s = <<>> => Under(agenda') \subseteq Under(agenda)
  BY <1>1, Stacking
<1>4. Knows(p) => Knows(p)' \/ (Now.do = "awaitProbe" /\ Now.of = p)
  BY <1>1, <1>2, KnowsStays
<1>5. ASSUME NEW x \in Members(s), x.do = "settle", x.of = p
      PROVE  Now.do = "apply" /\ x.cfg = rt'[p].plan /\ Now.of = p
  BY <1>1, <1>3, <1>5, PlansChange DEF Begets
<1>6. ASSUME NEW x \in Under(agenda), x.do = "settle", x.of = p, ~Knows(p)'
      PROVE  /\ Now.do \in OverSettle /\ x.cfg = rt'[p].plan /\ x \notin Deep(agenda)
             /\ s = <<>> \/ \E y \in Steps : s = <<y>> /\ y.of = p /\ y.do \in OverSettle
  <2>1. Now.do \notin Bottom
    BY <1>1, <1>6, NothingUnderBottom DEF Nesting
  <2>2. ~Knows(p)
    BY <1>4, <1>6, <2>1 DEF Bottom
  <2>3. Now.of = p /\ Now.do \in OverSettle
    BY <1>6, <2>2 DEF Applied
  <2>4. x.cfg = rt[p].plan /\ x \notin Deep(agenda)
    BY <1>1, <1>6, <2>2 DEF Applied
  <2>5. x.cfg = rt'[p].plan
    BY <1>1, <2>3, <2>4, PlansChange DEF OverSettle
  <2>6. rt'[p].caps # own[p]
    BY <1>6, HostHolds DEF Knows
  <2>7. s = <<>> \/ \E y \in Steps : s = <<y>> /\ y.of = p /\ y.do \in OverSettle
    BY <1>1, <1>2, <1>3, <2>3, <2>6, PushedOverSettle
  <2>8. QED
    BY <2>3, <2>4, <2>5, <2>7
<1>7. ASSUME NEW x \in Under(agenda'), x.do = "settle", x.of = p, ~Knows(p)'
      PROVE  /\ agenda' # <<>> /\ Head(agenda').of = p /\ Head(agenda').do \in OverSettle
             /\ x \notin Deep(agenda')
  <2>1. CASE s = <<>>
    <3>1. x \in Deep(agenda) /\ x \in Under(agenda)
      BY <1>1, <1>3, <1>7, <2>1, DeepStack
    <3>2. QED
      BY <1>6, <1>7, <3>1
  <2>2. CASE s # <<>> /\ x \in Under(agenda)
    <3>1. x \notin Deep(agenda) /\ \E y \in Steps : s = <<y>> /\ y.of = p /\ y.do \in OverSettle
      BY <1>6, <1>7, <2>2
    <3>2. PICK y \in Steps : s = <<y>> /\ y.of = p /\ y.do \in OverSettle
      BY <3>1
    <3>3. Len(s) = 1 /\ Head(s) = y
      BY <3>2
    <3>4. Deep(agenda') \subseteq Deep(agenda)
      BY <1>1, <1>3, <3>3, DeepStack
    <3>5. QED
      BY <1>3, <2>2, <3>1, <3>2, <3>3, <3>4
  <2>3. CASE s # <<>> /\ x \notin Under(agenda)
    <3>1. x \in Under(s) /\ x \in Members(s)
      BY <1>3, <1>7, <2>3, MembersOf
    <3>2. Now.do = "apply" /\ Now.of = p
      BY <1>5, <1>7, <3>1
    <3>3. \E y : s = <<Step("reconcile", p), y>>
      BY <1>3, <2>3, <3>2, Zenon DEF Pushes
    <3>4. Len(s) = 2 /\ Head(s) = Step("reconcile", p)
      BY <3>3
    <3>5. Step("reconcile", p).of = p /\ Step("reconcile", p).do = "reconcile"
      BY DEF Step, StepWith
    <3>6. x \notin Deep(agenda')
      BY <1>1, <1>3, <2>3, <3>4, DeepStack
    <3>7. QED
      BY <1>3, <2>3, <3>4, <3>5, <3>6 DEF OverSettle
  <2>4. QED
    BY <2>1, <2>2, <2>3
<1>8. ASSUME NEW x \in Members(agenda'), x.do = "settle", x.of = p
      PROVE  Knows(p)' \/ x.cfg = rt'[p].plan
  BY <1>3, <1>5, <1>6, <1>8
<1>9. ASSUME Doing("attempt")', Now'.of = p
      PROVE  Knows(p)' \/ Enabled(rt'[p].plan)
  <2>1. Begets(Now.of, Head(agenda')) /\ Head(agenda').do = "attempt" /\ Head(agenda').of = p
    BY <1>1, <1>9, NewHead DEF Doing, Now
  <2>2. Now.of = p /\ Now.do \in {"settle", "retry"}
    BY <2>1 DEF Begets
  <2>3. rt'[p].plan = rt[p].plan /\ (Knows(p) => Knows(p)')
    BY <1>1, <1>4, <2>2, PlansChange
  <2>4. CASE Now.do = "retry"
    BY <2>1, <2>3, <2>4, <2>2 DEF Begets, Active
  <2>5. CASE Now.do = "settle"
    <3>1. Enabled(Now.cfg)
      BY <2>1, <2>5 DEF Begets
    <3>2. Knows(p) \/ Now.cfg = rt[p].plan
      BY <1>1, <2>2, <2>5 DEF Applied
    <3>3. QED
      BY <2>3, <3>1, <3>2
  <2>6. QED
    BY <2>2, <2>4, <2>5
<1>10. Deep(agenda') \subseteq Under(agenda')
  BY <1>1, <1>3, DeepStack
<1>11. QED
  BY <1>7, <1>8, <1>9, <1>10 DEF Applied, Doing, Now

-----------------------------------------------------------------------------
(* What is wanted reaches the provider, and the provider is driven to it.  *)

Carried(p) ==
  Enabled(plan[p]) =>
    \/ Enabled(rt[p].plan)
    \/ \E x \in Members(agenda) : x.of = p /\ x.do = "apply" /\ Enabled(x.cfg)

Cared(p) ==
  Enabled(plan[p]) =>
    \/ rt[p].started \/ rt[p].retry # "None" \/ call[p].pending \/ Saved(p)
    \/ agenda # <<>> /\ Now.do \in {"attempt", "awaitStart"} /\ Now.of = p
    \/ Doing("sync") /\ ~Enabled(Effective[p])

\* A changed plan is applied to every provider.
LEMMA EachIsApplied ==
  ASSUME NEW next, NEW force \in BOOLEAN, NEW p \in Providers, next \in [Providers -> Plans],
         force \/ next # plan
  PROVE  ApplyStep(p, next[p], force) \in Members(ApplyLoop(next, force))
<1> DEFINE step == [q \in Providers |-> ApplyStep(q, next[q], force)]
           k == Cardinality(Providers)
           At(i) == <<step[Order[((i - 1) \div 1) + 1]]>>[((i - 1) % 1) + 1]
<1>0. ForEach(1, LAMBDA q : <<ApplyStep(q, next[q], force)>>)
        = [i \in 1 .. 1 * Cardinality(Providers) |->
            <<step[Order[((i - 1) \div 1) + 1]]>>[((i - 1) % 1) + 1]]
  BY RoundsAreOfProviders DEF ForEach
<1>1. ApplyLoop(next, force) = [i \in 1 .. 1 * Cardinality(Providers) |->
            <<step[Order[((i - 1) \div 1) + 1]]>>[((i - 1) % 1) + 1]]
  BY <1>0 DEF ApplyLoop
<1>2. step[p] = ApplyStep(p, next[p], force)
  OBVIOUS
<1> HIDE DEF step
<1>3. PICK j \in 1 .. k : Order[j] = p
  BY OrderIsOnto
<1>4. k \in Nat
  BY OrderIsTyped
<1> HIDE DEF k
<1>5. ((j - 1) \div 1) + 1 = j /\ ((j - 1) % 1) + 1 = 1
  BY <1>3, <1>4
<1>6. At(j) = step[p]
  BY <1>3, <1>5
<1>7. ApplyLoop(next, force) = [i \in 1 .. 1 * k |-> At(i)]
  BY <1>1 DEF k
<1> HIDE DEF At
<1>8. j \in 1 .. 1 * k /\ 1 * k \in Nat
  BY <1>3, <1>4
<1>9. Len(ApplyLoop(next, force)) = 1 * k /\ ApplyLoop(next, force)[j] = At(j)
  BY <1>7, <1>8
<1>10. QED
  BY <1>2, <1>6, <1>8, <1>9 DEF Members

\* Once the plan has been looked at again, it is applied or it was right.
LEMMA Resynced ==
  ASSUME IInv, Host, On, Now.do \in {"applyDesired", "sync"}, NEW p \in Providers
  PROVE  \/ plan' = plan /\ plan = Effective
         \/ \E x \in Members(agenda') : x.of = p /\ x.do = "apply" /\ x.cfg = plan'[p]
<1>1. plan' = Effective /\ TypeOK /\ Effective \in [Providers -> Plans]
  BY PlansChange, EffectiveIsAPlan DEF On, IInv
<1>2. CASE Effective # plan
  <2>1. Then(ApplyLoop(Effective, FALSE))
    BY <1>2, HostDoes DEF On, ApplyDesired, Sync
  <2>2. ApplyLoop(Effective, FALSE) \in Seq(Plain)
    BY <1>1, ApplyLoopIsPlain
  <2>3. ApplyLoop(Effective, FALSE) \in Seq(Steps) /\ agenda # <<>>
    <3>1. Plain \subseteq Steps
      BY DEF Plain
    <3>2. QED
      BY <2>2, <3>1, Stacking, SeqMonotonic
  <2>4. Members(ApplyLoop(Effective, FALSE)) \subseteq Members(agenda')
    BY <2>1, <2>3, NewStack
  <2>5. ApplyStep(p, Effective[p], FALSE) \in Members(agenda')
    BY <1>1, <1>2, <2>4, EachIsApplied
  <2> DEFINE x == ApplyStep(p, Effective[p], FALSE)
  <2>6. x.of = p /\ x.do = "apply" /\ x.cfg = Effective[p]
    BY DEF ApplyStep, StepWith
  <2> HIDE DEF x
  <2>7. x \in Members(agenda')
    BY <2>5 DEF x
  <2>8. QED
    BY <1>1, <2>6, <2>7
<1>3. QED
  BY <1>1, <1>2

LEMMA HostCarries ==
  ASSUME HInv, Host, Intent, ProbesInTime, On, NEW p \in Providers, Carried(p), Ended(p)
  PROVE  Carried(p)'
<1>1. /\ IInv /\ TypeOK /\ ~shuttingDown /\ Members(agenda) = {Now} \union Under(agenda)
      /\ Under(agenda) \subseteq Members(agenda')
  BY Stacking DEF HInv, PInv, IInv, On
<1>2. ASSUME plan'[p] = plan[p], rt'[p].plan = rt[p].plan,
             ~(Now.of = p /\ Now.do = "apply" /\ Enabled(Now.cfg))
      PROVE  Carried(p)'
  BY <1>1, <1>2 DEF Carried
<1>3. CASE Now.do \in {"applyDesired", "sync"}
  <2>1. rt'[p].plan = rt[p].plan
    BY <1>1, <1>3, PlansChange
  <2>2. QED
    BY <1>1, <1>2, <1>3, <2>1, Resynced DEF Carried
<1>4. CASE Now.do = "apply" /\ Now.of = p /\ Now.cfg # NoPlan
  <2>1. plan' = plan /\ rt'[p].plan = Now.cfg /\ plan = Effective
    BY <1>1, <1>4, PlansChange, PlanIsRight
  <2>2. CASE Now.cfg = {}
    <3>1. ~Enabled(Effective[p])
      BY <1>1, <1>4, <2>2 DEF Ended, Ends
    <3>2. QED
      BY <2>1, <3>1 DEF Carried
  <2>3. CASE Now.cfg # {}
    BY <1>4, <2>1, <2>3 DEF Carried, Enabled
  <2>4. QED
    BY <2>2, <2>3
<1>5. CASE Now.do \notin {"applyDesired", "sync"} /\ ~(Now.do = "apply" /\ Now.of = p /\ Now.cfg # NoPlan)
  BY <1>1, <1>2, <1>5, PlansChange DEF Enabled
<1>6. QED
  BY <1>3, <1>4, <1>5

\* Which steps of the host make it look at late answers.
LEMMA PolledBy ==
  ASSUME IInv, Host, NEW s \in Seq(Steps), Pushes(Now.of, s), NEW x \in Members(s),
         x.do = "reconcile"
  PROVE  Now.do \in {"probe", "apply"} \/ (Now.do = "applyDesired" /\ Effective = plan)
<1> DEFINE p == Now.of
<1>1. s # <<>> /\ TypeOK
  BY MembersOf DEF IInv
<1>2. CASE Now.do \in {"applyDesired", "sync"}
  <2>1. s = ApplyLoop(Effective, FALSE) /\ (Now.do = "sync" => Effective # plan)
    BY <1>1, <1>2, Zenon DEF Pushes
  <2>2. Effective = plan
    BY <1>1, <2>1, ChangedPlansAreApplied
  <2>3. QED
    BY <1>2, <2>1, <2>2
<1>5. CASE Now.do = "settle"
  <2>1. \/ s = <<StopStep(p, "apply", Now.cfg)>>
        \/ \E action \in {"Start", "Reconfigure"} :
             s = <<AttemptStep(p, Now.cfg, action), SyncStep, Step("shed", p)>>
    BY <1>1, <1>5, Zenon DEF Pushes
  <2>2. \/ x = StopStep(p, "apply", Now.cfg)
        \/ \E action \in {"Start", "Reconfigure"} : x = AttemptStep(p, Now.cfg, action)
        \/ x = SyncStep \/ x = Step("shed", p)
    <3>1. CASE s = <<StopStep(p, "apply", Now.cfg)>>
      BY <3>1, MemberOfOne
    <3>2. ASSUME NEW action \in {"Start", "Reconfigure"},
                 s = <<AttemptStep(p, Now.cfg, action), SyncStep, Step("shed", p)>>
          PROVE  x = AttemptStep(p, Now.cfg, action) \/ x = SyncStep \/ x = Step("shed", p)
      BY <3>2, MemberOfThree
    <3>3. QED
      BY <2>1, <3>1, <3>2
  <2>3. /\ StopStep(p, "apply", Now.cfg).do = "stop" /\ SyncStep.do = "sync"
        /\ Step("shed", p).do = "shed"
        /\ \A action : AttemptStep(p, Now.cfg, action).do = "attempt"
    BY DEF StopStep, AttemptStep, SyncStep, Step, StepWith
  <2> HIDE DEF p
  <2>4. QED
    BY <2>2, <2>3
<1>6. CASE Now.do = "retry"
  <2>1. s = <<AttemptStep(p, rt[p].plan, rt[p].retry), SyncStep>>
    BY <1>1, <1>6, Zenon DEF Pushes
  <2>2. x = AttemptStep(p, rt[p].plan, rt[p].retry) \/ x = SyncStep
    BY <2>1, MemberOfTwo
  <2>3. /\ AttemptStep(p, rt[p].plan, rt[p].retry).do = "attempt" /\ SyncStep.do = "sync"
    BY DEF AttemptStep, SyncStep, Step, StepWith
  <2> HIDE DEF p
  <2>4. QED
    BY <2>2, <2>3
<1>7. CASE Now.do = "reconcile"
  <2>1. \E flag \in BOOLEAN : \/ s = <<StepWith("cleanup", p, NoPlan, "", flag)>>
                              \/ s = <<SyncStep, StepWith("cleanup", p, NoPlan, "", flag)>>
    BY <1>1, <1>7, Zenon DEF Pushes
  <2>2. x = SyncStep \/ \E flag \in BOOLEAN : x = StepWith("cleanup", p, NoPlan, "", flag)
    <3>1. ASSUME NEW flag \in BOOLEAN,
                 \/ s = <<StepWith("cleanup", p, NoPlan, "", flag)>>
                 \/ s = <<SyncStep, StepWith("cleanup", p, NoPlan, "", flag)>>
          PROVE  x = SyncStep \/ x = StepWith("cleanup", p, NoPlan, "", flag)
      BY <3>1, MemberOfOne, MemberOfTwo
    <3>2. QED
      BY <2>1, <3>1
  <2>3. /\ SyncStep.do = "sync"
        /\ \A flag : StepWith("cleanup", p, NoPlan, "", flag).do = "cleanup"
    BY DEF SyncStep, Step, StepWith
  <2> HIDE DEF p
  <2>4. QED
    BY <2>2, <2>3
<1>8. CASE Now.do \notin {"applyDesired", "sync", "settle", "retry", "reconcile", "probe", "apply"}
  <2>1. \/ s = <<StopStep(p, "shed", NoPlan)>> \/ s = <<StopStep(p, "cleanup", NoPlan)>>
        \/ s = <<Step("awaitProbe", p)>> \/ s = <<Step("awaitSample", p)>> \/ s = <<SyncStep>>
        \/ s = <<StepWith("awaitStart", p, NoPlan, Now.tag, FALSE)>>
        \/ s = <<StepWith("awaitStop", p, Now.cfg, Now.tag, FALSE)>>
    BY <1>1, <1>8, Zenon DEF Pushes
  <2>2. \/ x = StopStep(p, "shed", NoPlan) \/ x = StopStep(p, "cleanup", NoPlan)
        \/ x = Step("awaitProbe", p) \/ x = Step("awaitSample", p) \/ x = SyncStep
        \/ x = StepWith("awaitStart", p, NoPlan, Now.tag, FALSE)
        \/ x = StepWith("awaitStop", p, Now.cfg, Now.tag, FALSE)
    BY <2>1, MemberOfOne, Zenon
  <2>3. /\ StopStep(p, "shed", NoPlan).do = "stop" /\ StopStep(p, "cleanup", NoPlan).do = "stop"
        /\ Step("awaitProbe", p).do = "awaitProbe" /\ Step("awaitSample", p).do = "awaitSample"
        /\ SyncStep.do = "sync"
        /\ StepWith("awaitStart", p, NoPlan, Now.tag, FALSE).do = "awaitStart"
        /\ StepWith("awaitStop", p, Now.cfg, Now.tag, FALSE).do = "awaitStop"
    BY DEF StopStep, SyncStep, Step, StepWith
  <2> HIDE DEF p
  <2>4. QED
    BY <2>2, <2>3
<1>9. QED
  BY <1>2, <1>5, <1>6, <1>7, <1>8

\* A late answer is looked at with the plan in place, or with nothing but an
\* application below that is going to put it there.
LEMMA ReconcilesPoised ==
  ASSUME HInv, Host, On, Layered, NEW p \in Providers, Ended(p), Carried(p)',
         agenda' # <<>>, Head(agenda').do = "reconcile", Head(agenda').of = p
  PROVE  /\ Enabled(plan'[p]) => Enabled(rt'[p].plan)
         /\ \A y \in Under(agenda') : Ends(y, p) => ~Enabled(rt'[p].plan)
<1> DEFINE h == Head(agenda')
<1>1. /\ IInv /\ TypeOK /\ ~shuttingDown /\ ~paused /\ agenda # <<>>
      /\ Members(agenda) = {Now} \union Under(agenda)
  BY Stacking DEF HInv, PInv, IInv, On
<1>2. PICK s \in Seq(Steps) :
           /\ Then(s) /\ Pushes(Now.of, s)
           /\ \A x \in Members(s) : Begets(Now.of, x)
           /\ s # <<>> => /\ h = Head(s) /\ Head(s) \in Members(s)
                          /\ Under(agenda') = Under(s) \union Under(agenda)
  BY <1>1, Stacking
<1>3. agenda \in Seq(Steps) /\ agenda' \in Seq(Steps) /\ Members(agenda') = {h} \union Under(agenda')
  BY <1>1, <1>2, NewStack, MembersOf
<1>4. ASSUME \A y \in Under(agenda') : y.do \notin Nesting
      PROVE  /\ Enabled(plan'[p]) => Enabled(rt'[p].plan)
             /\ \A y \in Under(agenda') : Ends(y, p) => ~Enabled(rt'[p].plan)
  BY <1>3, <1>4 DEF Carried, Ends, Nesting
<1>5. CASE s = <<>>
  <2>1. \A y \in Under(agenda') : Beneath(h, y, agenda)
    BY <1>1, <1>2, <1>3, <1>5, PoppedIsBeneath DEF Then
  <2>2. QED
    BY <1>4, <2>1 DEF Layered
<1>6. CASE s # <<>> /\ Now.do = "apply"
  <2> DEFINE v == StepWith("settle", Now.of, Now.cfg, "", rt[Now.of].plan # Now.cfg)
             u == Step("reconcile", Now.of)
  <2>1. Now.cfg # NoPlan /\ s = <<u, v>>
    BY <1>2, <1>6, Zenon DEF Pushes
  <2>2. v.cfg = Now.cfg /\ v.do = "settle" /\ u.of = Now.of
    BY MadeSteps DEF StepWith
  <2> HIDE DEF u, v
  <2>3. Now.of = p
    <3>1. h = u
      BY <1>2, <1>6, <2>1
    <3>2. QED
      BY <2>2, <3>1
  <2>4. rt'[p].plan = Now.cfg /\ plan' = plan /\ plan = Effective
    BY <1>1, <1>6, <2>1, <2>3, PlansChange, PlanIsRight
  <2>5. ASSUME ~Enabled(Now.cfg)
        PROVE  ~Enabled(plan'[p])
    <3>1. Ends(Now, p)
      BY <1>6, <2>1, <2>3, <2>5 DEF Ends, Enabled
    <3>2. QED
      BY <1>1, <2>4, <3>1 DEF Ended
  <2>6. ASSUME NEW y \in Under(agenda'), Ends(y, p)
        PROVE  ~Enabled(Now.cfg)
    <3>1. CASE y \in Under(s)
      BY <2>1, <2>2, <2>6, <3>1, UnderOfTwo DEF Ends
    <3>2. CASE y \in Under(agenda)
      <4>1. Above(Now, y, agenda)
        BY <1>1, <1>3, <3>2, HeadIsAbove DEF Now
      <4>2. QED
        BY <1>6, <2>3, <2>6, <4>1 DEF Layered
    <3>3. QED
      BY <1>2, <1>6, <2>6, <3>1, <3>2
  <2>7. QED
    BY <2>4, <2>5, <2>6
<1>7. CASE s # <<>> /\ Now.do # "apply"
  <2>1. Now.do = "probe" \/ (Now.do = "applyDesired" /\ Effective = plan)
    BY <1>1, <1>2, <1>7, PolledBy
  <2>2. ASSUME NEW y \in Under(agenda), y.do \in Nesting
        PROVE  FALSE
    BY <1>1, <2>1, <2>2, NothingUnderBottom DEF Bottom
  <2>3. ASSUME NEW y \in Members(s), y.do \in Nesting
        PROVE  FALSE
    <3>1. y.do = "apply" /\ Now.do = "applyDesired"
      BY <1>2, <2>1, <2>3 DEF Begets, Nesting
    <3>2. s = ApplyLoop(Effective, FALSE)
      BY <1>2, <1>7, <3>1, Zenon DEF Pushes
    <3>3. QED
      BY <2>1, <2>3, <3>1, <3>2, UnchangedPlansArePolled
  <2>4. Under(s) \subseteq Members(s)
    BY MembersOf
  <2>5. QED
    BY <1>2, <1>4, <1>7, <2>2, <2>3, <2>4
<1>8. QED
  BY <1>5, <1>6, <1>7

\* Nothing below an attempt to start is going to end what it starts.
LEMMA AttemptsPoised ==
  ASSUME HInv, Host, On, Layered, NEW p \in Providers, Poised(p),
         agenda' # <<>>, Head(agenda').do \in {"attempt", "awaitStart"}, Head(agenda').of = p,
         NEW y \in Under(agenda')
  PROVE  ~Ends(y, p)
<1> DEFINE h == Head(agenda')
<1>1. /\ IInv /\ agenda # <<>> /\ Members(agenda) = {Now} \union Under(agenda)
  BY Stacking DEF HInv, PInv
<1>2. PICK s \in Seq(Steps) :
           /\ Then(s)
           /\ \A x \in Members(s) : Begets(Now.of, x)
           /\ s # <<>> => Under(agenda') = Under(s) \union Under(agenda)
           /\ s = <<>> => Under(agenda') \subseteq Under(agenda)
  BY <1>1, Stacking
<1>3. agenda \in Seq(Steps) /\ (y \in Members(s) \/ y \in Under(agenda))
  BY <1>1, <1>2, NewStack, MembersOf
<1>4. Begets(Now.of, h) /\ h.do \in {"attempt", "awaitStart"} /\ h.of = p
  BY <1>1, NewHead DEF Waits
<1>5. Now.of = p
  BY <1>4 DEF Begets
<1>6. \/ Now.do = "settle" /\ Enabled(Now.cfg)
      \/ Now.do = "retry"
      \/ Now.do = "attempt"
  BY <1>4 DEF Begets
<1>7. CASE y \in Members(s)
  BY <1>2, <1>6, <1>7 DEF Begets, Ends
<1>8. CASE y \in Under(agenda) /\ Ends(y, p)
  <2>1. CASE Now.do = "attempt"
    BY <1>1, <1>5, <1>8, <2>1 DEF Poised
  <2>2. CASE Now.do = "retry"
    BY <1>1, <1>8, <2>2, NothingUnderBottom DEF Bottom, Ends, Nesting
  <2>3. CASE Now.do = "settle" /\ Enabled(Now.cfg)
    <3>1. Above(Now, y, agenda)
      BY <1>1, <1>3, <1>8, HeadIsAbove DEF Now
    <3>2. QED
      BY <1>5, <1>8, <2>3, <3>1 DEF Layered
  <2>4. QED
    BY <1>6, <2>1, <2>2, <2>3
<1>9. QED
  BY <1>3, <1>7, <1>8

\* A stop of what is wanted is only the first half of a new start.
LEMMA StopsPoised ==
  ASSUME HInv, Host, On, Layered, NEW p \in Providers, Ended(p), Poised(p), Carried(p),
         agenda' # <<>>, Head(agenda').do \in {"stop", "awaitStop"}, Head(agenda').of = p,
         Enabled(plan'[p])
  PROVE  Saved(p)'
<1> DEFINE h == Head(agenda')
<1>1. /\ IInv /\ ~shuttingDown /\ ~paused /\ agenda # <<>>
      /\ Members(agenda) = {Now} \union Under(agenda) /\ Under(agenda) \subseteq Members(agenda')
  BY Stacking DEF HInv, PInv, On
<1>2. ASSUME NEW x \in Under(agenda), x.of = p, x.do \in {"apply", "settle"}, Enabled(x.cfg)
      PROVE  Saved(p)'
  BY <1>1, <1>2 DEF Saved
<1>3. CASE h.do = "awaitStop"
  <2>1. Now.do = "stop" /\ Now.of = p
    BY <1>1, <1>3, NewHead DEF Waits, Begets
  <2>2. plan' = plan
    BY <1>1, <2>1, PlansChange
  <2>3. Saved(p)
    BY <1>1, <2>1, <2>2 DEF Poised
  <2>4. QED
    BY <1>1, <1>2, <2>1, <2>3 DEF Saved
<1>4. CASE h.do = "stop"
  <2>1. Begets(Now.of, h)
    BY <1>1, <1>4, Stacking DEF Layered
  <2>2. /\ Now.of = p /\ Now.do \in {"settle", "shed", "cleanup"}
        /\ Now.do = "settle" => ~Enabled(Now.cfg)
        /\ Now.do = "shed" => ~Enabled(rt[p].plan)
        /\ Now.do = "cleanup" => Now.flag \/ ~Active(p)
    BY <1>1, <1>4, <2>1 DEF Begets
  <2>3. plan' = plan /\ plan = Effective
    BY <1>1, <2>2, PlansChange, PlanIsRight
  <2>4. ~Ends(Now, p)
    BY <1>1, <2>3 DEF Ended
  <2>5. ~Enabled(rt[p].plan)
    BY <1>1, <2>2, <2>4 DEF Ends, Active
  <2>6. QED
    BY <1>1, <1>2, <2>2, <2>3, <2>5 DEF Carried
<1>5. QED
  BY <1>3, <1>4

LEMMA HostPoises ==
  ASSUME HInv, Host, On, Layered, NEW p \in Providers,
         Ended(p), Poised(p), Carried(p), Carried(p)'
  PROVE  Poised(p)'
<1>1. ASSUME agenda' # <<>>, Now'.of = p
      PROVE  /\ Now'.do = "reconcile" =>
                  /\ Enabled(plan'[p]) => Enabled(rt'[p].plan)
                  /\ (\E y \in Under(agenda') : Ends(y, p)) => ~Enabled(rt'[p].plan)
             /\ Now'.do \in {"attempt", "awaitStart"} => \A y \in Under(agenda') : ~Ends(y, p)
             /\ Now'.do \in {"stop", "awaitStop"} /\ Enabled(plan'[p]) => Saved(p)'
  BY <1>1, ReconcilesPoised, AttemptsPoised, StopsPoised DEF Now
<1>2. QED
  BY <1>1 DEF Poised, Ends

\* A late answer to a provider that is wanted finds it running or schedules a retry.
LEMMA LateAnswersRescue ==
  ASSUME TypeOK, NEW p \in Providers, call[p].op \in Operations \ {"Probe"}, Active(p),
         call[p].op = "Sample" => rt[p].started
  PROVE  LateAnswer(p).rt.started \/ LateAnswer(p).rt.retry # "None"
<1> DEFINE o == LateAnswer(p)
<1>1. CASE call[p].op = "Sample"
  <2>1. o = LateSample(p)
    BY <1>1 DEF LateAnswer
  <2> HIDE DEF o
  <2>2. \/ call[p].stale /\ o.rt = rt[p]
        \/ Stands(o.rt, rt[p].started, "Running", rt[p].retry)
        \/ Stands(o.rt, rt[p].started, rt[p].lifecycle, rt[p].retry)
        \/ Stands(o.rt, rt[p].started /\ call[p].result # "lost", "Failed",
                  IF call[p].result = "lost" THEN "Reconfigure" ELSE rt[p].retry)
    BY <2>1, LateSampleStands, Zenon
  <2>3. o.rt.started \/ o.rt.retry # "None"
    BY <1>1, <2>2 DEF Stands
  <2>4. QED
    BY <2>3 DEF o
<1>2. CASE call[p].op \in Starts
  <2>1. o = LateStart(p)
    BY <1>2 DEF LateAnswer, Starts
  <2> HIDE DEF o
  <2>2. QED
    BY <1>2, <2>1, LateStartStands DEF Starts, o
<1>3. CASE call[p].op = "Stop"
  <2>1. o = LateStop(p)
    BY <1>3 DEF LateAnswer
  <2> HIDE DEF o
  <2>2. QED
    BY <2>1, LateStopStands DEF o
<1>4. QED
  BY <1>1, <1>2, <1>3 DEF Operations, Starts


\* A step that leaves the provider as running, or as due, as it was.
LEMMA CareStays ==
  ASSUME IInv, Host, NEW p \in Providers, Cared(p), Enabled(plan'[p]) => Enabled(plan[p]),
         Now.do = "sync" => Enabled(Effective[p]),
         Now.of = p => Now.do \notin {"attempt", "awaitStart"},
         Now.of = p /\ Now.do \in {"apply", "settle"} => ~Enabled(Now.cfg),
         rt'[p].started = rt[p].started, rt'[p].retry = rt[p].retry,
         call[p].pending => call'[p].pending
  PROVE  Cared(p)'
<1>1. Members(agenda) = {Now} \union Under(agenda) /\ Under(agenda) \subseteq Members(agenda')
  BY Stacking
<1>2. Saved(p) => Saved(p)'
  BY <1>1 DEF Saved
<1>3. QED
  BY <1>2 DEF Cared, Doing, Now

LEMMA SettleCares ==
  ASSUME HInv, Host, On, NEW p \in Providers, Now.of = p, Now.do = "settle", Ended(p)
  PROVE  Cared(p)'
<1>1. /\ IInv /\ ~shuttingDown /\ ~paused /\ agenda # <<>>
      /\ Members(agenda) = {Now} \union Under(agenda)
  BY Stacking DEF HInv, PInv, On
<1>2. rt'[p] = rt[p] /\ call'[p] = call[p] /\ plan' = plan /\ plan = Effective
  BY <1>1, NotConcerned, PlansChange, PlanIsRight DEF Deciding
<1>3. CASE ~Enabled(Now.cfg)
  <2>1. Ends(Now, p)
    BY <1>3 DEF Ends
  <2>2. ~Enabled(plan'[p])
    BY <1>1, <1>2, <2>1 DEF Ended
  <2>3. QED
    BY <2>2 DEF Cared
<1>4. CASE Enabled(Now.cfg)
  <2>1. PICK s \in Seq(Steps) :
             /\ Pushes(p, s)
             /\ s # <<>> => agenda' # <<>> /\ Head(agenda') = Head(s)
    BY <1>1, Stacking
  <2>2. CASE s = <<>>
    <3>1. Leaves(p)
      <4>1. \A action \in {"Start", "Reconfigure"} :
              <<>> # <<AttemptStep(p, Now.cfg, action), SyncStep, Step("shed", p)>>
        OBVIOUS
      <4>2. QED
        BY <1>1, <1>4, <2>1, <2>2, <4>1 DEF Pushes
    <3>2. call[p].pending \/ rt[p].started
      BY <3>1 DEF Leaves, Busy
    <3>3. QED
      BY <1>2, <3>2 DEF Cared
  <2>3. CASE s # <<>>
    <3>1. PICK action \in {"Start", "Reconfigure"} :
               s = <<AttemptStep(p, Now.cfg, action), SyncStep, Step("shed", p)>>
      BY <1>1, <1>4, <2>1, <2>3, Zenon DEF Pushes
    <3> DEFINE x == AttemptStep(p, Now.cfg, action)
    <3>2. x.do = "attempt" /\ x.of = p
      BY DEF AttemptStep, StepWith
    <3> HIDE DEF x
    <3>3. agenda' # <<>> /\ Head(agenda') = x
      BY <2>1, <2>3, <3>1 DEF x
    <3>4. QED
      BY <3>2, <3>3 DEF Cared, Now
  <2>4. QED
    BY <2>2, <2>3
<1>5. QED
  BY <1>3, <1>4

LEMMA ApplyCares ==
  ASSUME HInv, Host, On, NEW p \in Providers, Now.of = p, Now.do = "apply", Cared(p)
  PROVE  Cared(p)'
<1>1. IInv /\ TypeOK /\ ~shuttingDown /\ Apply /\ plan' = plan
  BY HostDoes, PlansChange DEF HInv, PInv, IInv, On
<1>2. /\ rt'[p].started = rt[p].started /\ rt'[p].retry = rt[p].retry
      /\ call'[p].pending = call[p].pending
  BY <1>1, AgersTell DEF Stands, Ages
<1>3. CASE ~Enabled(Now.cfg)
  BY <1>1, <1>2, <1>3, CareStays
<1>4. CASE Enabled(Now.cfg)
  <2> DEFINE x == StepWith("settle", p, Now.cfg, "", rt[p].plan # Now.cfg)
  <2>1. Then(<<Step("reconcile", p), x>>)
    BY <1>1, <1>4 DEF Apply, Enabled
  <2>2. x \in Steps /\ Step("reconcile", p) \in Steps
    <3>1. Now.cfg \in Plans
      BY <1>1, Concerned
    <3>2. QED
      BY <3>1, SmallSteps
  <2>3. x \in Members(agenda')
    BY <1>1, <2>1, <2>2, PushedSecond
  <2>4. x.of = p /\ x.do = "settle" /\ x.cfg = Now.cfg
    BY DEF StepWith
  <2> HIDE DEF x
  <2>5. QED
    BY <1>4, <2>3, <2>4 DEF Cared, Saved
<1>5. QED
  BY <1>3, <1>4

\* A wait that ends without the provider running leaves a retry, or nothing that is wanted.
LEMMA AwaitersCare ==
  ASSUME HInv, Host, On, NEW p \in Providers, Now.of = p, Now.do \in Waits \ {"awaitStop"},
         Fits(p), Cared(p)
  PROVE  Cared(p)'
<1>1. /\ IInv /\ TypeOK /\ ~shuttingDown /\ agenda # <<>> /\ plan' = plan /\ plan = Effective
      /\ desired' = desired
  BY Stacking, PlansChange, PlanIsRight DEF HInv, PInv, IInv, On, Waits
<1>2. ~call[p].pending
  BY <1>1 DEF Fits, Awaited, Now, Waits
<1>3. CASE Now.do = "awaitStart"
  <2>1. rt'[p].started \/ rt'[p].retry # "None"
    BY <1>1, <1>3, TheStep, AwaitStartTells, Concerned DEF Stands, Starts
  <2>2. QED
    BY <2>1 DEF Cared
<1>4. CASE Now.do = "awaitSample"
  <2>1. rt[p].started
    BY <1>1, <1>4 DEF Fits, Doing, Now
  <2>2. rt'[p].started \/ rt'[p].retry # "None"
    BY <1>1, <1>4, <2>1, TheStep, AwaitSampleTells DEF Stands
  <2>3. QED
    BY <2>2 DEF Cared
<1>5. CASE Now.do = "awaitProbe"
  <2>1. AwaitProbe
    BY <1>5, TheStep
  <2>2. CASE rt'[p].started = rt[p].started /\ rt'[p].retry = rt[p].retry
    BY <1>1, <1>2, <1>5, <2>2, CareStays
  <2>3. CASE rt'[p].caps = {}
    <3>1. ~Enabled(Effective'[p])
      BY <2>3 DEF Effective, Enabled
    <3>2. CASE KeepsCaps
      BY <1>1, <3>1, <3>2, KeepsEffective DEF Cared
    <3>3. CASE Then(<<SyncStep>>)
      <4>1. <<SyncStep>> \in Seq(Steps) /\ <<SyncStep>> # <<>> /\ Head(<<SyncStep>>) = SyncStep
        <5>1. SyncStep \in Steps
          BY SmallSteps
        <5>2. QED
          BY <5>1
      <4>2. agenda' # <<>> /\ Head(agenda') = SyncStep
        BY <1>1, <3>3, <4>1, NewStack
      <4>3. SyncStep.do = "sync"
        BY DEF SyncStep, Step, StepWith
      <4>4. QED
        BY <3>1, <4>2, <4>3 DEF Cared, Doing
    <3>4. QED
      BY <1>1, <2>1, <3>2, <3>3, AwaitersKeep
  <2>4. QED
    BY <1>1, <2>1, <2>2, <2>3, AwaitProbeTells DEF Stands
<1>6. QED
  BY <1>3, <1>4, <1>5 DEF Waits

LEMMA ReconcileCares ==
  ASSUME HInv, Host, On, NEW p \in Providers, Now.of = p, Now.do = "reconcile",
         Fits(p), Poised(p), Cared(p)
  PROVE  Cared(p)'
<1>1. /\ IInv /\ TypeOK /\ ~shuttingDown /\ ~paused /\ agenda # <<>> /\ plan' = plan /\ Reconcile
  BY Stacking, PlansChange, TheStep DEF HInv, PInv, IInv, On
<1>2. SUFFICES ASSUME Enabled(plan[p])
               PROVE  Cared(p)'
  BY <1>1 DEF Cared
<1>3. Enabled(rt[p].plan) /\ Active(p)
  BY <1>1, <1>2 DEF Poised, Active
<1>4. CASE rt'[p] = rt[p] /\ call'[p] = call[p]
  BY <1>1, <1>4, CareStays
<1>5. CASE rt'[p].retry = "Start"
  BY <1>5 DEF Cared
<1>6. CASE Busy(p) /\ rt'[p] = LateAnswer(p).rt /\ call[p].op \in Operations
  <2>1. call[p].op # "Probe" /\ (call[p].op = "Sample" => rt[p].started)
    BY <1>6 DEF Fits, Busy
  <2>2. rt'[p].started \/ rt'[p].retry # "None"
    BY <1>1, <1>3, <1>6, <2>1, LateAnswersRescue
  <2>3. QED
    BY <2>2 DEF Cared
<1>7. \/ rt'[p] = rt[p] /\ call'[p] = call[p]
      \/ rt'[p].retry = "Start"
      \/ Busy(p) /\ rt'[p] = LateAnswer(p).rt /\ call[p].op \in Operations
  BY <1>1, <1>3, ReconcileTells, Zenon DEF Stands
<1>8. QED
  BY <1>4, <1>5, <1>6, <1>7

\* Whatever the host does, what is wanted of a provider runs, or somebody will see to it.
LEMMA HostCares ==
  ASSUME HInv, Host, Intent, ProbesInTime, On, NEW p \in Providers,
         Ended(p), Poised(p), Cared(p)
  PROVE  Cared(p)'
<1>1. /\ IInv /\ TypeOK /\ ~shuttingDown /\ ~paused /\ agenda # <<>> /\ Fits(p) /\ Now \in Steps
      /\ Members(agenda) = {Now} \union Under(agenda) /\ Under(agenda) \subseteq Members(agenda')
  BY Stacking DEF HInv, PInv, IInv, On, Intent
<1>2. CASE Now.do \in {"applyDesired", "sync"}
  <2>1. CASE plan' = plan /\ plan = Effective
    <3>1. rt'[p] = rt[p] /\ call'[p] = call[p]
      BY <1>1, <1>2, NotConcerned DEF Deciding
    <3>2. CASE Enabled(plan[p])
      BY <1>1, <1>2, <2>1, <3>1, <3>2, CareStays
    <3>3. CASE ~Enabled(plan[p])
      BY <2>1, <3>3 DEF Cared
    <3>4. QED
      BY <3>2, <3>3
  <2>2. ASSUME NEW x \in Members(agenda'), x.of = p, x.do = "apply", x.cfg = plan'[p]
        PROVE  Cared(p)'
    BY <2>2 DEF Cared, Saved
  <2>3. QED
    BY <1>1, <1>2, <2>1, <2>2, Resynced
<1>3. CASE Now.do \notin {"applyDesired", "sync"} /\ (Now.of # p \/ Now.do \in Deciding \ {"settle"})
  <2>1. rt'[p] = rt[p] /\ call'[p] = call[p] /\ plan' = plan
    BY <1>1, <1>3, NotConcerned, PlansChange
  <2>2. QED
    BY <1>1, <1>3, <2>1, CareStays DEF Deciding
<1>4. ASSUME Now.of = p, Now.do \notin {"applyDesired", "sync"}
      PROVE  plan' = plan
  BY <1>1, <1>4, PlansChange
<1>5. CASE Now.of = p /\ Now.do = "settle"
  BY <1>1, <1>5, SettleCares
<1>6. CASE Now.of = p /\ Now.do = "apply"
  BY <1>1, <1>6, ApplyCares
<1>7. CASE Now.of = p /\ Now.do \in Waits \ {"awaitStop"}
  BY <1>1, <1>7, AwaitersCare
<1>8. CASE Now.of = p /\ Now.do = "reconcile"
  BY <1>1, <1>8, ReconcileCares
<1>9. CASE Now.of = p /\ Now.do = "attempt"
  BY <1>1, <1>9, AttemptLeavesItsWait DEF Cared, Now
<1>10. CASE Now.of = p /\ Now.do \in {"stop", "awaitStop"}
  <2>1. Enabled(plan'[p]) => Saved(p)'
    BY <1>1, <1>4, <1>10 DEF Poised, Saved
  <2>2. QED
    BY <2>1 DEF Cared
<1>11. CASE Now.of = p /\ Now.do \in {"renew", "probe"}
  <2>1. rt' = rt /\ call'[p].pending = call[p].pending
    BY <1>1, <1>11, TheStep, AgersTell DEF Ages
  <2>2. QED
    BY <1>1, <1>4, <1>11, <2>1, CareStays
<1>12. CASE Now.of = p /\ Now.do = "sendProbe"
  <2>1. rt' = rt /\ (call[p].pending => call'[p].pending)
    BY <1>1, <1>12, TheStep, SendersTell DEF Busy
  <2>2. QED
    BY <1>1, <1>4, <1>12, <2>1, CareStays
<1>13. CASE Now.of = p /\ Now.do = "sample"
  <2>1. CASE rt' = rt /\ call' = call
    BY <1>1, <1>4, <1>13, <2>1, CareStays
  <2>2. CASE rt'[p].started
    BY <2>2 DEF Cared
  <2>3. QED
    BY <1>1, <1>13, <2>1, <2>2, TheStep, SendersTell DEF Stands
<1>14. QED
  <2>1. Now.do \in {"desire", "shed", "retry", "cleanup", "settle", "apply", "reconcile", "attempt",
                    "stop", "renew", "probe", "sendProbe", "sample", "sync", "applyDesired"}
           \union Waits
    BY <1>1 DEF Steps
  <2>2. QED
    BY <2>1, <1>2, <1>3, <1>5, <1>6, <1>7, <1>8, <1>9, <1>10, <1>11, <1>12, <1>13
       DEF Deciding, Waits

-----------------------------------------------------------------------------
\* All of it, while the host collects.
Loyal(p) == Ended(p) /\ Applied(p) /\ Poised(p) /\ Carried(p) /\ Cared(p)
Minded == On => Layered /\ \A p \in Providers : Loyal(p)
LEMMA HostStaysMinded ==
  ASSUME HInv, Host, Intent, ProbesInTime, Minded,
         ~shuttingDown => \A p \in Providers : Informed(p)
  PROVE  /\ Minded'
         /\ ~shuttingDown' => \A p \in Providers : Informed(p)'
<1>1. On' = On /\ shuttingDown' = shuttingDown /\ IInv
  BY HostKeepsModes DEF On, HInv, PInv
<1>2. ASSUME On
      PROVE  Layered' /\ \A p \in Providers : Loyal(p)'
  <2>1. Layered /\ ~shuttingDown
    BY <1>2 DEF Minded, On
  <2>2. \A p \in Providers : Ended(p)
    BY <1>2 DEF Minded, Loyal
  <2>3. Layered'
    BY <1>1, <2>1, <2>2, HostKeepsLayered
  <2>4. ASSUME NEW p \in Providers
        PROVE  Loyal(p)'
    <3>1. Ended(p) /\ Applied(p) /\ Poised(p) /\ Carried(p) /\ Cared(p) /\ Informed(p)
      BY <1>2, <2>1 DEF Minded, Loyal
    <3>2. Ended(p)'
      BY <1>2, <2>1, <3>1, HostKeepsEnded
    <3>3. Applied(p)'
      BY <1>2, <2>1, <3>1, HostKeepsApplied
    <3>4. Carried(p)'
      BY <1>2, <3>1, HostCarries
    <3>5. Poised(p)'
      BY <1>2, <2>1, <3>1, <3>4, HostPoises
    <3>6. Cared(p)'
      BY <1>2, <3>1, HostCares
    <3>7. QED
      BY <3>2, <3>3, <3>4, <3>5, <3>6 DEF Loyal
  <2>5. QED
    BY <2>3, <2>4
<1>3. ASSUME ~shuttingDown, NEW p \in Providers
      PROVE  Informed(p)'
  <2>1. Informed(p) /\ (On => Applied(p))
    BY <1>3 DEF Minded, Loyal
  <2>2. QED
    BY <1>3, <2>1, HostKeepsInformed
<1>4. QED
  BY <1>1, <1>2, <1>3 DEF Minded

-----------------------------------------------------------------------------
(* So it is after a request of the collector.                              *)
LEMMA ForcedPlansAreApplied ==
  ASSUME NEW next \in [Providers -> Plans], NEW x \in Members(ApplyLoop(next, TRUE))
  PROVE  x.do = "apply" /\ x.cfg = next[x.of]
<1>1. ApplyLoop(next, TRUE) \in Seq(Applies(next, TRUE))
  BY AppliesAreApplies DEF ApplyLoop
<1>2. x \in Applies(next, TRUE)
  BY <1>1, MembersOf
<1>3. PICK p \in Providers : x = ApplyStep(p, next[p], TRUE)
  BY <1>2 DEF Applies
<1>4. QED
  BY <1>3 DEF ApplyStep, StepWith

LEMMA RequestsStayMinded ==
  ASSUME HInv, HInv', Minded, UpdateSettings \/ SampleDue \/ Pause \/ Resume \/ StopAll, On'
  PROVE  Layered' /\ \A p \in Providers : Loyal(p)'
<1>1. /\ TypeOK /\ agenda = <<>> /\ agenda' \in Seq(Steps)
      /\ rt' = rt /\ call' = call /\ desired' = desired /\ Members(agenda) = {}
  <2>1. IInv /\ IInv'
    BY DEF HInv, PInv
  <2>2. agenda' \in Seq(Steps)
    BY <2>1 DEF IInv, CallsInOrder, Stacks
  <2>3. QED
    BY <2>1, <2>2, ShortMembers
       DEF UpdateSettings, SampleDue, Pause, Resume, StopAll, Calm, IInv
<1>2. /\ \A x, y : Above(x, y, agenda') => x \in Members(agenda') /\ y \in Members(agenda')
      /\ \A x, y : Beneath(x, y, agenda') => x \in Members(agenda') /\ y \in Members(agenda')
      /\ Under(agenda') \subseteq Members(agenda')
      /\ agenda' # <<>> => Head(agenda') \in Members(agenda')
  <2>1. /\ Under(agenda') \subseteq Members(agenda')
        /\ agenda' # <<>> => Head(agenda') \in Members(agenda')
    BY <1>1, MembersOf
  <2>2. QED
    BY <1>1, <2>1, AboveAreMembers
<1>3. ~Pause /\ ~StopAll
  BY DEF On, Pause, StopAll
<1>4. CASE Resume
  <2>1. plan' = Effective /\ agenda' = ApplyLoop(Effective, TRUE) /\ Effective \in [Providers -> Plans]
    BY <1>1, <1>4, EffectiveIsAPlan DEF Resume
  <2>2. \A x \in Members(agenda') : x.do = "apply" /\ x.cfg = Effective[x.of]
    BY <2>1, ForcedPlansAreApplied
  <2>3. Effective' = Effective
    BY <1>1 DEF Effective
  <2>4. Layered'
    BY <1>2, <2>2 DEF Layered, Bottom, Ends, Enabled
  <2>5. ASSUME NEW p \in Providers
        PROVE  Loyal(p)'
    <3>1. Ended(p)'
      BY <2>2, <2>3 DEF Ended, Ends, Enabled
    <3>2. Applied(p)' /\ Poised(p)'
      <4>1. Deep(agenda') \subseteq Under(agenda')
        BY DEF Deep, Under
      <4>2. QED
        BY <1>2, <2>2, <4>1 DEF Applied, Poised, Doing, Now
    <3>3. Enabled(plan'[p]) => \E x \in Members(agenda') : x.of = p /\ x.do = "apply" /\ Enabled(x.cfg)
      <4> DEFINE x == ApplyStep(p, Effective[p], TRUE)
      <4>1. x \in Members(agenda')
        BY <2>1, EachIsApplied
      <4>2. x.of = p /\ x.do = "apply" /\ x.cfg = Effective[p]
        BY DEF ApplyStep, StepWith
      <4> HIDE DEF x
      <4>3. QED
        BY <2>1, <4>1, <4>2
    <3>4. QED
      BY <3>1, <3>2, <3>3 DEF Loyal, Carried, Cared, Saved
  <2>6. QED
    BY <2>4, <2>5
<1>5. CASE UpdateSettings \/ SampleDue
  <2>1. On /\ plan' = plan /\ ~Resume
    <3>1. paused' = paused /\ shuttingDown' = shuttingDown /\ plan' = plan
      BY <1>5 DEF UpdateSettings, SampleDue
    <3>2. QED
      BY <3>1 DEF On, Resume
  <2>2. \A x \in Members(agenda') :
          x.do \in {"probe", "desire", "applyDesired", "reconcile", "retry", "sample"}
    BY <1>1, <1>3, <1>5, <2>1, RequestsAsk DEF Asks
  <2>3. Layered'
    BY <1>2, <2>2 DEF Layered, Nesting, Ends
  <2>4. ASSUME NEW p \in Providers
        PROVE  Loyal(p)'
    <3>1. Carried(p) /\ Cared(p)
      BY <2>1, <2>4 DEF Minded, Loyal
    <3>2. Enabled(plan[p]) => Enabled(rt[p].plan)
      BY <1>1, <3>1 DEF Carried
    <3>3. Enabled(plan[p]) => rt[p].started \/ rt[p].retry # "None" \/ call[p].pending
      BY <1>1, <3>1 DEF Cared, Saved, Doing
    <3>4. Ended(p)'
      BY <2>2 DEF Ended, Ends
    <3>5. Applied(p)' /\ Poised(p)'
      <4>1. Deep(agenda') \subseteq Under(agenda')
        BY DEF Deep, Under
      <4>2. Applied(p)'
        BY <1>2, <2>2, <4>1 DEF Applied, Doing, Now
      <4>3. Poised(p)'
        BY <1>1, <1>2, <2>1, <2>2, <3>2 DEF Poised, Now, Ends
      <4>4. QED
        BY <4>2, <4>3
    <3>6. QED
      BY <1>1, <2>1, <3>2, <3>3, <3>4, <3>5 DEF Loyal, Carried, Cared
  <2>5. QED
    BY <2>3, <2>4
<1>6. QED
  BY <1>3, <1>4, <1>5

LEMMA RequestsInform ==
  ASSUME UpdateSettings \/ SampleDue \/ Pause \/ Resume \/ StopAll, NEW p \in Providers, Informed(p)
  PROVE  Informed(p)'
<1>1. UNCHANGED <<rt, call, own>>
  BY DEF UpdateSettings, SampleDue, Pause, Resume, StopAll
<1>2. QED
  BY <1>1 DEF Informed, Knows, Deaf

-----------------------------------------------------------------------------
(* And after a step of a worker, or of time.                               *)
\* Only a probe finds that more is supported.
LEMMA OnlyProbesAdd ==
  ASSUME IInv, NEW q \in Providers,
         \/ \E p \in Providers : Worker(p) \/ WorkerDies(p) \/ RetryFallsDue(p) \/ SampleFallsDue(p)
         \/ DeadlinePasses
         \/ UNCHANGED vars
  PROVE  /\ own'[q] \subseteq own[q] \/ (call[q].op = "Probe" /\ call[q].stage = "running")
         /\ call[q].stage = "idle" => call'[q].stage = "idle"
         /\ UNCHANGED <<desired, plan>>
<1>1. own \in [Providers -> SUBSET Categories] /\ call \in [Providers -> Calls]
  BY DEF IInv, TypeOK
<1>2. UNCHANGED <<desired, plan>>
  BY DEF Worker, WorkerCalls, WorkerRefuses, WorkerAnswers, WorkerAnswersWith,
     WorkerDies, RetryFallsDue, SampleFallsDue, DeadlinePasses, vars
<1>3. call[q].stage = "idle" => call'[q].stage = "idle"
  <2>1. \/ call' = call
        \/ \E p \in Providers : /\ call[p].stage \in {"queued", "running"}
                                /\ \A r \in Providers \ {p} : call'[r] = call[r]
    <3>1. CASE call' = call
      BY <3>1
    <3>2. ASSUME NEW p \in Providers, Worker(p) \/ WorkerDies(p)
          PROVE  /\ call[p].stage \in {"queued", "running"}
                 /\ \A r \in Providers \ {p} : call'[r] = call[r]
      BY <1>1, <3>2 DEF Worker, WorkerCalls, WorkerRefuses, WorkerAnswers, WorkerAnswersWith, WorkerDies
    <3>3. QED
      BY <3>1, <3>2 DEF RetryFallsDue, SampleFallsDue, DeadlinePasses, vars
  <2>2. QED
    BY <2>1
<1>4. ASSUME NEW p \in Providers, WorkerAnswers(p)
      PROVE  own'[q] \subseteq own[q] \/ (call[q].op = "Probe" /\ call[q].stage = "running")
  <2>1. PICK effect \in Effects(p) : own' = [own EXCEPT ![p] = effect.own]
    BY <1>4 DEF WorkerAnswers, WorkerAnswersWith
  <2>2. call[p].stage = "running"
    BY <1>4 DEF WorkerAnswers
  <2>3. effect.own \subseteq own[p] \/ call[p].op = "Probe"
    <3>1. call[p].op \in Operations
      BY <1>1, <2>2 DEF IInv, CallsInOrder, Accounted, Calls
    <3>2. CASE call[p].op \in {"Start", "Reconfigure"}
      BY <3>2 DEF Effects
    <3>3. CASE call[p].op = "Stop"
      BY <3>3 DEF Effects
    <3>4. CASE call[p].op = "Sample"
      BY <3>4 DEF Effects
    <3>5. QED
      BY <3>1, <3>2, <3>3, <3>4 DEF Operations
  <2>4. QED
    BY <1>1, <2>1, <2>2, <2>3
<1>5. CASE own' = own
  BY <1>2, <1>3, <1>5
<1>6. QED
  BY <1>2, <1>3, <1>4, <1>5
     DEF Worker, WorkerCalls, WorkerRefuses, WorkerDies, RetryFallsDue, SampleFallsDue,
         DeadlinePasses, vars

\* While a probe is under way, no application waits for it.
LEMMA ProbesAreAlone ==
  ASSUME IInv, Layered, NEW p \in Providers, Fits(p), call[p].op = "Probe",
         call[p].stage = "running", NEW x \in Members(agenda)
  PROVE  x.do # "settle" /\ Doing("awaitProbe")
<1>1. call[p].pending \/ Awaited(p)
  BY DEF IInv, CallsInOrder, Accounted
<1>2. agenda # <<>> /\ Now.do = "awaitProbe"
  BY <1>1 DEF Fits, Awaited, Expected, Starts, Waits, Now
<1>3. agenda \in Seq(Steps)
  BY DEF IInv, CallsInOrder, Stacks
<1>4. x = Now \/ x \in Under(agenda)
  BY <1>2, <1>3, MembersOf DEF Now
<1>5. ASSUME x \in Under(agenda), x.do = "settle"
      PROVE  FALSE
  <2>1. Above(Now, x, agenda)
    BY <1>2, <1>3, <1>5, HeadIsAbove DEF Now
  <2>2. QED
    BY <1>2, <1>5, <2>1 DEF Layered, Nesting, Bottom
<1>6. QED
  BY <1>2, <1>4, <1>5 DEF Doing, Now

LEMMA OthersStayMinded ==
  ASSUME HInv, Intent, ProbesInTime, Minded,
         ~shuttingDown => \A p \in Providers : Informed(p),
         \/ \E p \in Providers : Worker(p) \/ WorkerDies(p) \/ RetryFallsDue(p) \/ SampleFallsDue(p)
         \/ DeadlinePasses
         \/ UNCHANGED vars
  PROVE  /\ Minded'
         /\ ~shuttingDown' => \A p \in Providers : Informed(p)'
<1>1. /\ PInv /\ IInv /\ KeepsCaps /\ KeepsPlans
      /\ Providers # {} => UNCHANGED <<paused, shuttingDown, agenda, desired, plan>>
  BY OthersKeepPlan, OthersDrift, OnlyProbesAdd DEF HInv, PInv
<1>2. ASSUME NEW p \in Providers
      PROVE  /\ UNCHANGED <<paused, shuttingDown, agenda, desired, plan>>
             /\ rt'[p].caps = rt[p].caps /\ rt'[p].plan = rt[p].plan
             /\ rt'[p].started = rt[p].started /\ rt'[p].retry = rt[p].retry
             /\ call'[p].pending = call[p].pending
             /\ Deaf(p) => Deaf(p)'
             /\ Knows(p) => Knows(p)' \/ (call[p].op = "Probe" /\ call[p].stage = "running")
             /\ Effective' = Effective
  <2>1. Drifts(p) /\ UNCHANGED <<paused, shuttingDown, agenda, desired, plan>>
    BY <1>1, OthersDrift
  <2>2. own'[p] \subseteq own[p] \/ (call[p].op = "Probe" /\ call[p].stage = "running")
    BY <1>1, OnlyProbesAdd
  <2>3. Deaf(p) => Deaf(p)'
    BY <1>1, <2>1, OnlyProbesAdd DEF Drifts, Deaf
  <2>4. Effective' = Effective
    BY <1>1, <2>1, KeepsEffective
  <2>5. QED
    BY <1>1, <2>1, <2>2, <2>3, <2>4 DEF Drifts, Stands, KeepsCaps, KeepsPlans, Knows
<1>3. ASSUME ~shuttingDown', NEW p \in Providers
      PROVE  Informed(p)'
  <2>1. Informed(p)
    BY <1>2, <1>3
  <2>2. Drifts(p)
    BY <1>1, OthersDrift
  <2>3. call[p].op = "Probe" => Deaf(p)'
    BY <2>2 DEF Drifts, Deaf, Starts
  <2>4. QED
    BY <1>2, <2>1, <2>3 DEF Informed
<1>4. ASSUME On'
      PROVE  Layered' /\ \A p \in Providers : Loyal(p)'
  <2>1. UNCHANGED <<paused, shuttingDown, agenda, desired, plan>>
    BY DEF Worker, WorkerCalls, WorkerRefuses, WorkerAnswers, WorkerAnswersWith, WorkerDies,
       RetryFallsDue, SampleFallsDue, DeadlinePasses, vars, On
  <2>2. On /\ Layered /\ Layered'
    BY <1>4, <2>1 DEF On, Minded, Layered
  <2>3. ASSUME NEW p \in Providers
        PROVE  Loyal(p)'
    <3>1. Ended(p) /\ Applied(p) /\ Poised(p) /\ Carried(p) /\ Cared(p) /\ Fits(p)
      BY <2>2 DEF Minded, Loyal, Intent
    <3>2. Ended(p)' /\ Poised(p)' /\ Carried(p)' /\ Cared(p)'
      <4>1. Ended(p)'
        BY <1>2, <3>1 DEF Ended
      <4>2. Saved(p)' <=> Saved(p)
        BY <1>2 DEF Saved
      <4>3. Poised(p)'
        BY <1>2, <3>1, <4>2 DEF Poised, Now
      <4>4. Carried(p)'
        BY <1>2, <3>1 DEF Carried
      <4>5. Cared(p)'
        BY <1>2, <3>1, <4>2 DEF Cared, Doing, Now
      <4>6. QED
        BY <4>1, <4>3, <4>4, <4>5
    <3>3. Applied(p)'
      <4>1. CASE call[p].op = "Probe" /\ call[p].stage = "running"
        <5>1. \A x \in Members(agenda) : x.do # "settle" /\ Doing("awaitProbe")
          BY <1>1, <2>2, <3>1, <4>1, ProbesAreAlone
        <5>2. Under(agenda) \subseteq Members(agenda) /\ Deep(agenda) \subseteq Members(agenda)
              /\ (agenda # <<>> => Head(agenda) \in Members(agenda))
          <6>1. agenda \in Seq(Steps)
            BY <1>1 DEF IInv, CallsInOrder, Stacks
          <6>2. Deep(agenda) \subseteq Under(agenda)
            BY DEF Deep, Under
          <6>3. QED
            BY <6>1, <6>2, MembersOf
        <5>3. QED
          BY <2>1, <5>1, <5>2 DEF Applied, Doing
      <4>2. CASE Knows(p) => Knows(p)'
        BY <1>2, <3>1, <4>2 DEF Applied, Doing, Now
      <4>3. QED
        BY <1>2, <4>1, <4>2
    <3>4. QED
      BY <3>2, <3>3 DEF Loyal
  <2>4. QED
    BY <2>2, <2>3
<1>5. QED
  BY <1>3, <1>4 DEF Minded

-----------------------------------------------------------------------------
(* Nobody is forgotten.                                                    *)
LInv ==
  /\ HInv /\ Intent
  /\ ProbesInTime => Minded /\ (~shuttingDown => \A p \in Providers : Informed(p))
LEMMA LInvAtFirst == ASSUME Init PROVE LInv
<1>1. HInv /\ Intent
  BY PlansAtFirst, IntentAtFirst
<1>2. /\ agenda = <<>> /\ Members(agenda) = {} /\ Under(agenda) = {} /\ Deep(agenda) = {}
      /\ \A p \in Providers : ~Enabled(plan[p]) /\ Knows(p)
  <2>1. agenda = <<>>
    BY DEF Init
  <2>2. Members(agenda) = {} /\ Under(agenda) = {} /\ Deep(agenda) = {}
    BY <2>1 DEF Members, Under, Deep
  <2>3. \A p \in Providers : ~Enabled(plan[p]) /\ Knows(p)
    BY DEF Init, Enabled, Knows
  <2>4. QED
    BY <2>1, <2>2, <2>3
<1>3. Layered
  BY <1>2 DEF Layered, Above, Beneath
<1>4. \A p \in Providers : Loyal(p) /\ Informed(p)
  BY <1>2 DEF Loyal, Ended, Applied, Poised, Carried, Cared, Informed, Doing
<1>5. QED
  BY <1>1, <1>3, <1>4 DEF LInv, Minded

LEMMA StepKeepsLInv == ASSUME LInv, [Next]_vars PROVE LInv'
<1>1. HInv /\ Intent /\ HInv' /\ Intent'
  BY StepKeepsPlans, StepKeepsIntent DEF LInv
<1>2. slow' = slow
  BY DEF Next, vars, UpdateSettings, SampleDue, Pause, Resume, StopAll, Host, Desire, ApplyDesired,
     Sync, Renew, Probe, Apply, Settle, Shed, Retry, SendProbe, SendStart, SendSample, Stop,
     AwaitProbe, AwaitStart, AwaitSample, AwaitStop, Reconcile, Cleanup, Worker, WorkerCalls,
     WorkerRefuses, WorkerAnswers, WorkerAnswersWith, WorkerDies, RetryFallsDue, SampleFallsDue,
     DeadlinePasses
<1>3. ASSUME ProbesInTime
      PROVE  Minded' /\ (~shuttingDown' => \A p \in Providers : Informed(p)')
  <2>1. Minded /\ (~shuttingDown => \A p \in Providers : Informed(p))
    BY <1>3 DEF LInv
  <2>2. CASE UpdateSettings \/ SampleDue \/ Pause \/ Resume \/ StopAll
    <3>1. Minded'
      BY <1>1, <2>1, <2>2, RequestsStayMinded DEF Minded
    <3>2. ASSUME ~shuttingDown', NEW p \in Providers
          PROVE  Informed(p)'
      <4>1. ~shuttingDown
        BY <2>2, <3>2 DEF UpdateSettings, SampleDue, Pause, Resume, StopAll
      <4>2. QED
        BY <2>1, <2>2, <4>1, RequestsInform
    <3>3. QED
      BY <3>1, <3>2
  <2>3. CASE Host
    BY <1>1, <1>3, <2>1, <2>3, HostStaysMinded
  <2>4. CASE \/ \E p \in Providers : Worker(p) \/ WorkerDies(p) \/ RetryFallsDue(p) \/ SampleFallsDue(p)
             \/ DeadlinePasses
             \/ UNCHANGED vars
    BY <1>1, <1>3, <2>1, <2>4, OthersStayMinded
  <2>5. QED
    BY <2>2, <2>3, <2>4 DEF Next
<1>4. QED
  BY <1>1, <1>2, <1>3 DEF LInv, ProbesInTime

(* However many providers there are, and however late answers come and loops
   nest, a provider that is wanted and has no call outstanding is on a plan that
   wants it, and runs or has a retry scheduled, as long as probes answer in time.
   Between steps, what is wanted is Carried to its runtime and Cared for. *)
THEOREM NobodyIsForgotten == Spec => []NeverStranded
<1>1. LInv => NeverStranded
  <2> SUFFICES ASSUME LInv, ProbesInTime, NEW p \in Providers, agenda = <<>>, ~Busy(p), Wanted(p)
               PROVE  Active(p) /\ (rt[p].started \/ rt[p].retry # "None")
    BY DEF NeverStranded, Settled
  <2>1. Carried(p) /\ Cared(p) /\ Enabled(plan[p]) /\ ~paused /\ ~shuttingDown
    BY DEF LInv, Minded, Loyal, Wanted, On
  <2>2. Members(agenda) = {}
    BY ShortMembers
  <2>3. Active(p)
    BY <2>1, <2>2 DEF Carried, Active
  <2>4. rt[p].started \/ rt[p].retry # "None"
    BY <2>1, <2>2 DEF Cared, Saved, Busy, Doing
  <2>5. QED
    BY <2>3, <2>4
<1>2. QED
  BY <1>1, LInvAtFirst, StepKeepsLInv, PTL DEF Spec

================================================================================
