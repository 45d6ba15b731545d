------------------------- MODULE ProviderIntent_proofs -------------------------
(***************************************************************************)
(* That the host of providers carries out what the user wants: nothing is  *)
(* revived that was disabled, paused or shut down.                         *)
(***************************************************************************)
EXTENDS ProviderHost_proofs

Starts == {"Start", "Reconfigure"}

-----------------------------------------------------------------------------
(* The fields that matter, after each helper on a runtime.                 *)

Stands(r, started, lifecycle, retry) ==
  r.started = started /\ r.lifecycle = lifecycle /\ r.retry = retry

LEMMA HelpersStand ==
  ASSUME NEW r \in Runtimes
  PROVE  /\ Stands(ClearRetry(r), r.started, r.lifecycle, "None")
         /\ Stands(Failed(r), r.started, "Failed", r.retry)
         /\ Stands(Started(r), TRUE, "Running", "None")
         /\ Stands(ProbeFailed(r), r.started, "Failed", "None")
         /\ \A caps : Stands(Probed(r, caps), r.started,
                             IF r.started THEN r.lifecycle ELSE "Stopped", r.retry)
         /\ \A action : /\ Stands(RetryLater(r, action), r.started, r.lifecycle, action)
                        /\ Stands(RetryNow(r, action), r.started, r.lifecycle, action)
BY DEF Runtimes, Stands, ClearRetry, Failed, Started, ProbeFailed, Probed, RetryLater, RetryNow

LEMMA FieldsStand ==
  ASSUME NEW r \in Runtimes, NEW v
  PROVE  /\ Stands([r EXCEPT !.started = v], v, r.lifecycle, r.retry)
         /\ Stands([r EXCEPT !.lifecycle = v], r.started, v, r.retry)
         /\ Stands([r EXCEPT !.retry = v], r.started, r.lifecycle, v)
         /\ Stands([r EXCEPT !.sampleDue = v], r.started, r.lifecycle, r.retry)
         /\ Stands([r EXCEPT !.retryDue = v], r.started, r.lifecycle, r.retry)
         /\ Stands([r EXCEPT !.stopFailed = v], r.started, r.lifecycle, r.retry)
         /\ Stands([r EXCEPT !.caps = v], r.started, r.lifecycle, r.retry)
         /\ Stands([r EXCEPT !.plan = v], r.started, r.lifecycle, r.retry)
BY DEF Runtimes, Stands

LEMMA SampleFailedStands ==
  ASSUME NEW r \in Runtimes, NEW result
  PROVE  Stands(SampleFailed(r, result), r.started /\ result # "lost", "Failed",
                IF result = "lost" THEN "Reconfigure" ELSE r.retry)
<1> DEFINE f == [Failed(r) EXCEPT !.sampleDue = FALSE]
           g == [RetryLater(f, "Reconfigure") EXCEPT !.started = FALSE]
<1>1. f \in Runtimes /\ Stands(f, r.started, "Failed", r.retry) /\ r.started \in BOOLEAN
  BY DEF Runtimes, Failed, Stands
<1>2. SampleFailed(r, result) = IF result = "lost" THEN g ELSE f
  BY DEF SampleFailed
<1> HIDE DEF f
<1>3. Stands(g, FALSE, "Failed", "Reconfigure")
  BY <1>1 DEF Runtimes, RetryLater, Stands
<1> HIDE DEF g
<1>4. CASE result = "lost"
  BY <1>2, <1>3, <1>4 DEF Stands
<1>5. CASE result # "lost"
  BY <1>1, <1>2, <1>5 DEF Stands
<1>6. QED
  BY <1>4, <1>5

LEMMA AfterStopStands ==
  ASSUME NEW r \in Runtimes, NEW why \in Whys, NEW cfg, NEW ok
  PROVE  LET x == AfterStop(r, why, cfg, ok)
         IN  /\ x.started = r.started
             /\ x.lifecycle \in {r.lifecycle, "Stopped", "Paused", "Failed"}
             /\ x.retry \in {r.retry, "None"}
<1> DEFINE Fine(x) == /\ x.started = r.started
                      /\ x.lifecycle \in {r.lifecycle, "Stopped", "Paused", "Failed"}
                      /\ x.retry \in {r.retry, "None"}
           c == ClearRetry(r)
<1>1. c \in Runtimes /\ c.started = r.started /\ c.lifecycle = r.lifecycle /\ c.retry = "None"
  BY HelpersStand DEF ClearRetry, Runtimes, Stands
<1> HIDE DEF c
<1>2. \A v : v \in {r.lifecycle, "Stopped", "Paused", "Failed"} =>
        Fine([c EXCEPT !.sampleDue = TRUE, !.lifecycle = v])
  BY <1>1 DEF Runtimes
<1>3. Fine(r) /\ Fine([r EXCEPT !.lifecycle = "Paused"]) /\ Fine([c EXCEPT !.sampleDue = TRUE])
  BY <1>1 DEF Runtimes
<1>4. CASE why = "cleanup"
  BY <1>3, <1>4 DEF AfterStop
<1>5. CASE why = "apply"
  <2> DEFINE v == IF paused /\ ~Enabled(cfg) THEN "Stopped" ELSE IF ok THEN Resting ELSE "Failed"
  <2>1. AfterStop(r, why, cfg, ok) = [c EXCEPT !.sampleDue = TRUE, !.lifecycle = v]
    BY <1>5 DEF AfterStop, c
  <2>2. v \in {r.lifecycle, "Stopped", "Paused", "Failed"}
    BY DEF Resting
  <2> HIDE DEF v, Fine
  <2>3. Fine(AfterStop(r, why, cfg, ok))
    BY <1>2, <2>1, <2>2
  <2>4. QED
    BY <2>3 DEF Fine
<1>6. CASE why = "pause"
  <2> DEFINE v == IF ~Enabled(r.plan) THEN c.lifecycle ELSE IF ok THEN "Paused" ELSE "Failed"
  <2>1. AfterStop(r, why, cfg, ok) = [c EXCEPT !.sampleDue = TRUE, !.lifecycle = v]
    BY <1>6 DEF AfterStop, c
  <2>2. v \in {r.lifecycle, "Stopped", "Paused", "Failed"}
    BY <1>1
  <2> HIDE DEF v, Fine
  <2>3. Fine(AfterStop(r, why, cfg, ok))
    BY <1>2, <2>1, <2>2
  <2>4. QED
    BY <2>3 DEF Fine
<1>7. CASE why = "shutdown"
  BY <1>3, <1>7 DEF AfterStop, c
<1>8. CASE why = "shed"
  BY <1>3, <1>8 DEF AfterStop
<1>9. QED
  BY <1>4, <1>5, <1>6, <1>7, <1>8 DEF Whys

-----------------------------------------------------------------------------
(* The call, after each of the things the host does with it.               *)

LEMMA Calling ==
  ASSUME TypeOK, NEW p \in Providers, NEW op, NEW cfg, call' = NewCall(p, op, cfg)
  PROVE  /\ \A q \in Providers \ {p} : call'[q] = call[q]
         /\ call[p].stage = "dead" => call'[p] = call[p]
         /\ call[p].stage # "dead" =>
              /\ call'[p].op = op /\ call'[p].cfg = cfg /\ call'[p].stage = "queued"
              /\ ~call'[p].pending /\ ~call'[p].stale
<1>1. [NoCall EXCEPT !.op = op, !.stage = "queued", !.cfg = cfg].op = op
      /\ [NoCall EXCEPT !.op = op, !.stage = "queued", !.cfg = cfg].cfg = cfg
      /\ [NoCall EXCEPT !.op = op, !.stage = "queued", !.cfg = cfg].stage = "queued"
      /\ ~[NoCall EXCEPT !.op = op, !.stage = "queued", !.cfg = cfg].pending
      /\ ~[NoCall EXCEPT !.op = op, !.stage = "queued", !.cfg = cfg].stale
  BY DEF NoCall
<1> DEFINE c == [NoCall EXCEPT !.op = op, !.stage = "queued", !.cfg = cfg]
<1>2. call' = IF call[p].stage = "dead" THEN call ELSE [call EXCEPT ![p] = c]
  BY DEF NewCall
<1>3. c.op = op /\ c.cfg = cfg /\ c.stage = "queued" /\ ~c.pending /\ ~c.stale
  BY <1>1
<1> HIDE DEF c
<1>4. QED
  BY <1>2, <1>3 DEF TypeOK

LEMMA GivingUp ==
  ASSUME TypeOK, NEW p \in Providers, NEW accounted, call' = GivenUp(p, accounted)
  PROVE  /\ \A q \in Providers \ {p} : call'[q] = call[q]
         /\ call[p].stage = "dead" => call'[p] = call[p]
         /\ call[p].stage # "dead" =>
              /\ call'[p].op = call[p].op /\ call'[p].cfg = call[p].cfg
              /\ call'[p].stage = call[p].stage /\ call'[p].result = call[p].result
              /\ call'[p].pending /\ call'[p].stale = call[p].stale
BY DEF TypeOK, Calls, GivenUp

LEMMA Ending ==
  ASSUME TypeOK, NEW p \in Providers, call' = [call EXCEPT ![p] = NoCall]
  PROVE  /\ \A q \in Providers \ {p} : call'[q] = call[q]
         /\ call'[p].op = "None" /\ call'[p].stage = "idle"
         /\ ~call'[p].pending /\ ~call'[p].stale
BY DEF TypeOK, NoCall

\* What may change of a call between two steps: whether it is stale.
Ages(c, d) ==
  /\ d.op = c.op /\ d.cfg = c.cfg /\ d.stage = c.stage /\ d.result = c.result
  /\ d.pending = c.pending /\ (c.stale => d.stale)

LEMMA Renewing ==
  ASSUME TypeOK, NEW p \in Providers, call' = NewGeneration(p)
  PROVE  /\ \A q \in Providers \ {p} : call'[q] = call[q]
         /\ Ages(call[p], call'[p])
         /\ call[p].pending /\ call[p].op # "Probe" => call'[p].stale
BY DEF TypeOK, Calls, NewGeneration, Ages

-----------------------------------------------------------------------------
(* What a late answer makes of the runtime.                                *)

LEMMA LateSampleStands ==
  ASSUME TypeOK, NEW p \in Providers, NEW o, o = LateSample(p)
  PROVE  /\ call[p].stale \/ ~Active(p) =>
              o.rt = rt[p] /\ o.cleanup = (~Active(p) /\ rt[p].started)
         /\ ~call[p].stale /\ Active(p) =>
              /\ ~o.cleanup
              /\ \/ call[p].result = "ok" /\ Stands(o.rt, rt[p].started, "Running", rt[p].retry)
                 \/ call[p].result = "timeout" /\ Stands(o.rt, rt[p].started, rt[p].lifecycle, rt[p].retry)
                 \/ /\ call[p].result # "ok"
                    /\ Stands(o.rt, rt[p].started /\ call[p].result # "lost", "Failed",
                              IF call[p].result = "lost" THEN "Reconfigure" ELSE rt[p].retry)
<1> DEFINE i == Install(rt[p], p)
           on == [i EXCEPT !.lifecycle = "Running"]
           f == SampleFailed(i, call[p].result)
<1>1. rt[p] \in Runtimes /\ i \in Runtimes /\ Stands(i, rt[p].started, rt[p].lifecycle, rt[p].retry)
  BY DEF TypeOK, Install, Runtimes, Stands
<1>2. \A r, cleanup, news : /\ Outcome(r, cleanup, news).rt = r
                            /\ Outcome(r, cleanup, news).cleanup = cleanup
  BY DEF Outcome
<1>3. o = IF call[p].stale THEN Outcome(rt[p], ~Active(p) /\ rt[p].started, FALSE)
          ELSE IF ~Active(p) THEN Outcome(rt[p], rt[p].started, FALSE)
          ELSE IF call[p].result = "ok" THEN Outcome(on, FALSE, News(p))
          ELSE IF call[p].result = "timeout" /\ call[p].accounted THEN Outcome(i, FALSE, News(p))
          ELSE Outcome(f, FALSE, News(p))
  BY DEF LateSample
<1> HIDE DEF i
<1>4. Stands(on, i.started, "Running", i.retry)
  BY <1>1, FieldsStand
<1>5. Stands(f, i.started /\ call[p].result # "lost", "Failed",
             IF call[p].result = "lost" THEN "Reconfigure" ELSE i.retry)
  BY <1>1, SampleFailedStands
<1>6. i.started = rt[p].started /\ i.retry = rt[p].retry /\ rt[p].started \in BOOLEAN
  BY <1>1 DEF Stands, Runtimes
<1> HIDE DEF on, f
<1>7. CASE call[p].stale \/ ~Active(p)
  <2>1. \/ call[p].stale /\ o = Outcome(rt[p], ~Active(p) /\ rt[p].started, FALSE)
        \/ ~Active(p) /\ o = Outcome(rt[p], rt[p].started, FALSE)
    BY <1>3, <1>7
  <2>2. o.rt = rt[p] /\ o.cleanup = (~Active(p) /\ rt[p].started)
    BY <1>6, <2>1 DEF Outcome
  <2>3. QED
    BY <1>7, <2>2
<1>8. CASE ~call[p].stale /\ Active(p)
  <2>1. CASE call[p].result = "ok"
    <3>1. o = Outcome(on, FALSE, News(p))
      BY <1>3, <1>8, <2>1
    <3>2. o.rt = on /\ ~o.cleanup
      BY <3>1 DEF Outcome
    <3>3. QED
      BY <1>4, <1>6, <1>8, <2>1, <3>2
  <2>2. CASE call[p].result = "timeout" /\ call[p].accounted
    <3>1. o = Outcome(i, FALSE, News(p))
      BY <1>3, <1>8, <2>2
    <3>2. o.rt = i /\ ~o.cleanup
      BY <3>1 DEF Outcome
    <3>3. QED
      BY <1>1, <1>8, <2>2, <3>2
  <2>3. CASE call[p].result # "ok" /\ ~(call[p].result = "timeout" /\ call[p].accounted)
    <3>1. o = Outcome(f, FALSE, News(p))
      BY <1>3, <1>8, <2>3
    <3>2. o.rt = f /\ ~o.cleanup
      BY <3>1 DEF Outcome
    <3>3. QED
      BY <1>5, <1>6, <1>8, <2>3, <3>2
  <2>4. QED
    BY <1>8, <2>1, <2>2, <2>3
<1>9. QED
  BY <1>7, <1>8

LEMMA LateStartStands ==
  ASSUME TypeOK, NEW p \in Providers, NEW o, o = LateStart(p)
  PROVE  /\ call[p].result = "ok" =>
              /\ o.rt.started = TRUE /\ o.cleanup = ~Active(p)
              /\ o.rt.retry = IF call[p].stale /\ Active(p) THEN "Reconfigure" ELSE "None"
         /\ call[p].result # "ok" =>
              /\ o.rt.started = FALSE /\ ~o.cleanup
              /\ o.rt.lifecycle \in {rt[p].lifecycle, "Failed", "Stopped", "Paused"}
              /\ o.rt.retry = IF Active(p) THEN call[p].op ELSE "None"
<1> DEFINE c == call[p]
           i == Install(rt[p], p)
           r == IF c.stale THEN rt[p] ELSE i
           off == [r EXCEPT !.sampleDue = TRUE]
           news == ~c.stale /\ News(p)
           down == [off EXCEPT !.started = FALSE]
           o1 == Started(r)
           o2 == [RetryNow(Failed(off), "Reconfigure") EXCEPT !.started = TRUE]
           o3 == [ClearRetry(off) EXCEPT !.started = TRUE]
           o4 == [down EXCEPT !.retry = c.op]
           o5 == RetryLater(Failed(down), c.op)
           o6 == RetryNow(Failed(down), c.op)
           o7 == [ClearRetry(down) EXCEPT !.lifecycle = Resting]
<1>1. rt[p] \in Runtimes /\ i \in Runtimes /\ i.lifecycle = rt[p].lifecycle
  BY DEF TypeOK, Install, Runtimes
<1>2. r \in Runtimes /\ r.lifecycle = rt[p].lifecycle
  BY <1>1
<1>3. o = IF c.result = "ok"
          THEN IF ~c.stale /\ Active(p) THEN Outcome(o1, FALSE, news)
               ELSE IF Active(p) THEN Outcome(o2, FALSE, news)
               ELSE Outcome(o3, TRUE, news)
          ELSE IF ~c.stale /\ Active(p)
               THEN Outcome(IF c.result = "timeout" /\ c.accounted THEN o4 ELSE o5, FALSE, news)
               ELSE IF Active(p) THEN Outcome(o6, FALSE, news)
               ELSE Outcome(o7, FALSE, news)
  BY DEF LateStart
<1> HIDE DEF r, i
<1>4. Stands(o1, TRUE, "Running", "None")
  BY <1>2, HelpersStand
<1>5. off \in Runtimes /\ off.lifecycle = r.lifecycle
  BY <1>2 DEF Runtimes
<1> HIDE DEF off
<1>6. Stands(o2, TRUE, "Failed", "Reconfigure") /\ Stands(o3, TRUE, off.lifecycle, "None")
  BY <1>5 DEF Runtimes, Stands, RetryNow, Failed, ClearRetry
<1>7. down \in Runtimes /\ down.started = FALSE /\ down.lifecycle = r.lifecycle
  BY <1>5 DEF Runtimes
<1> HIDE DEF down
<1>8. /\ Stands(o4, FALSE, r.lifecycle, c.op) /\ Stands(o5, FALSE, "Failed", c.op)
      /\ Stands(o6, FALSE, "Failed", c.op) /\ Stands(o7, FALSE, Resting, "None")
  BY <1>7 DEF Runtimes, Stands, RetryNow, RetryLater, Failed, ClearRetry
<1>9. Resting \in {"Stopped", "Paused"} /\ Active(p) \in BOOLEAN
  BY DEF Resting, Active
<1> HIDE DEF c, o1, o2, o3, o4, o5, o6, o7, news
<1>10. c.result = "ok" =>
         \/ ~c.stale /\ Active(p) /\ o.rt = o1 /\ o.cleanup = FALSE
         \/ c.stale /\ Active(p) /\ o.rt = o2 /\ o.cleanup = FALSE
         \/ ~Active(p) /\ o.rt = o3 /\ o.cleanup = TRUE
  BY <1>3 DEF Outcome
<1>11. c.result # "ok" =>
         /\ o.cleanup = FALSE
         /\ \/ Active(p) /\ (o.rt = o4 \/ o.rt = o5 \/ o.rt = o6)
            \/ ~Active(p) /\ o.rt = o7
  BY <1>3 DEF Outcome
<1>12. CASE c.result = "ok"
  <2>1. /\ o.rt.started = TRUE /\ o.cleanup = ~Active(p)
        /\ o.rt.retry = IF c.stale /\ Active(p) THEN "Reconfigure" ELSE "None"
    BY <1>4, <1>6, <1>9, <1>10, <1>12 DEF Stands
  <2>2. QED
    BY <1>12, <2>1 DEF c
<1>13. CASE c.result # "ok"
  <2>1. /\ o.rt.started = FALSE /\ ~o.cleanup
        /\ o.rt.lifecycle \in {rt[p].lifecycle, "Failed", "Stopped", "Paused"}
        /\ o.rt.retry = IF Active(p) THEN c.op ELSE "None"
    BY <1>2, <1>8, <1>9, <1>11, <1>13 DEF Stands
  <2>2. QED
    BY <1>13, <2>1 DEF c
<1>14. QED
  BY <1>12, <1>13 DEF c

LEMMA LateStopStands ==
  ASSUME TypeOK, NEW p \in Providers, NEW o, o = LateStop(p)
  PROVE  /\ o.rt.started = FALSE /\ ~o.cleanup
         /\ o.rt.lifecycle \in {"Failed", "Stopped", "Paused"}
         /\ Active(p) => o.rt.retry \in {"Start", "Reconfigure"}
         /\ ~Active(p) => o.rt.retry = "None"
<1> DEFINE down == [rt[p] EXCEPT !.started = FALSE, !.sampleDue = TRUE]
           r == [ClearRetry(down) EXCEPT !.stopFailed = FALSE]
           f == [Failed(down) EXCEPT !.stopFailed = TRUE]
           o1 == RetryNow(Failed(r), "Start")
           o2 == [r EXCEPT !.lifecycle = Resting]
           o3 == RetryLater(f, "Reconfigure")
           o4 == ClearRetry(f)
<1>1. down \in Runtimes /\ down.started = FALSE
  <2>1. rt[p] \in Runtimes
    BY DEF TypeOK
  <2>2. QED
    BY <2>1 DEF Runtimes
<1>2. o = IF call[p].result = "ok"
          THEN Outcome(IF Active(p) THEN o1 ELSE o2, FALSE, FALSE)
          ELSE Outcome(IF Active(p) THEN o3 ELSE o4, FALSE, FALSE)
  BY DEF LateStop
<1> HIDE DEF down
<1>3. /\ r \in Runtimes /\ f \in Runtimes /\ r.started = FALSE /\ r.retry = "None"
      /\ f.started = FALSE /\ f.lifecycle = "Failed"
  BY <1>1 DEF Runtimes, ClearRetry, Failed
<1> HIDE DEF r, f
<1>4. /\ Stands(o1, FALSE, "Failed", "Start") /\ Stands(o2, FALSE, Resting, "None")
      /\ Stands(o3, FALSE, "Failed", "Reconfigure") /\ Stands(o4, FALSE, "Failed", "None")
  BY <1>3 DEF Runtimes, Stands, RetryNow, RetryLater, Failed, ClearRetry
<1>5. \A x : Outcome(x, FALSE, FALSE).rt = x /\ Outcome(x, FALSE, FALSE).cleanup = FALSE
  BY DEF Outcome
<1>6. Resting \in {"Stopped", "Paused"}
  BY DEF Resting
<1> HIDE DEF o1, o2, o3, o4
<1>7. \/ Active(p) /\ (o = Outcome(o1, FALSE, FALSE) \/ o = Outcome(o3, FALSE, FALSE))
      \/ ~Active(p) /\ (o = Outcome(o2, FALSE, FALSE) \/ o = Outcome(o4, FALSE, FALSE))
  BY <1>2
<1>8. CASE Active(p)
  <2>1. (o.rt = o1 \/ o.rt = o3) /\ o.cleanup = FALSE
    BY <1>5, <1>7, <1>8
  <2>2. QED
    BY <1>4, <1>8, <2>1 DEF Stands
<1>9. CASE ~Active(p)
  <2>1. (o.rt = o2 \/ o.rt = o4) /\ o.cleanup = FALSE
    BY <1>5, <1>7, <1>9
  <2>2. QED
    BY <1>4, <1>6, <1>9, <2>1 DEF Stands
<1>10. QED
  BY <1>8, <1>9

-----------------------------------------------------------------------------
(* What each step of the host does to the provider it is about.            *)

Others(p) == \A q \in Providers \ {p} : rt'[q] = rt[q] /\ call'[q] = call[q]

\* A call is sent, or would be if there were still a worker.
Sent(p, op, cfg) ==
  IF call[p].stage = "dead" THEN call'[p] = call[p]
  ELSE /\ call'[p].op = op /\ call'[p].cfg = cfg /\ call'[p].stage = "queued"
       /\ ~call'[p].pending /\ ~call'[p].stale

\* The wait for the answer is over.
Over(p) ==
  \/ /\ Answered(p)
     /\ call'[p].op = "None" /\ call'[p].stage = "idle" /\ ~call'[p].pending
     /\ ~call'[p].stale
  \/ call[p].stage = "dead" /\ call'[p] = call[p]
  \/ /\ TimesOut(p)
     /\ call'[p].op = call[p].op /\ call'[p].cfg = call[p].cfg /\ call'[p].stage = call[p].stage
     /\ call'[p].result = call[p].result /\ call'[p].pending /\ call'[p].stale = call[p].stale

LEMMA Waiting ==
  ASSUME TypeOK, NEW p \in Providers, NEW accounted,
         \/ Answered(p) /\ call' = [call EXCEPT ![p] = NoCall]
         \/ NoAnswer(p) /\ call' = GivenUp(p, accounted)
  PROVE  Over(p) /\ \A q \in Providers \ {p} : call'[q] = call[q]
BY Ending, GivingUp DEF Over, NoAnswer, TimesOut, Answered

LEMMA RuntimeIs ==
  ASSUME TypeOK, NEW p \in Providers, NEW r, rt' = [rt EXCEPT ![p] = r]
  PROVE  rt'[p] = r /\ \A q \in Providers \ {p} : rt'[q] = rt[q]
BY DEF TypeOK

LEMMA Concerned ==
  ASSUME IInv, Host, Now.do \notin {"sync", "applyDesired"}
  PROVE  /\ Now.of \in Providers /\ rt[Now.of] \in Runtimes /\ call[Now.of] \in Calls
         /\ own[Now.of] \in SUBSET Categories /\ TypeOK /\ Now.cfg \in Plans
         /\ Now.do \in {"attempt", "awaitStart"} => Now.tag \in Starts
         /\ Now.do \in {"stop", "awaitStop"} => Now.tag \in Whys
<1>1. Doing(Now.do)
  BY HostDoes
<1>2. QED
  BY <1>1, HeadIsAStep DEF IInv, TypeOK, Starts

LEMMA InstallStands ==
  ASSUME TypeOK, NEW p \in Providers
  PROVE  /\ rt[p] \in Runtimes /\ Install(rt[p], p) \in Runtimes
         /\ Stands(Install(rt[p], p), rt[p].started, rt[p].lifecycle, rt[p].retry)
<1>1. rt[p] \in Runtimes /\ own[p] \in SUBSET Categories
  BY DEF TypeOK
<1>2. QED
  BY <1>1 DEF Install, Runtimes, Stands

LEMMA AwaitStartTells ==
  ASSUME IInv, AwaitStart, NEW p \in Providers, p = Now.of
  PROVE  /\ Others(p) /\ Over(p)
         /\ \/ /\ Answered(p) /\ call[p].result = "ok"
               /\ Stands(rt'[p], TRUE, "Running", "None")
            \/ /\ ~(Answered(p) /\ call[p].result = "ok")
               /\ Stands(rt'[p], FALSE, "Failed", Now.tag)
<1> DEFINE i == Install(rt[p], p)
           Refused(r) == [RetryLater(Failed(r), Now.tag) EXCEPT !.started = FALSE, !.sampleDue = TRUE]
           on == Started(i)
           off == Refused(i)
           out == Refused(rt[p])
           got == IF call[p].result = "ok" THEN on ELSE off
<1>1. /\ TypeOK /\ rt[p] \in Runtimes /\ i \in Runtimes
  BY InstallStands DEF IInv
<1>2. \A r \in Runtimes : Stands(Refused(r), FALSE, "Failed", Now.tag)
  BY DEF Runtimes, Stands, RetryLater, Failed
<1>3. Stands(on, TRUE, "Running", "None") /\ Stands(off, FALSE, "Failed", Now.tag)
      /\ Stands(out, FALSE, "Failed", Now.tag)
  BY <1>1, <1>2, HelpersStand
<1>4. \/ /\ Answered(p) /\ call' = [call EXCEPT ![p] = NoCall]
         /\ rt' = [rt EXCEPT ![p] = got]
      \/ /\ NoAnswer(p) /\ call' = GivenUp(p, TRUE)
         /\ rt' = [rt EXCEPT ![p] = out]
  BY DEF AwaitStart
<1> HIDE DEF on, off, out
<1>g. (call[p].result = "ok" /\ got = on) \/ (call[p].result # "ok" /\ got = off)
  OBVIOUS
<1> HIDE DEF got
<1>5. Over(p) /\ \A q \in Providers \ {p} : call'[q] = call[q]
  BY <1>1, <1>4, Waiting
<1>6. CASE Answered(p) /\ rt' = [rt EXCEPT ![p] = got]
  <2>1. rt'[p] = got /\ \A q \in Providers \ {p} : rt'[q] = rt[q]
    BY <1>1, <1>6, RuntimeIs
  <2>2. QED
    BY <1>3, <1>5, <1>6, <2>1, <1>g DEF Others
<1>7. CASE NoAnswer(p) /\ rt' = [rt EXCEPT ![p] = out]
  <2>1. rt'[p] = out /\ \A q \in Providers \ {p} : rt'[q] = rt[q]
    BY <1>1, <1>7, RuntimeIs
  <2>2. ~Answered(p)
    BY <1>7 DEF NoAnswer, TimesOut, Answered
  <2>3. QED
    BY <1>3, <1>5, <2>1, <2>2 DEF Others
<1>8. QED
  BY <1>4, <1>6, <1>7

LEMMA AwaitSampleTells ==
  ASSUME IInv, AwaitSample, NEW p \in Providers, p = Now.of
  PROVE  /\ Others(p) /\ Over(p)
         /\ \/ /\ Answered(p) /\ call[p].result = "ok"
               /\ Stands(rt'[p], rt[p].started, "Running", rt[p].retry)
            \/ /\ Answered(p) /\ call[p].result = "lost"
               /\ Stands(rt'[p], FALSE, "Failed", "Reconfigure")
            \/ /\ ~(Answered(p) /\ call[p].result \in {"ok", "lost"})
               /\ Stands(rt'[p], rt[p].started, "Failed", rt[p].retry)
<1> DEFINE i == Install(rt[p], p)
           on == [i EXCEPT !.lifecycle = "Running"]
           off == SampleFailed(i, call[p].result)
           out == SampleFailed(rt[p], "timeout")
           got == IF call[p].result = "ok" THEN on ELSE off
<1>1. /\ TypeOK /\ rt[p] \in Runtimes /\ i \in Runtimes /\ Stands(i, rt[p].started, rt[p].lifecycle, rt[p].retry)
  BY InstallStands DEF IInv
<1>2. rt[p].started \in BOOLEAN /\ i.started = rt[p].started /\ i.retry = rt[p].retry
  BY <1>1 DEF Runtimes, Stands
<1>3. Stands(on, i.started, "Running", i.retry)
  BY <1>1, FieldsStand
<1>4. /\ Stands(off, i.started /\ call[p].result # "lost", "Failed",
                IF call[p].result = "lost" THEN "Reconfigure" ELSE i.retry)
      /\ Stands(out, rt[p].started /\ "timeout" # "lost", "Failed",
                IF "timeout" = "lost" THEN "Reconfigure" ELSE rt[p].retry)
  BY <1>1, SampleFailedStands
<1>5. \/ /\ Answered(p) /\ call' = [call EXCEPT ![p] = NoCall]
         /\ rt' = [rt EXCEPT ![p] = got]
      \/ /\ NoAnswer(p) /\ call' = GivenUp(p, TRUE)
         /\ rt' = [rt EXCEPT ![p] = out]
  BY DEF AwaitSample
<1> HIDE DEF i, on, off, out
<1>g. (call[p].result = "ok" /\ got = on) \/ (call[p].result # "ok" /\ got = off)
  OBVIOUS
<1> HIDE DEF got
<1>6. Over(p) /\ \A q \in Providers \ {p} : call'[q] = call[q]
  BY <1>1, <1>5, Waiting
<1>7. CASE Answered(p) /\ rt' = [rt EXCEPT ![p] = got]
  <2>1. rt'[p] = got /\ \A q \in Providers \ {p} : rt'[q] = rt[q]
    BY <1>1, <1>7, RuntimeIs
  <2>2. Others(p)
    BY <1>6, <2>1 DEF Others
  <2>3. CASE call[p].result = "ok" /\ got = on
    BY <1>2, <1>3, <1>6, <1>7, <2>1, <2>2, <2>3 DEF Stands
  <2>4. CASE call[p].result # "ok" /\ got = off
    <3>1. CASE call[p].result = "lost"
      BY <1>4, <1>6, <1>7, <2>1, <2>2, <2>4, <3>1 DEF Stands
    <3>2. CASE call[p].result # "lost"
      BY <1>2, <1>4, <1>6, <2>1, <2>2, <2>4, <3>2 DEF Stands
    <3>3. QED
      BY <3>1, <3>2
  <2>5. QED
    BY <1>g, <2>3, <2>4
<1>8. CASE NoAnswer(p) /\ rt' = [rt EXCEPT ![p] = out]
  <2>1. rt'[p] = out /\ \A q \in Providers \ {p} : rt'[q] = rt[q]
    BY <1>1, <1>8, RuntimeIs
  <2>2. ~Answered(p)
    BY <1>8 DEF NoAnswer, TimesOut, Answered
  <2>3. QED
    BY <1>2, <1>4, <1>6, <2>1, <2>2 DEF Others, Stands
<1>9. QED
  BY <1>5, <1>7, <1>8

LEMMA AwaitProbeTells ==
  ASSUME IInv, AwaitProbe, NEW p \in Providers, p = Now.of
  PROVE  /\ Others(p) /\ Over(p)
         /\ \/ /\ Answered(p) /\ call[p].result = "ok"
               /\ Stands(rt'[p], rt[p].started, IF rt[p].started THEN rt[p].lifecycle ELSE "Stopped",
                         rt[p].retry)
            \/ /\ ~(Answered(p) /\ call[p].result = "ok") /\ rt'[p].caps = {}
               /\ Stands(rt'[p], rt[p].started, "Failed", "None")
<1> DEFINE i == Install(rt[p], p)
           on == Probed(rt[p], own[p])
           off == ProbeFailed(i)
           out == ProbeFailed(rt[p])
           got == IF call[p].result = "ok" THEN on ELSE off
<1>1. /\ TypeOK /\ rt[p] \in Runtimes /\ i \in Runtimes /\ i.started = rt[p].started
  BY InstallStands DEF IInv, Stands
<1>2. /\ Stands(on, rt[p].started, IF rt[p].started THEN rt[p].lifecycle ELSE "Stopped", rt[p].retry)
      /\ Stands(off, i.started, "Failed", "None") /\ Stands(out, rt[p].started, "Failed", "None")
  BY <1>1, HelpersStand
<1>3. off.caps = {} /\ out.caps = {}
  BY <1>1, HelpersKeepCaps
<1>4. \/ /\ Answered(p) /\ call' = [call EXCEPT ![p] = NoCall]
         /\ rt' = [rt EXCEPT ![p] = got]
      \/ /\ NoAnswer(p) /\ call' = GivenUp(p, FALSE)
         /\ rt' = [rt EXCEPT ![p] = out]
  BY DEF AwaitProbe
<1> HIDE DEF i, on, off, out
<1>g. (call[p].result = "ok" /\ got = on) \/ (call[p].result # "ok" /\ got = off)
  OBVIOUS
<1> HIDE DEF got
<1>5. Over(p) /\ \A q \in Providers \ {p} : call'[q] = call[q]
  BY <1>1, <1>4, Waiting
<1>6. CASE Answered(p) /\ rt' = [rt EXCEPT ![p] = got]
  <2>1. rt'[p] = got /\ \A q \in Providers \ {p} : rt'[q] = rt[q]
    BY <1>1, <1>6, RuntimeIs
  <2>2. QED
    BY <1>1, <1>2, <1>3, <1>5, <1>6, <2>1, <1>g DEF Others, Stands
<1>7. CASE NoAnswer(p) /\ rt' = [rt EXCEPT ![p] = out]
  <2>1. rt'[p] = out /\ \A q \in Providers \ {p} : rt'[q] = rt[q]
    BY <1>1, <1>7, RuntimeIs
  <2>2. ~Answered(p)
    BY <1>7 DEF NoAnswer, TimesOut, Answered
  <2>3. QED
    BY <1>2, <1>3, <1>5, <2>1, <2>2 DEF Others
<1>8. QED
  BY <1>4, <1>6, <1>7

LEMMA AwaitStopTells ==
  ASSUME IInv, AwaitStop, NEW p \in Providers, p = Now.of
  PROVE  /\ Others(p) /\ Over(p)
         /\ ~rt'[p].started /\ rt'[p].lifecycle # "Running" /\ rt'[p].retry \in {rt[p].retry, "None"}
<1> DEFINE ok == Answered(p) /\ call[p].result = "ok"
           r == [rt[p] EXCEPT !.started = FALSE]
           s == IF ok THEN [r EXCEPT !.lifecycle = "Stopped", !.stopFailed = FALSE]
                ELSE [Failed(r) EXCEPT !.stopFailed = TRUE]
           x == AfterStop(s, Now.tag, Now.cfg, ok)
<1>1. TypeOK /\ rt[p] \in Runtimes /\ Now.tag \in Whys
  BY HeadIsAStep DEF IInv, TypeOK, AwaitStop
<1>2. /\ s \in Runtimes /\ s.started = FALSE /\ s.lifecycle \in {"Stopped", "Failed"}
      /\ s.retry = rt[p].retry
  BY <1>1 DEF Runtimes, Failed
<1>3. /\ \/ Answered(p) /\ call' = [call EXCEPT ![p] = NoCall]
         \/ NoAnswer(p) /\ call' = GivenUp(p, FALSE)
      /\ rt' = [rt EXCEPT ![p] = x]
  BY DEF AwaitStop
<1> HIDE DEF s, ok
<1>4. /\ x.started = s.started /\ x.lifecycle \in {s.lifecycle, "Stopped", "Paused", "Failed"}
      /\ x.retry \in {s.retry, "None"}
  BY <1>1, <1>2, AfterStopStands
<1> HIDE DEF x
<1>5. Over(p) /\ \A q \in Providers \ {p} : call'[q] = call[q]
  BY <1>1, <1>3, Waiting
<1>6. rt'[p] = x /\ \A q \in Providers \ {p} : rt'[q] = rt[q]
  BY <1>1, <1>3, RuntimeIs
<1>7. QED
  BY <1>2, <1>4, <1>5, <1>6 DEF Others

LEMMA StopTells ==
  ASSUME IInv, Stop, NEW p \in Providers, p = Now.of
  PROVE  /\ Others(p) /\ rt'[p].retry = "None"
         /\ \/ /\ Busy(p) /\ Ages(call[p], call'[p]) /\ call'[p].stale = call[p].stale
               /\ rt'[p].started = rt[p].started /\ rt'[p].lifecycle # "Running"
            \/ /\ ~Busy(p) /\ ~rt[p].started /\ call'[p] = call[p]
               /\ ~rt'[p].started /\ rt'[p].lifecycle \in {rt[p].lifecycle, "Stopped", "Paused", "Failed"}
            \/ /\ ~Busy(p) /\ rt[p].started /\ shuttingDown /\ late /\ call'[p] = call[p]
               /\ ~rt'[p].started /\ rt'[p].lifecycle # "Running" /\ Then(<<>>)
            \/ /\ ~Busy(p) /\ rt[p].started /\ ~(shuttingDown /\ late) /\ Sent(p, "Stop", NoPlan)
               /\ rt'[p].started /\ rt'[p].lifecycle = rt[p].lifecycle
<1> DEFINE r == [ClearRetry(rt[p]) EXCEPT !.sampleDue = TRUE]
           s1 == [Failed(r) EXCEPT !.stopFailed = @ \/ call[p].op = "Stop"]
           s2 == IF r.stopFailed \/ r.lifecycle = "Failed" THEN r ELSE [r EXCEPT !.lifecycle = "Stopped"]
           s3 == [Failed(r) EXCEPT !.started = FALSE, !.stopFailed = TRUE]
           Ended(s) == \E ok : rt' = [rt EXCEPT ![p] = AfterStop(s, Now.tag, Now.cfg, ok)]
           c == [call[p] EXCEPT !.cancelled = TRUE]
<1>1. TypeOK /\ rt[p] \in Runtimes /\ call[p] \in Calls /\ Now.tag \in Whys
  BY HeadIsAStep DEF IInv, TypeOK, Stop
<1>2. r \in Runtimes /\ Stands(r, rt[p].started, rt[p].lifecycle, "None")
  BY <1>1 DEF Runtimes, ClearRetry, Stands
<1>3. \/ Busy(p) /\ call' = [call EXCEPT ![p] = c] /\ Ended(s1)
      \/ ~Busy(p) /\ ~r.started /\ call' = call /\ Ended(s2)
      \/ ~Busy(p) /\ r.started /\ shuttingDown /\ late /\ call' = call /\ Ended(s3) /\ Then(<<>>)
      \/ /\ ~Busy(p) /\ r.started /\ ~(shuttingDown /\ late)
         /\ call' = NewCall(p, "Stop", NoPlan) /\ rt' = [rt EXCEPT ![p] = r]
  BY DEF Stop
<1> HIDE DEF r
<1>4. /\ s1 \in Runtimes /\ Stands(s1, r.started, "Failed", "None")
      /\ s3 \in Runtimes /\ Stands(s3, FALSE, "Failed", "None")
  BY <1>2 DEF Runtimes, Failed, Stands
<1>5. s2 \in Runtimes /\ s2.started = r.started /\ s2.retry = "None" /\ s2.lifecycle \in {r.lifecycle, "Stopped"}
  BY <1>2 DEF Runtimes, Stands
<1> HIDE DEF s1, s2, s3
<1>6. ASSUME NEW s \in Runtimes, Ended(s)
      PROVE  /\ rt'[p].started = s.started /\ rt'[p].retry \in {s.retry, "None"}
             /\ rt'[p].lifecycle \in {s.lifecycle, "Stopped", "Paused", "Failed"}
             /\ \A q \in Providers \ {p} : rt'[q] = rt[q]
  <2>1. PICK ok : rt' = [rt EXCEPT ![p] = AfterStop(s, Now.tag, Now.cfg, ok)]
    BY <1>6
  <2> DEFINE x == AfterStop(s, Now.tag, Now.cfg, ok)
  <2>2. /\ x.started = s.started /\ x.retry \in {s.retry, "None"}
        /\ x.lifecycle \in {s.lifecycle, "Stopped", "Paused", "Failed"}
    BY <1>1, AfterStopStands
  <2>3. rt' = [rt EXCEPT ![p] = x]
    BY <2>1
  <2> HIDE DEF x
  <2>4. rt'[p] = x /\ \A q \in Providers \ {p} : rt'[q] = rt[q]
    BY <1>1, <2>3, RuntimeIs
  <2>5. QED
    BY <2>2, <2>4
<1>7. Ages(call[p], c) /\ c.stale = call[p].stale
  BY <1>1 DEF Calls, Ages
<1> HIDE DEF c, Ended
<1>8. CASE Busy(p) /\ call' = [call EXCEPT ![p] = c] /\ Ended(s1)
  <2>1. call'[p] = c /\ \A q \in Providers \ {p} : call'[q] = call[q]
    BY <1>1, <1>8 DEF TypeOK
  <2>2. /\ rt'[p].started = s1.started /\ rt'[p].retry \in {s1.retry, "None"}
        /\ rt'[p].lifecycle \in {s1.lifecycle, "Stopped", "Paused", "Failed"}
        /\ \A q \in Providers \ {p} : rt'[q] = rt[q]
    BY <1>4, <1>6, <1>8
  <2>3. QED
    BY <1>2, <1>4, <1>7, <1>8, <2>1, <2>2 DEF Others, Stands
<1>9. CASE ~Busy(p) /\ ~r.started /\ call' = call /\ Ended(s2)
  <2>1. /\ rt'[p].started = s2.started /\ rt'[p].retry \in {s2.retry, "None"}
        /\ rt'[p].lifecycle \in {s2.lifecycle, "Stopped", "Paused", "Failed"}
        /\ \A q \in Providers \ {p} : rt'[q] = rt[q]
    BY <1>5, <1>6, <1>9
  <2>2. QED
    BY <1>2, <1>5, <1>9, <2>1 DEF Others, Stands
<1>10. CASE ~Busy(p) /\ r.started /\ shuttingDown /\ late /\ call' = call /\ Ended(s3) /\ Then(<<>>)
  <2>1. /\ rt'[p].started = s3.started /\ rt'[p].retry \in {s3.retry, "None"}
        /\ rt'[p].lifecycle \in {s3.lifecycle, "Stopped", "Paused", "Failed"}
        /\ \A q \in Providers \ {p} : rt'[q] = rt[q]
    BY <1>4, <1>6, <1>10
  <2>2. QED
    BY <1>2, <1>4, <1>10, <2>1 DEF Others, Stands
<1>11. CASE /\ ~Busy(p) /\ r.started /\ ~(shuttingDown /\ late)
            /\ call' = NewCall(p, "Stop", NoPlan) /\ rt' = [rt EXCEPT ![p] = r]
  <2>1. Sent(p, "Stop", NoPlan) /\ \A q \in Providers \ {p} : call'[q] = call[q]
    BY <1>1, <1>11, Calling DEF Sent
  <2>2. rt'[p] = r /\ \A q \in Providers \ {p} : rt'[q] = rt[q]
    BY <1>1, <1>11, RuntimeIs
  <2>3. QED
    BY <1>2, <1>11, <2>1, <2>2 DEF Others, Stands
<1>12. QED
  BY <1>3, <1>8, <1>9, <1>10, <1>11

LEMMA SendersTell ==
  ASSUME IInv, NEW p \in Providers, p = Now.of
  PROVE  /\ SendStart =>
              /\ Others(p) /\ Sent(p, Now.tag, Now.cfg)
              /\ Stands(rt'[p], rt[p].started /\ Now.tag = "Start", rt[p].lifecycle, rt[p].retry)
         /\ SendSample =>
              \/ rt' = rt /\ call' = call /\ Then(<<>>)
              \/ /\ Others(p) /\ Sent(p, "Sample", NoPlan)
                 /\ Active(p) /\ ~Busy(p) /\ rt[p].started
                 /\ Stands(rt'[p], rt[p].started, rt[p].lifecycle, rt[p].retry)
         /\ SendProbe =>
              \/ rt' = rt /\ call' = call /\ Busy(p)
              \/ Others(p) /\ Sent(p, "Probe", NoPlan) /\ rt' = rt /\ ~Busy(p)
<1>1. TypeOK /\ rt[p] \in Runtimes
  BY DEF IInv, TypeOK
<1>2. \A x : rt' = [rt EXCEPT ![p] = x] => rt'[p] = x /\ \A q \in Providers \ {p} : rt'[q] = rt[q]
  BY <1>1, RuntimeIs
<1>3. \A op, cfg : call' = NewCall(p, op, cfg) =>
        Sent(p, op, cfg) /\ \A q \in Providers \ {p} : call'[q] = call[q]
  BY <1>1, Calling DEF Sent
<1>4. ASSUME SendStart
      PROVE  /\ Others(p) /\ Sent(p, Now.tag, Now.cfg)
             /\ Stands(rt'[p], rt[p].started /\ Now.tag = "Start", rt[p].lifecycle, rt[p].retry)
  <2> DEFINE v == rt[p].started /\ Now.tag = "Start"
             x == [rt[p] EXCEPT !.started = v]
  <2>1. rt' = [rt EXCEPT ![p] = x] /\ call' = NewCall(p, Now.tag, Now.cfg)
    BY <1>4 DEF SendStart
  <2>2. Stands(x, v, rt[p].lifecycle, rt[p].retry)
    BY <1>1, FieldsStand
  <2> HIDE DEF x, v
  <2>3. Others(p) /\ Sent(p, Now.tag, Now.cfg) /\ Stands(rt'[p], v, rt[p].lifecycle, rt[p].retry)
    BY <1>2, <1>3, <2>1, <2>2 DEF Others
  <2>4. QED
    BY <2>3 DEF v
<1>5. ASSUME SendSample
      PROVE  \/ rt' = rt /\ call' = call /\ Then(<<>>)
             \/ /\ Others(p) /\ Sent(p, "Sample", NoPlan)
                /\ Active(p) /\ ~Busy(p) /\ rt[p].started
                /\ Stands(rt'[p], rt[p].started, rt[p].lifecycle, rt[p].retry)
  <2> DEFINE x == [rt[p] EXCEPT !.sampleDue = FALSE]
  <2>1. \/ rt' = rt /\ call' = call /\ Then(<<>>)
        \/ /\ rt' = [rt EXCEPT ![p] = x] /\ call' = NewCall(p, "Sample", NoPlan)
           /\ Active(p) /\ ~Busy(p) /\ rt[p].started
    BY <1>5 DEF SendSample
  <2>2. Stands(x, rt[p].started, rt[p].lifecycle, rt[p].retry)
    BY <1>1, FieldsStand
  <2> HIDE DEF x
  <2>3. QED
    BY <1>2, <1>3, <2>1, <2>2 DEF Others
<1>6. ASSUME SendProbe
      PROVE  \/ rt' = rt /\ call' = call /\ Busy(p)
             \/ Others(p) /\ Sent(p, "Probe", NoPlan) /\ rt' = rt /\ ~Busy(p)
  <2>1. \/ rt' = rt /\ call' = call /\ Busy(p)
        \/ call' = NewCall(p, "Probe", NoPlan) /\ rt' = rt /\ ~Busy(p)
    BY <1>6 DEF SendProbe
  <2>2. QED
    BY <1>3, <2>1 DEF Others
<1>7. QED
  BY <1>4, <1>5, <1>6

LEMMA AgersTell ==
  ASSUME IInv, NEW p \in Providers, p = Now.of
  PROVE  /\ Renew => /\ Others(p) /\ Ages(call[p], call'[p]) /\ rt' = rt
                     /\ call[p].pending /\ call[p].op # "Probe" => call'[p].stale
         /\ Probe => Others(p) /\ Ages(call[p], call'[p]) /\ rt' = rt
         /\ Apply => \/ Now.cfg = NoPlan /\ rt' = rt /\ call' = call
                     \/ /\ Now.cfg # NoPlan /\ Others(p) /\ Ages(call[p], call'[p])
                        /\ Stands(rt'[p], rt[p].started, rt[p].lifecycle, rt[p].retry)
                        /\ rt'[p].plan = Now.cfg
                        /\ \/ rt[p].plan = Now.cfg /\ ~Now.flag
                           \/ call[p].pending /\ call[p].op # "Probe" => call'[p].stale
<1>1. TypeOK /\ rt[p] \in Runtimes /\ call[p] \in Calls
  BY DEF IInv, TypeOK
<1>2. call' = NewGeneration(p) =>
         /\ \A q \in Providers \ {p} : call'[q] = call[q]
         /\ Ages(call[p], call'[p])
         /\ call[p].pending /\ call[p].op # "Probe" => call'[p].stale
  BY <1>1, Renewing
<1>3. ASSUME Renew
      PROVE  /\ Others(p) /\ Ages(call[p], call'[p]) /\ rt' = rt
             /\ call[p].pending /\ call[p].op # "Probe" => call'[p].stale
  BY <1>2, <1>3 DEF Renew, Others
<1>4. ASSUME Probe
      PROVE  Others(p) /\ Ages(call[p], call'[p]) /\ rt' = rt
  <2> DEFINE v == call[p].stale \/ (call[p].pending /\ call[p].op = "Probe")
             c == [call[p] EXCEPT !.stale = v]
  <2>1. call' = [call EXCEPT ![p] = c] /\ rt' = rt
    BY <1>4 DEF Probe
  <2>2. Ages(call[p], c)
    BY <1>1 DEF Calls, Ages
  <2> HIDE DEF c
  <2>3. QED
    BY <1>1, <2>1, <2>2 DEF Others, TypeOK
<1>5. ASSUME Apply, Now.cfg # NoPlan
      PROVE  /\ Others(p) /\ Ages(call[p], call'[p])
             /\ Stands(rt'[p], rt[p].started, rt[p].lifecycle, rt[p].retry)
             /\ rt'[p].plan = Now.cfg
             /\ \/ rt[p].plan = Now.cfg /\ ~Now.flag
                \/ call[p].pending /\ call[p].op # "Probe" => call'[p].stale
  <2> DEFINE x == [rt[p] EXCEPT !.plan = Now.cfg]
  <2>1. /\ rt' = [rt EXCEPT ![p] = x]
        /\ call' = NewGeneration(p) \/ (call' = call /\ rt[p].plan = Now.cfg /\ ~Now.flag)
    BY <1>5 DEF Apply
  <2>2. Stands(x, rt[p].started, rt[p].lifecycle, rt[p].retry) /\ x.plan = Now.cfg
    BY <1>1 DEF Runtimes, Stands
  <2> HIDE DEF x
  <2>3. rt'[p] = x /\ \A q \in Providers \ {p} : rt'[q] = rt[q]
    BY <1>1, <2>1, RuntimeIs
  <2>4. /\ \A q \in Providers \ {p} : call'[q] = call[q]
        /\ Ages(call[p], call'[p])
        /\ \/ rt[p].plan = Now.cfg /\ ~Now.flag
           \/ call[p].pending /\ call[p].op # "Probe" => call'[p].stale
    BY <1>2, <2>1 DEF Ages
  <2>5. QED
    BY <2>2, <2>3, <2>4 DEF Others
<1>6. ASSUME Apply, Now.cfg = NoPlan
      PROVE  rt' = rt /\ call' = call
  BY <1>6 DEF Apply
<1>7. QED
  BY <1>3, <1>4, <1>5, <1>6

LEMMA SyncTells ==
  ASSUME IInv, Sync
  PROVE  /\ call' = call
         /\ \A p \in Providers :
              /\ Stands(rt'[p], rt[p].started, rt[p].lifecycle, rt[p].retry)
              /\ ~shuttingDown => rt'[p] = rt[p]
<1>1. /\ call' = call /\ TypeOK
      /\ rt' = IF shuttingDown THEN [p \in Providers |-> [rt[p] EXCEPT !.plan = Effective[p]]] ELSE rt
  BY DEF Sync, IInv
<1> SUFFICES ASSUME NEW p \in Providers
             PROVE  /\ Stands(rt'[p], rt[p].started, rt[p].lifecycle, rt[p].retry)
                    /\ ~shuttingDown => rt'[p] = rt[p]
  BY <1>1
<1>2. rt[p] \in Runtimes
  BY <1>1 DEF TypeOK
<1>3. CASE shuttingDown
  <2>1. rt'[p] = [rt[p] EXCEPT !.plan = Effective[p]]
    BY <1>1, <1>3
  <2>2. QED
    BY <1>2, <1>3, <2>1, FieldsStand
<1>4. CASE ~shuttingDown
  BY <1>1, <1>4 DEF Stands
<1>5. QED
  BY <1>3, <1>4

\* The steps that only decide what is done next.
LEMMA DecidersTell ==
  ASSUME Desire \/ ApplyDesired \/ Settle \/ Shed \/ Retry \/ Cleanup
  PROVE  rt' = rt /\ call' = call
BY DEF Desire, ApplyDesired, Settle, Shed, Retry, Cleanup

CleanupStep(p, flag) == StepWith("cleanup", p, NoPlan, "", flag)

LEMMA ReconcileTells ==
  ASSUME IInv, Reconcile, NEW p \in Providers, p = Now.of
  PROVE  /\ Others(p) /\ rt'[p].plan = rt[p].plan
         /\ \/ /\ ~Busy(p) \/ call[p].stage \in {"queued", "running"}
               /\ rt'[p] = rt[p] /\ call'[p] = call[p] /\ Then(<<>>)
            \/ /\ Busy(p) /\ call[p].stage = "dead" /\ Then(<<>>)
               /\ Stands(rt'[p], FALSE, "Failed", IF Enabled(rt[p].plan) THEN "Start" ELSE "None")
               /\ call'[p].stage = "dead" /\ ~call'[p].pending /\ call'[p].op = call[p].op
            \/ /\ Busy(p) /\ call[p].stage = "answered" /\ call[p].op \in Operations
               /\ rt'[p] = LateAnswer(p).rt /\ rt'[p] \in Runtimes
               /\ call'[p].op = "None" /\ call'[p].stage = "idle" /\ ~call'[p].pending
               /\ \/ LateAnswer(p).news /\ Then(<<SyncStep, CleanupStep(p, LateAnswer(p).cleanup)>>)
                  \/ LateAnswer(p).cleanup /\ Then(<<CleanupStep(p, TRUE)>>)
                  \/ ~LateAnswer(p).cleanup /\ ~LateAnswer(p).news /\ Then(<<>>)
<1> DEFINE o == LateAnswer(p)
<1>1. TypeOK /\ rt[p] \in Runtimes /\ call[p] \in Calls
  BY DEF IInv, TypeOK
<1>2. \A x : rt' = [rt EXCEPT ![p] = x] => rt'[p] = x /\ \A q \in Providers \ {p} : rt'[q] = rt[q]
  BY <1>1, RuntimeIs
<1>3. KeepsPlans
  BY ReconcileIs
<1>4. CASE ~call[p].pending \/ call[p].stage \in {"queued", "running"}
  BY <1>3, <1>4 DEF Reconcile, Others, Busy, KeepsPlans
<1>5. CASE call[p].pending /\ call[p].stage = "dead"
  <2> DEFINE r == [(IF Enabled(rt[p].plan) THEN RetryNow(Failed(rt[p]), "Start")
                    ELSE ClearRetry(Failed(rt[p]))) EXCEPT !.started = FALSE]
             c == [call[p] EXCEPT !.pending = FALSE]
  <2>1. Stands(r, FALSE, "Failed", IF Enabled(rt[p].plan) THEN "Start" ELSE "None")
    BY <1>1 DEF Runtimes, RetryNow, Failed, ClearRetry, Stands
  <2>2. rt' = [rt EXCEPT ![p] = r] /\ call' = [call EXCEPT ![p] = c] /\ Then(<<>>)
    BY <1>5 DEF Reconcile
  <2>3. c.stage = "dead" /\ ~c.pending /\ c.op = call[p].op
    BY <1>1, <1>5 DEF Calls
  <2> HIDE DEF r, c
  <2>4. call'[p] = c /\ \A q \in Providers \ {p} : call'[q] = call[q]
    BY <1>1, <2>2 DEF TypeOK
  <2>5. rt'[p] = r /\ \A q \in Providers \ {p} : rt'[q] = rt[q]
    BY <1>2, <2>2
  <2>6. QED
    BY <1>3, <1>5, <2>1, <2>2, <2>3, <2>4, <2>5 DEF Others, Busy, KeepsPlans
<1>6. CASE call[p].pending /\ call[p].stage \notin {"queued", "running", "dead"}
  <2>1. call[p].op # "None" /\ call[p].stage # "idle" /\ call[p].stage \in {"idle", "answered"}
    BY <1>1, <1>6 DEF IInv, CallsInOrder, Accounted, Calls
  <2>2. call[p].stage = "answered" /\ call[p].op \in Operations
    BY <1>1, <2>1 DEF Calls
  <2>3. o.cleanup \in BOOLEAN /\ o.news \in BOOLEAN /\ o.rt \in Runtimes
    BY <1>1, <2>1, LateAnswerIsTyped
  <2>4. /\ rt' = [rt EXCEPT ![p] = o.rt] /\ call' = [call EXCEPT ![p] = NoCall]
        /\ Then((IF o.news THEN <<SyncStep>> ELSE <<>>)
                \o (IF o.news \/ o.cleanup THEN <<CleanupStep(p, o.cleanup)>> ELSE <<>>))
    BY <1>6 DEF Reconcile, CleanupStep
  <2>5. rt'[p] = o.rt /\ \A q \in Providers \ {p} : rt'[q] = rt[q]
    BY <1>2, <2>4
  <2>6. /\ \A q \in Providers \ {p} : call'[q] = call[q]
        /\ call'[p].op = "None" /\ call'[p].stage = "idle" /\ ~call'[p].pending
    BY <1>1, <2>4, Ending
  <2> DEFINE x == CleanupStep(p, o.cleanup)
             y == SyncStep
             cleanup == o.cleanup
             news == o.news
  <2>7. Then((IF news THEN <<y>> ELSE <<>>) \o (IF news \/ cleanup THEN <<x>> ELSE <<>>))
    BY <2>4
  <2>8. cleanup = TRUE => x = CleanupStep(p, TRUE)
    OBVIOUS
  <2>9. cleanup \in BOOLEAN /\ news \in BOOLEAN
    BY <2>3
  <2> HIDE DEF x, y, cleanup, news, o
  <2>10. /\ <<y>> \o <<x>> = <<y, x>> /\ <<>> \o <<x>> = <<x>> /\ <<>> \o <<>> = <<>>
    BY ShortConcats
  <2>11. \/ news /\ Then(<<y, x>>)
         \/ ~news /\ cleanup = TRUE /\ Then(<<x>>)
         \/ ~news /\ cleanup = FALSE /\ Then(<<>>)
    BY <2>7, <2>9, <2>10
  <2>12. \/ o.news /\ Then(<<SyncStep, CleanupStep(p, o.cleanup)>>)
         \/ o.cleanup /\ Then(<<CleanupStep(p, TRUE)>>)
         \/ ~o.cleanup /\ ~o.news /\ Then(<<>>)
    BY <2>8, <2>11 DEF x, y, cleanup, news
  <2>13. Others(p)
    BY <2>5, <2>6 DEF Others
  <2>14. rt'[p].plan = rt[p].plan
    BY <1>3 DEF KeepsPlans
  <2>15. rt'[p] \in Runtimes
    BY <2>3, <2>5
  <2>16. QED
    BY <1>6, <2>2, <2>5, <2>6, <2>12, <2>13, <2>14, <2>15 DEF Busy, o
<1>7. QED
  BY <1>4, <1>5, <1>6

-----------------------------------------------------------------------------
(* The invariant: what is on its way fits what the provider is doing, and  *)
(* a provider that runs without being wanted has its stop on the stack.    *)

\* The steps that drive a provider are only there while nothing is paused, and
\* those that plan for it while nothing shuts down.
Driving == {"attempt", "awaitStart", "shed", "retry", "sample", "awaitSample"}
Planning == {"probe", "sendProbe", "awaitProbe", "desire", "applyDesired", "apply", "settle"}
Timely(x) ==
  /\ x.do \in Driving => ~paused
  /\ x.do \in Driving \union Planning => ~shuttingDown

\* A start is attempted for a plan that is enabled, or the check that sheds the
\* provider if it is not comes afterwards.
Backed ==
  Doing("attempt") \/ Doing("awaitStart") =>
    Enabled(rt[Now.of].plan) \/ \E x \in Under(agenda) : x.do = "shed" /\ x.of = Now.of

Expected(do) ==
  CASE do = "awaitProbe" -> {"Probe"}
    [] do = "awaitStart" -> Starts
    [] do = "awaitSample" -> {"Sample"}
    [] do = "awaitStop" -> {"Stop"}

Fits(p) ==
  /\ Awaited(p) => /\ ~call[p].pending
                   /\ call[p].stage = "dead" \/ call[p].op \in Expected(Now.do)
  /\ Doing("awaitSample") /\ Now.of = p => rt[p].started
  /\ rt[p].lifecycle = "Running" => rt[p].started \/ (Doing("awaitStart") /\ Now.of = p)
  /\ call[p].pending /\ call[p].op \in Starts => rt[p].lifecycle # "Running"
  /\ call[p].pending /\ call[p].op = "Sample" => rt[p].started
  /\ rt[p].started \/ call[p].op \in Starts => rt[p].plan # NoPlan
  /\ ~(call[p].pending /\ call[p].op = "Probe")

Stops(x, p) ==
  /\ x.of = p
  /\ \/ x.do \in {"stop", "awaitStop", "shed", "cleanup"}
     \/ x.do = "settle" /\ (paused \/ ~Enabled(x.cfg))

Owed(p) ==
  ~Active(p) /\ ~Busy(p) /\ rt[p].started => \E x \in Members(agenda) : Stops(x, p)

Intent ==
  ProbesInTime =>
    /\ \A x \in Members(agenda) : Timely(x)
    /\ Backed
    /\ \A p \in Providers : Fits(p) /\ Owed(p)

-----------------------------------------------------------------------------
(* The host keeps it.                                                      *)

LEMMA Stacking ==
  ASSUME IInv, Host
  PROVE  /\ agenda # <<>> /\ Now \in Steps /\ Under(agenda) \subseteq Plain
         /\ Members(agenda) = {Now} \union Under(agenda)
         /\ Under(agenda) \subseteq Members(agenda') /\ Members(agenda') \subseteq Steps
         /\ \E s \in Seq(Steps) :
              /\ Then(s) /\ Pushes(Now.of, s)
              /\ Members(agenda') = Members(s) \union Under(agenda)
              /\ \A x \in Members(s) : Begets(Now.of, x)
              /\ s # <<>> => /\ agenda' # <<>> /\ Head(agenda') = Head(s) /\ Head(s) \in Members(s)
                             /\ Under(agenda') = Under(s) \union Under(agenda)
              /\ s = <<>> => /\ Under(agenda') \subseteq Under(agenda)
                             /\ agenda' # <<>> => Head(agenda') \in Under(agenda)
<1>1. PICK s : Then(s) /\ Pushes(Now.of, s)
  BY HostPushes
<1>2. s \in Seq(Steps) /\ agenda # <<>>
  BY <1>1, PushedSteps, HostDoes
<1>3. Members(s) \subseteq Steps /\ (s # <<>> => Head(s) \in Members(s))
  BY <1>2, MembersOf
<1>4. \A x \in Members(s) : Begets(Now.of, x)
  BY <1>1, Begetting
<1>5. Plain \subseteq Steps
  BY DEF Plain
<1>6. /\ Now \in Steps /\ Under(agenda) \subseteq Plain
      /\ Members(agenda) = {Now} \union Under(agenda)
      /\ Members(agenda') = Members(s) \union Under(agenda)
      /\ s # <<>> => /\ agenda' # <<>> /\ Head(agenda') = Head(s)
                     /\ Under(agenda') = Under(s) \union Under(agenda)
      /\ s = <<>> => /\ Under(agenda') \subseteq Under(agenda)
                     /\ agenda' # <<>> => Head(agenda') \in Under(agenda)
  BY <1>1, <1>2, NewStack
<1>7. QED
  BY <1>1, <1>2, <1>3, <1>4, <1>5, <1>6

\* A wait, or an attempt, comes to the head only as the step that was just left there.
LEMMA NewHead ==
  ASSUME IInv, Host, agenda' # <<>>, Head(agenda').do \in Waits \union {"attempt"}
  PROVE  Begets(Now.of, Head(agenda')) /\ Head(agenda') \in Steps
<1>1. PICK s \in Seq(Steps) :
              /\ Then(s) /\ Pushes(Now.of, s)
              /\ Members(agenda') = Members(s) \union Under(agenda)
              /\ \A x \in Members(s) : Begets(Now.of, x)
              /\ s # <<>> => /\ agenda' # <<>> /\ Head(agenda') = Head(s) /\ Head(s) \in Members(s)
                             /\ Under(agenda') = Under(s) \union Under(agenda)
              /\ s = <<>> => /\ Under(agenda') \subseteq Under(agenda)
                             /\ agenda' # <<>> => Head(agenda') \in Under(agenda)
  BY Stacking
<1>2. Under(agenda) \subseteq Plain
  BY Stacking
<1>3. Head(agenda') \notin Plain
  BY DEF Plain
<1>4. s # <<>>
  BY <1>1, <1>2, <1>3
<1>5. Members(s) \subseteq Steps
  BY MembersOf
<1>6. QED
  BY <1>1, <1>4, <1>5

LEMMA HostKeepsModes == ASSUME Host PROVE UNCHANGED <<slow, paused, shuttingDown, late>>
BY DEF Host, Desire, ApplyDesired, Sync, Renew, Probe, Apply, Settle, Shed, Retry, SendProbe,
       SendStart, SendSample, Stop, AwaitProbe, AwaitStart, AwaitSample, AwaitStop, Reconcile, Cleanup

LEMMA HostIsTimely ==
  ASSUME IInv, Host, \A x \in Members(agenda) : Timely(x)
  PROVE  \A x \in Members(agenda') : Timely(x)'
<1>1. PICK s \in Seq(Steps) : /\ Members(agenda') = Members(s) \union Under(agenda)
                              /\ \A x \in Members(s) : Begets(Now.of, x)
  BY Stacking
<1>2. UNCHANGED <<paused, shuttingDown>> /\ Under(agenda) \subseteq Members(agenda) /\ Timely(Now)
  BY HostKeepsModes, Stacking
<1>3. ASSUME NEW x, Begets(Now.of, x)
      PROVE  Timely(x)
  <2> DEFINE p == Now.of
  <2>0. Now.do \in Driving => ~paused
    BY <1>2 DEF Timely
  <2>1. Now.do \in Driving \union Planning => ~shuttingDown
    BY <1>2 DEF Timely
  <2>2. Active(p) => ~paused /\ ~shuttingDown
    BY DEF Active
  <2>3. x.do \in Driving => ~paused
    <3>1. /\ x.do \notin {"retry", "sample"}
          /\ x.do = "attempt" => (Now.do = "settle" /\ ~paused) \/ (Now.do = "retry" /\ Active(p))
          /\ x.do = "shed" => ~paused
          /\ x.do = "awaitStart" => Now.do = "attempt"
          /\ x.do = "awaitSample" => Active(p)
      BY <1>3 DEF Begets
    <3>2. QED
      BY <2>0, <2>2, <3>1 DEF Driving
  <2>4. x.do \in Driving \union Planning => ~shuttingDown
    <3>1. /\ x.do \notin {"retry", "sample", "probe", "desire", "applyDesired"}
          /\ x.do = "attempt" => (Now.do = "settle" /\ ~paused) \/ (Now.do = "retry" /\ Active(p))
          /\ x.do = "shed" => Now.do = "settle"
          /\ x.do = "awaitStart" => Now.do = "attempt"
          /\ x.do = "awaitSample" => Active(p)
          /\ x.do = "sendProbe" => Now.do = "probe"
          /\ x.do = "awaitProbe" => Now.do = "sendProbe"
          /\ x.do = "settle" => Now.do = "apply"
          /\ x.do = "apply" => Now.do \in {"applyDesired", "sync"} /\ (Now.do = "sync" => ~shuttingDown)
      BY <1>3 DEF Begets
    <3>2. QED
      BY <2>1, <2>2, <3>1 DEF Driving, Planning
  <2>5. QED
    BY <2>3, <2>4 DEF Timely
<1>4. ASSUME NEW x \in Members(agenda')
      PROVE  Timely(x)'
  <2>1. Timely(x)
    BY <1>1, <1>2, <1>3
  <2>2. QED
    BY <1>2, <2>1 DEF Timely
<1>5. QED
  BY <1>4

\* Of a provider the step is not about, nothing changes.
Same(q) ==
  /\ call'[q] = call[q]
  /\ Stands(rt'[q], rt[q].started, rt[q].lifecycle, rt[q].retry)
  /\ rt'[q].plan = rt[q].plan \/ shuttingDown

LEMMA Untouched == ASSUME NEW q, rt'[q] = rt[q], call'[q] = call[q] PROVE Same(q)
BY DEF Same, Stands

LEMMA Bystanders ==
  ASSUME IInv, Host, NEW q \in Providers,
         \/ q # Now.of
         \/ Now.do \in {"sync", "applyDesired", "desire", "settle", "shed", "retry", "cleanup"}
  PROVE  Same(q)
<1>0. Doing(Now.do)
  BY HostDoes
<1>1. CASE Now.do = "sync"
  BY <1>1, HostDoes, SyncTells DEF Same
<1>2. CASE Now.do \in {"applyDesired", "desire", "settle", "shed", "retry", "cleanup"}
  <2>1. rt' = rt /\ call' = call
    BY <1>2, HostDoes, DecidersTell DEF Host, Sync, Renew, Probe, Apply, SendProbe,
       SendStart, SendSample, Stop, AwaitProbe, AwaitStart, AwaitSample, AwaitStop, Reconcile,
       Doing, Now
  <2>2. QED
    BY <2>1, Untouched
<1>3. CASE /\ q # Now.of
           /\ Now.do \notin {"sync", "applyDesired", "desire", "settle", "shed", "retry", "cleanup"}
  <2> DEFINE p == Now.of
  <2>1. p \in Providers
    BY <1>3, Concerned
  <2>2. \/ Renew \/ Probe \/ Apply \/ SendProbe \/ SendStart \/ SendSample \/ Stop
        \/ AwaitProbe \/ AwaitStart \/ AwaitSample \/ AwaitStop \/ Reconcile
    BY <1>3 DEF Host, Desire, ApplyDesired, Sync, Settle, Shed, Retry, Cleanup, Doing, Now
  <2>3. Others(p) \/ (rt' = rt /\ call' = call)
    <3>1. CASE Renew \/ Probe \/ Apply
      BY <2>1, <3>1, AgersTell
    <3>2. CASE SendProbe \/ SendStart \/ SendSample
      BY <2>1, <3>2, SendersTell
    <3>3. CASE Stop
      BY <2>1, <3>3, StopTells
    <3>4. CASE AwaitProbe
      BY <2>1, <3>4, AwaitProbeTells
    <3>5. CASE AwaitStart
      BY <2>1, <3>5, AwaitStartTells
    <3>6. CASE AwaitSample
      BY <2>1, <3>6, AwaitSampleTells
    <3>7. CASE AwaitStop
      BY <2>1, <3>7, AwaitStopTells
    <3>8. CASE Reconcile
      BY <2>1, <3>8, ReconcileTells
    <3>9. QED
      BY <2>2, <3>1, <3>2, <3>3, <3>4, <3>5, <3>6, <3>7, <3>8
  <2>4. rt'[q] = rt[q] /\ call'[q] = call[q]
    BY <1>3, <2>3 DEF Others
  <2>5. QED
    BY <2>4, Untouched
<1>4. QED
  BY <1>1, <1>2, <1>3

\* A provider the step does not touch still fits, unless the step made it wait.
LEMMA SameFits ==
  ASSUME IInv, Host, Growth, NEW q \in Providers, Same(q), Fits(q),
         ~(Awaited(q) /\ Now.do \in {"awaitStart", "awaitSample"}),
         agenda' # <<>> /\ Head(agenda').do \in Waits => Head(agenda').of # q
  PROVE  Fits(q)'
<1>1. ~Awaited(q)' /\ ~(Doing("awaitSample") /\ Now.of = q)' /\ ~(Doing("awaitStart") /\ Now.of = q)'
  BY DEF Awaited, Waits, Doing, Now
<1>2. ~(Doing("awaitStart") /\ Now.of = q)
  BY DEF Awaited, Waits, Doing, Now
<1>3. QED
  BY <1>1, <1>2 DEF Growth, Same, Stands, Fits

\* So does what is owed to it.
LEMMA SameOwed ==
  ASSUME IInv, Host, NEW q \in Providers, Same(q), Owed(q), ~Stops(Now, q)
  PROVE  Owed(q)'
<1>1. UNCHANGED <<paused, shuttingDown>>
  BY HostKeepsModes
<1>2. ~Active(q)' => ~Active(q)
  BY <1>1 DEF Same, Active
<1>3. Busy(q)' <=> Busy(q)
  BY DEF Same, Busy
<1>4. rt'[q].started = rt[q].started
  BY DEF Same, Stands
<1>5. \A x : Stops(x, q)' <=> Stops(x, q)
  BY <1>1 DEF Stops
<1>6. Members(agenda) = {Now} \union Under(agenda) /\ Under(agenda) \subseteq Members(agenda')
  BY Stacking
<1>7. QED
  BY <1>2, <1>3, <1>4, <1>5, <1>6 DEF Owed

LEMMA OwedByTheRest ==
  ASSUME IInv, Host, NEW p \in Providers, Owed(p), ~Stops(Now, p), ~Active(p), ~Busy(p), rt[p].started
  PROVE  Owed(p)'
<1>1. UNCHANGED <<paused, shuttingDown>>
  BY HostKeepsModes
<1>2. \A x : Stops(x, p)' <=> Stops(x, p)
  BY <1>1 DEF Stops
<1>3. Members(agenda) = {Now} \union Under(agenda) /\ Under(agenda) \subseteq Members(agenda')
  BY Stacking
<1>4. QED
  BY <1>2, <1>3 DEF Owed

LEMMA HostKeepsBacked ==
  ASSUME IInv, Host, Backed, \A x \in Members(agenda) : Timely(x)
  PROVE  Backed'
<1> SUFFICES ASSUME agenda' # <<>>, Head(agenda').do \in {"attempt", "awaitStart"}
             PROVE  \/ Enabled(rt'[Head(agenda').of].plan)
                    \/ \E x \in Under(agenda') : x.do = "shed" /\ x.of = Head(agenda').of
  BY DEF Backed, Doing, Now
<1> DEFINE p == Now.of
           h == Head(agenda')
<1>1. Begets(p, h) /\ h \in Steps
  BY NewHead DEF Waits
<1>2. PICK s \in Seq(Steps) :
              /\ Then(s) /\ Pushes(Now.of, s)
              /\ s # <<>> => Under(agenda') = Under(s) \union Under(agenda)
              /\ s = <<>> => (agenda' # <<>> => Head(agenda') \in Under(agenda))
  BY Stacking
<1>3. s # <<>>
  BY <1>2, Stacking DEF Plain, Waits
<1>4. h.of = p /\ p \in Providers
  BY <1>1 DEF Begets, Steps
<1>5. Timely(Now)
  BY Stacking
<1>6. CASE Now.do = "settle"
  <2>1. \/ s = <<>> \/ s = <<StopStep(p, "apply", Now.cfg)>>
        \/ \E action \in {"Start", "Reconfigure"} :
             s = <<AttemptStep(p, Now.cfg, action), SyncStep, Step("shed", p)>>
    BY <1>2, <1>6 DEF Pushes
  <2>2. ASSUME s = <<StopStep(p, "apply", Now.cfg)>>
        PROVE  FALSE
    <3>1. h = StopStep(p, "apply", Now.cfg)
      <4>1. /\ Head(<<StopStep(p, "apply", Now.cfg)>>) = StopStep(p, "apply", Now.cfg)
        OBVIOUS
      <4>2. agenda' = s \o Tail(agenda) /\ agenda # <<>> /\ agenda \in Seq(Steps)
        BY <1>2, HostDoes DEF Then, IInv, CallsInOrder, Stacks
      <4>3. Head(agenda') = Head(s)
        BY <1>2, <1>3, <4>2, NewStack
      <4>4. QED
        BY <2>2, <4>1, <4>3
    <3>2. StopStep(p, "apply", Now.cfg).do = "stop"
      BY DEF StopStep, StepWith
    <3>3. QED
      BY <3>1, <3>2
  <2>3. PICK action : s = <<AttemptStep(p, Now.cfg, action), SyncStep, Step("shed", p)>>
    BY <1>3, <2>1, <2>2
  <2>4. Step("shed", p) \in Under(s)
    <3> DEFINE u == AttemptStep(p, Now.cfg, action)
               w == Step("shed", p)
    <3>1. s = <<u, SyncStep, w>>
      BY <2>3
    <3> HIDE DEF u, w
    <3>2. 3 \in 2 .. Len(s) /\ s[3] = w
      BY <3>1
    <3>3. w \in Under(s)
      BY <3>2 DEF Under
    <3>4. QED
      BY <3>3 DEF w
  <2>5. Step("shed", p).do = "shed" /\ Step("shed", p).of = p
    BY MadeSteps
  <2>6. Step("shed", p) \in Under(agenda')
    BY <1>2, <1>3, <2>4
  <2>7. QED
    BY <1>4, <2>5, <2>6
<1>7. CASE Now.do = "retry"
  <2>1. Active(p)
    BY <1>1, <1>7 DEF Begets
  <2>2. Same(p)
    BY <1>4, <1>7, Bystanders
  <2>3. rt'[p].plan = rt[p].plan /\ Enabled(rt[p].plan)
    BY <2>1, <2>2 DEF Same, Active
  <2>4. QED
    BY <1>4, <2>3
<1>8. CASE Now.do = "attempt"
  <2>1. SendStart
    BY <1>8 DEF Host, Desire, ApplyDesired, Sync, Renew, Probe, Apply, Settle, Shed, Retry, SendProbe,
       SendSample, Stop, AwaitProbe, AwaitStart, AwaitSample, AwaitStop, Reconcile, Cleanup, Doing, Now
  <2>2. rt'[p].plan = rt[p].plan
    BY <1>4, <2>1, SendersKeep DEF KeepsPlans
  <2>3. Enabled(rt[p].plan) \/ \E x \in Under(agenda) : x.do = "shed" /\ x.of = p
    BY <1>8, HostDoes DEF Backed, Doing, Now
  <2>4. QED
    BY <1>2, <1>3, <1>4, <2>2, <2>3
<1>9. QED
  BY <1>1, <1>6, <1>7, <1>8 DEF Begets

LEMMA AgedFits ==
  ASSUME Growth, NEW p \in Providers, Fits(p), ~Awaited(p), ~Awaited(p)', Ages(call[p], call'[p]),
         rt'[p].started = rt[p].started, rt'[p].lifecycle \in {rt[p].lifecycle, "Failed", "Stopped", "Paused"}
  PROVE  Fits(p)'
<1>1. /\ ~(Doing("awaitSample") /\ Now.of = p)' /\ ~(Doing("awaitStart") /\ Now.of = p)'
      /\ ~(Doing("awaitStart") /\ Now.of = p)
  BY DEF Awaited, Waits, Doing, Now
<1>2. QED
  BY <1>1 DEF Growth, Ages, Fits

LEMMA SentFits ==
  ASSUME Growth, NEW p \in Providers, Fits(p), ~Awaited(p), ~call[p].pending,
         NEW op, NEW cfg, Sent(p, op, cfg), rt'[p].lifecycle = rt[p].lifecycle,
         op \in Starts => rt[p].plan # NoPlan,
         rt'[p].started \in {rt[p].started, FALSE},
         rt'[p].started = rt[p].started \/ (Doing("awaitStart") /\ Now.of = p)',
         Awaited(p)' => op \in Expected(Head(agenda').do),
         (Doing("awaitSample") /\ Now.of = p)' => rt'[p].started
  PROVE  Fits(p)'
<1>1. ~(Doing("awaitStart") /\ Now.of = p)
  BY DEF Awaited, Waits, Doing, Now
<1>2. ~call'[p].pending
  BY DEF Sent
<1>3. call'[p].stage = "dead" \/ call'[p].op = op
  BY DEF Sent
<1>4. call'[p].op = call[p].op \/ call'[p].op = op
  BY DEF Sent
<1>5. rt[p].plan # NoPlan => rt'[p].plan # NoPlan
  BY DEF Growth
<1>6. QED
  BY <1>1, <1>2, <1>3, <1>4, <1>5 DEF Fits, Now

LEMMA OverFits ==
  ASSUME IInv, Growth, NEW p \in Providers, Fits(p), Awaited(p), ~Awaited(p)', Over(p),
         rt'[p].lifecycle = "Running" => rt'[p].started,
         rt'[p].started => rt[p].plan # NoPlan,
         TimesOut(p) => /\ call[p].op # "Probe"
                        /\ call[p].op \in Starts => rt'[p].lifecycle # "Running"
                        /\ call[p].op = "Sample" => rt'[p].started
  PROVE  Fits(p)'
<1>1. /\ ~(Doing("awaitSample") /\ Now.of = p)'
  BY DEF Awaited, Waits, Doing, Now
<1>2. rt[p].plan # NoPlan => rt'[p].plan # NoPlan
  BY DEF Growth
<1>3. ~call[p].pending
  BY DEF Fits
<1>4. CASE Answered(p) /\ call'[p].op = "None" /\ ~call'[p].pending
  <2>1. call'[p].op \notin Starts
    BY <1>4 DEF Starts
  <2>2. QED
    BY <1>1, <1>2, <1>4, <2>1 DEF Fits
<1>5. CASE call'[p] = call[p]
  BY <1>1, <1>2, <1>3, <1>5 DEF Fits
<1>6. CASE TimesOut(p) /\ call'[p].op = call[p].op
  BY <1>1, <1>2, <1>6 DEF Fits
<1>7. QED
  BY <1>4, <1>5, <1>6 DEF Over

\* The head of the stack tells which step the host takes.
LEMMA TheStep ==
  ASSUME Host
  PROVE  /\ Now.do = "renew" => Renew
         /\ Now.do = "probe" => Probe
         /\ Now.do = "settle" => Settle
         /\ Now.do = "sendProbe" => SendProbe
         /\ Now.do = "attempt" => SendStart
         /\ Now.do = "sample" => SendSample
         /\ Now.do = "stop" => Stop
         /\ Now.do = "awaitProbe" => AwaitProbe
         /\ Now.do = "awaitStart" => AwaitStart
         /\ Now.do = "awaitSample" => AwaitSample
         /\ Now.do = "awaitStop" => AwaitStop
         /\ Now.do = "reconcile" => Reconcile
BY DEF Host, Now, Doing, Desire, ApplyDesired, Sync, Renew, Probe, Apply, Settle, Shed, Retry, SendProbe,
       SendStart, SendSample, Stop, AwaitProbe, AwaitStart, AwaitSample, AwaitStop, Reconcile, Cleanup

\* After a step, the host waits only for what that step has just sent.
LEMMA WaitsAreSent ==
  ASSUME IInv, Host, agenda' # <<>>, Head(agenda').do \in Waits
  PROVE  /\ Head(agenda').of = Now.of /\ Now.of \in Providers
         /\ \/ Now.do = "sendProbe" /\ Head(agenda').do = "awaitProbe" /\ ~Busy(Now.of)
            \/ Now.do = "attempt" /\ Head(agenda').do = "awaitStart"
            \/ /\ Now.do = "sample" /\ Head(agenda').do = "awaitSample"
               /\ Active(Now.of) /\ ~Busy(Now.of) /\ rt[Now.of].started
            \/ /\ Now.do = "stop" /\ Head(agenda').do = "awaitStop"
               /\ ~Busy(Now.of) /\ rt[Now.of].started
<1>1. Begets(Now.of, Head(agenda')) /\ Head(agenda') \in Steps
  BY NewHead
<1>2. QED
  BY <1>1 DEF Begets, Steps, Waits

LEMMA NoWaitAfterNothing ==
  ASSUME IInv, Host, Then(<<>>)
  PROVE  agenda' # <<>> => Head(agenda').do \notin Waits
<1>1. agenda # <<>> /\ Under(agenda) \subseteq Plain
  BY Stacking
<1>2. agenda' # <<>> => Head(agenda') \in Under(agenda)
  <2> DEFINE s == <<>>
  <2>1. s \in Seq(Steps) /\ Then(s) /\ s = <<>>
    OBVIOUS
  <2> HIDE DEF s
  <2>2. QED
    BY <1>1, <2>1, NewStack
<1>3. QED
  BY <1>1, <1>2 DEF Plain

LEMMA AttemptLeavesItsWait ==
  ASSUME IInv, Host, Now.do = "attempt"
  PROVE  agenda' # <<>> /\ Head(agenda').do = "awaitStart" /\ Head(agenda').of = Now.of
<1>1. PICK s \in Seq(Steps) :
              /\ Pushes(Now.of, s)
              /\ s # <<>> => agenda' # <<>> /\ Head(agenda') = Head(s)
  BY Stacking
<1> DEFINE x == StepWith("awaitStart", Now.of, NoPlan, Now.tag, FALSE)
<1>2. s = <<x>>
  BY <1>1 DEF Pushes, Leaves
<1>3. x.do = "awaitStart" /\ x.of = Now.of
  BY DEF StepWith
<1> HIDE DEF x
<1>4. s # <<>> /\ Head(s) = x
  BY <1>2
<1>5. QED
  BY <1>1, <1>3, <1>4

\* The senders.
LEMMA SendersFit ==
  ASSUME IInv, Host, Growth, NEW p \in Providers, p = Now.of, Fits(p), Wished(Now),
         Now.do \in {"sendProbe", "attempt", "sample", "stop"}
  PROVE  Fits(p)'
<1>1. ~Awaited(p)
  BY DEF Awaited, Waits, Now
<1>2. CASE Now.do = "sendProbe"
  <2>1. SendProbe
    BY <1>2, TheStep
  <2>2. \/ rt' = rt /\ call' = call /\ Busy(p)
        \/ Sent(p, "Probe", NoPlan) /\ rt' = rt /\ ~Busy(p)
    BY <2>1, SendersTell
  <2>3. agenda' # <<>> /\ Head(agenda').do \in Waits => Head(agenda').do = "awaitProbe" /\ ~Busy(p)
    BY <1>2, WaitsAreSent
  <2>4. CASE rt' = rt /\ call' = call /\ Busy(p)
    <3>1. ~Awaited(p)' /\ Same(p)
      BY <2>3, <2>4, Untouched DEF Awaited
    <3>2. QED
      BY <1>1, <2>3, <2>4, <3>1, SameFits
  <2>5. CASE Sent(p, "Probe", NoPlan) /\ rt' = rt /\ ~Busy(p)
    <3>1. Awaited(p)' => "Probe" \in Expected(Head(agenda').do)
      BY <2>3 DEF Awaited, Expected
    <3>2. ~(Doing("awaitSample") /\ Now.of = p)'
      BY <2>3 DEF Doing, Now, Waits
    <3>3. "Probe" \notin Starts /\ ~call[p].pending
      BY <2>5 DEF Starts, Busy
    <3>4. QED
      BY <1>1, <2>5, <3>1, <3>2, <3>3, SentFits
  <2>6. QED
    BY <2>2, <2>4, <2>5
<1>3. CASE Now.do = "attempt"
  <2>1. SendStart
    BY <1>3, TheStep
  <2>2. Sent(p, Now.tag, Now.cfg) /\ Stands(rt'[p], rt[p].started /\ Now.tag = "Start", rt[p].lifecycle, rt[p].retry)
    BY <2>1, SendersTell
  <2>3. agenda' # <<>> /\ Head(agenda').do = "awaitStart" /\ Head(agenda').of = p
    BY <1>3, AttemptLeavesItsWait
  <2>4. Now.tag \in Starts /\ ~call[p].pending /\ rt[p].plan # NoPlan /\ rt[p].started \in BOOLEAN
    <3>1. Now.tag \in Starts /\ rt[p] \in Runtimes
      BY <1>3, Concerned
    <3>2. ~call[p].pending
      BY <1>3, HostDoes DEF IInv, CallsInOrder, Doing, Now
    <3>3. QED
      BY <1>3, <3>1, <3>2 DEF Wished, Runtimes
  <2>5. rt'[p].started \in {rt[p].started, FALSE} /\ rt'[p].lifecycle = rt[p].lifecycle
    BY <2>2, <2>4 DEF Stands
  <2>6. (Doing("awaitStart") /\ Now.of = p)' /\ ~(Doing("awaitSample") /\ Now.of = p)'
    BY <2>3 DEF Doing, Now
  <2>7. Now.tag \in Expected(Head(agenda').do)
    BY <2>3, <2>4 DEF Expected
  <2>8. QED
    BY <1>1, <2>2, <2>4, <2>5, <2>6, <2>7, SentFits
<1>4. CASE Now.do = "sample"
  <2>1. SendSample
    BY <1>4, TheStep
  <2>2. \/ rt' = rt /\ call' = call /\ Then(<<>>)
        \/ /\ Sent(p, "Sample", NoPlan) /\ ~Busy(p) /\ rt[p].started
           /\ Stands(rt'[p], rt[p].started, rt[p].lifecycle, rt[p].retry)
    BY <2>1, SendersTell
  <2>3. CASE rt' = rt /\ call' = call /\ Then(<<>>)
    <3>1. Same(p) /\ (agenda' # <<>> => Head(agenda').do \notin Waits)
      BY <2>3, Untouched, NoWaitAfterNothing
    <3>2. QED
      BY <1>1, <3>1, SameFits
  <2>4. CASE /\ Sent(p, "Sample", NoPlan) /\ ~Busy(p) /\ rt[p].started
             /\ Stands(rt'[p], rt[p].started, rt[p].lifecycle, rt[p].retry)
    <3>1. agenda' # <<>> /\ Head(agenda').do \in Waits => Head(agenda').do = "awaitSample"
      BY <1>4, WaitsAreSent
    <3>2. Awaited(p)' => "Sample" \in Expected(Head(agenda').do)
      BY <3>1 DEF Awaited, Expected
    <3>3. "Sample" \notin Starts /\ ~call[p].pending
      BY <2>4 DEF Starts, Busy
    <3>4. rt'[p].started = rt[p].started /\ rt'[p].lifecycle = rt[p].lifecycle
      BY <2>4 DEF Stands
    <3>5. QED
      BY <1>1, <2>4, <3>2, <3>3, <3>4, SentFits
  <2>5. QED
    BY <2>2, <2>3, <2>4
<1>5. CASE Now.do = "stop"
  <2>0. Stop
    BY <1>5, TheStep
  <2>1. agenda' # <<>> /\ Head(agenda').do \in Waits =>
          Head(agenda').do = "awaitStop" /\ ~Busy(p) /\ rt[p].started
    BY <1>5, WaitsAreSent
  <2>2. Busy(p) \/ ~rt[p].started => ~Awaited(p)'
    BY <2>1 DEF Awaited
  <2>3. CASE /\ Busy(p) /\ Ages(call[p], call'[p]) /\ rt'[p].started = rt[p].started
             /\ rt'[p].lifecycle # "Running"
    <3>1. ~(Doing("awaitSample") /\ Now.of = p)'
      BY <2>1 DEF Doing, Now, Waits
    <3>2. QED
      BY <1>1, <2>2, <2>3, <3>1 DEF Fits, Ages, Growth
  <2>4. CASE /\ ~Busy(p) /\ ~rt[p].started /\ call'[p] = call[p] /\ ~rt'[p].started
             /\ rt'[p].lifecycle \in {rt[p].lifecycle, "Stopped", "Paused", "Failed"}
    <3>1. ~(Doing("awaitSample") /\ Now.of = p)' /\ ~(Doing("awaitStart") /\ Now.of = p)
      BY <1>5, <2>1 DEF Doing, Now, Waits
    <3>2. QED
      BY <1>1, <2>2, <2>4, <3>1 DEF Fits, Growth
  <2>5. CASE /\ ~Busy(p) /\ call'[p] = call[p] /\ ~rt'[p].started
             /\ rt'[p].lifecycle # "Running" /\ Then(<<>>)
    <3>1. agenda' # <<>> => Head(agenda').do \notin Waits
      BY <2>5, NoWaitAfterNothing
    <3>2. ~(Doing("awaitSample") /\ Now.of = p)' /\ ~Awaited(p)'
      BY <3>1 DEF Doing, Now, Waits, Awaited
    <3>3. QED
      BY <1>1, <2>5, <3>2 DEF Fits, Growth, Busy
  <2>6. CASE /\ ~Busy(p) /\ rt[p].started /\ Sent(p, "Stop", NoPlan)
             /\ rt'[p].started /\ rt'[p].lifecycle = rt[p].lifecycle
    <3>1. Awaited(p)' => "Stop" \in Expected(Head(agenda').do)
      BY <2>1 DEF Awaited, Expected
    <3>2. "Stop" \notin Starts /\ ~call[p].pending
      BY <2>6 DEF Starts, Busy
    <3>3. rt[p].started \in BOOLEAN /\ rt'[p].started \in BOOLEAN
      <4>1. rt[p] \in Runtimes /\ rt'[p] \in Runtimes
        BY <2>0, StopKeeps DEF IInv, TypeOK
      <4>2. QED
        BY <4>1 DEF Runtimes
    <3>4. rt'[p].started = rt[p].started
      BY <2>6, <3>3
    <3>5. QED
      BY <1>1, <2>6, <3>1, <3>2, <3>4, SentFits
  <2>7. QED
    BY <2>0, <2>3, <2>4, <2>5, <2>6, StopTells
<1>6. QED
  BY <1>2, <1>3, <1>4, <1>5

\* The ends of the waits.
LEMMA AwaitersFit ==
  ASSUME IInv, Host, Growth, ProbesInTime, NEW p \in Providers, p = Now.of, Fits(p), Wished(Now),
         Timely(Now), Now.do \in Waits
  PROVE  Fits(p)'
<1>1. Awaited(p) /\ ~Awaited(p)'
  <2>1. agenda # <<>>
    BY HostDoes
  <2>2. ~(agenda' # <<>> /\ Head(agenda').do \in Waits)
    BY WaitsAreSent DEF Waits
  <2>3. QED
    BY <2>1, <2>2 DEF Awaited, Now
<1>2. TimesOut(p) => call[p].op \in Expected(Now.do) /\ ~Answered(p)
  BY <1>1 DEF Fits, TimesOut, Answered
<1>3. CASE Now.do = "awaitProbe"
  <2>1. AwaitProbe
    BY <1>3, TheStep
  <2>2. /\ Over(p)
        /\ \/ Stands(rt'[p], rt[p].started, IF rt[p].started THEN rt[p].lifecycle ELSE "Stopped",
                     rt[p].retry)
           \/ Stands(rt'[p], rt[p].started, "Failed", "None")
    BY <2>1, AwaitProbeTells
  <2>3. /\ rt'[p].started = rt[p].started
        /\ rt'[p].lifecycle = "Running" => rt[p].started
    BY <2>2 DEF Stands
  <2>4. rt'[p].started => rt[p].plan # NoPlan
    BY <2>3 DEF Fits
  <2>5. ~TimesOut(p)
    <3>1. TimesOut(p) => call[p].op = "Probe"
      BY <1>2, <1>3 DEF Expected
    <3>2. ~shuttingDown
      BY <1>3 DEF Timely, Planning
    <3>3. QED
      BY <3>1, <3>2 DEF TimesOut, ProbesInTime
  <2>6. QED
    BY <1>1, <2>2, <2>3, <2>4, <2>5, OverFits
<1>4. CASE Now.do = "awaitStart"
  <2>1. AwaitStart
    BY <1>4, TheStep
  <2>2. /\ Over(p)
        /\ \/ Answered(p) /\ Stands(rt'[p], TRUE, "Running", "None")
           \/ Stands(rt'[p], FALSE, "Failed", Now.tag)
    BY <2>1, AwaitStartTells
  <2>3. /\ rt'[p].lifecycle = "Running" => rt'[p].started
        /\ TimesOut(p) => rt'[p].lifecycle # "Running"
    BY <1>2, <2>2 DEF Stands
  <2>4. rt'[p].started => rt[p].plan # NoPlan
    BY <1>4 DEF Wished
  <2>5. TimesOut(p) => call[p].op \in Starts
    BY <1>2, <1>4 DEF Expected
  <2>6. "Probe" \notin Starts /\ "Sample" \notin Starts
    BY DEF Starts
  <2>7. QED
    BY <1>1, <2>2, <2>3, <2>4, <2>5, <2>6, OverFits
<1>5. CASE Now.do = "awaitSample"
  <2>1. AwaitSample
    BY <1>5, TheStep
  <2>2. rt[p].started
    BY <1>1, <1>5 DEF Fits, Awaited, Doing, Now
  <2>3. /\ Over(p)
        /\ \/ Stands(rt'[p], rt[p].started, "Running", rt[p].retry)
           \/ Answered(p) /\ Stands(rt'[p], FALSE, "Failed", "Reconfigure")
           \/ Stands(rt'[p], rt[p].started, "Failed", rt[p].retry)
    BY <2>1, AwaitSampleTells
  <2>4. /\ rt'[p].lifecycle = "Running" => rt'[p].started
        /\ TimesOut(p) => rt'[p].started
    BY <1>2, <2>2, <2>3 DEF Stands
  <2>5. TimesOut(p) => call[p].op = "Sample"
    BY <1>2, <1>5 DEF Expected
  <2>6. "Sample" \notin Starts
    BY DEF Starts
  <2>7. rt[p].plan # NoPlan
    BY <2>2 DEF Fits
  <2>8. QED
    BY <1>1, <2>3, <2>4, <2>5, <2>6, <2>7, OverFits
<1>6. CASE Now.do = "awaitStop"
  <2>1. AwaitStop
    BY <1>6, TheStep
  <2>2. Over(p) /\ ~rt'[p].started /\ rt'[p].lifecycle # "Running"
    BY <2>1, AwaitStopTells
  <2>3. TimesOut(p) => call[p].op = "Stop"
    BY <1>2, <1>6 DEF Expected
  <2>4. QED
    BY <1>1, <2>2, <2>3, OverFits
<1>7. QED
  BY <1>3, <1>4, <1>5, <1>6 DEF Waits

\* A late answer to a call the host gave up on.
LEMMA ReconcileFits ==
  ASSUME IInv, Host, Growth, NEW p \in Providers, p = Now.of, Fits(p), Now.do = "reconcile"
  PROVE  Fits(p)'
<1>1. Reconcile
  BY TheStep
<1>2. ~Awaited(p) /\ ~Awaited(p)' /\ ~(Doing("awaitSample") /\ Now.of = p)' /\ ~(Doing("awaitStart") /\ Now.of = p)
  <2>1. agenda' # <<>> => Head(agenda').do \notin Waits
    BY WaitsAreSent
  <2>2. QED
    BY <2>1 DEF Awaited, Waits, Doing, Now
<1>3. rt[p].plan # NoPlan => rt'[p].plan # NoPlan
  BY DEF Growth
<1>4. CASE rt'[p] = rt[p] /\ call'[p] = call[p]
  BY <1>2, <1>4 DEF Fits
<1>5. CASE /\ ~call'[p].pending /\ call'[p].op = call[p].op
           /\ Stands(rt'[p], FALSE, "Failed", IF Enabled(rt[p].plan) THEN "Start" ELSE "None")
  BY <1>2, <1>3, <1>5 DEF Fits, Stands
<1>6. CASE /\ Busy(p) /\ call[p].op \in Operations /\ rt'[p] = LateAnswer(p).rt
           /\ call'[p].op = "None" /\ ~call'[p].pending
  <2> DEFINE o == LateAnswer(p)
  <2>0. /\ call[p].pending /\ TypeOK /\ rt'[p] = o.rt /\ call[p].op # "Probe"
        /\ rt[p].started \in BOOLEAN
    BY <1>6 DEF IInv, Busy, Fits, TypeOK, Runtimes
  <2>1. call[p].op \in {"Sample", "Stop"} \union Starts
    BY <1>6, <2>0 DEF Operations, Starts
  <2>2. ASSUME /\ o.rt.lifecycle = "Running" => o.rt.started
               /\ o.rt.started => rt[p].plan # NoPlan
        PROVE  Fits(p)'
    <3>1. call'[p].op \notin Starts
      BY <1>6 DEF Starts
    <3>2. QED
      BY <1>2, <1>3, <1>6, <2>0, <2>2, <3>1 DEF Fits
  <2>3. CASE call[p].op = "Sample"
    <3>1. o = LateSample(p)
      BY <2>3 DEF LateAnswer
    <3>2. rt[p].started
      BY <2>0, <2>3 DEF Fits
    <3> HIDE DEF o
    <3>3. \/ o.rt = rt[p]
          \/ Stands(o.rt, rt[p].started, "Running", rt[p].retry)
          \/ Stands(o.rt, rt[p].started, rt[p].lifecycle, rt[p].retry)
          \/ Stands(o.rt, rt[p].started /\ call[p].result # "lost", "Failed",
                    IF call[p].result = "lost" THEN "Reconfigure" ELSE rt[p].retry)
      BY <2>0, <3>1, LateSampleStands
    <3>4. /\ o.rt.lifecycle = "Running" => o.rt.started
          /\ o.rt.started => rt[p].started
      BY <3>2, <3>3 DEF Stands
    <3>5. QED
      BY <2>2, <3>2, <3>4 DEF Fits
  <2>4. CASE call[p].op \in Starts
    <3>1. o = LateStart(p)
      BY <2>4 DEF LateAnswer, Starts
    <3>2. rt[p].plan # NoPlan /\ rt[p].lifecycle # "Running"
      BY <2>0, <2>4 DEF Fits
    <3> HIDE DEF o
    <3>3. \/ o.rt.started = TRUE
          \/ o.rt.started = FALSE /\ o.rt.lifecycle \in {rt[p].lifecycle, "Failed", "Stopped", "Paused"}
      BY <2>0, <3>1, LateStartStands
    <3>4. QED
      BY <2>2, <3>2, <3>3
  <2>5. CASE call[p].op = "Stop"
    <3>1. o = LateStop(p)
      BY <2>5 DEF LateAnswer
    <3> HIDE DEF o
    <3>2. o.rt.started = FALSE /\ o.rt.lifecycle \in {"Failed", "Stopped", "Paused"}
      BY <2>0, <3>1, LateStopStands
    <3>3. QED
      BY <2>2, <3>2
  <2>6. QED
    BY <2>1, <2>3, <2>4, <2>5
<1>7. QED
  BY <1>1, <1>4, <1>5, <1>6, ReconcileTells

LEMMA HostFits ==
  ASSUME IInv, Host, Chosen, ProbesInTime, \A x \in Members(agenda) : Timely(x),
         NEW q \in Providers, Fits(q)
  PROVE  Fits(q)'
<1>1. Growth
  BY PlansGrow
<1>2. Now \in Members(agenda)
  BY Stacking
<1>3. Wished(Now) /\ Timely(Now)
  BY <1>2 DEF Chosen
<1>4. CASE \/ q # Now.of
           \/ Now.do \in {"sync", "applyDesired", "desire", "settle", "shed", "retry", "cleanup"}
  <2>1. Same(q)
    BY <1>4, Bystanders
  <2>2. ~(Awaited(q) /\ Now.do \in {"awaitStart", "awaitSample"})
    BY <1>4 DEF Awaited, Now
  <2>3. agenda' # <<>> /\ Head(agenda').do \in Waits => Head(agenda').of # q
    BY <1>4, WaitsAreSent
  <2>4. QED
    BY <1>1, <2>1, <2>2, <2>3, SameFits
<1>5. CASE q = Now.of /\ Now.do \in {"renew", "probe", "apply"}
  <2>1. Renew \/ Probe \/ Apply
    BY <1>5, TheStep, HostDoes
  <2>2. ~Awaited(q) /\ (agenda' # <<>> => Head(agenda').do \notin Waits)
    BY <1>5, WaitsAreSent DEF Awaited, Waits, Now
  <2>3. \/ Ages(call[q], call'[q]) /\ Stands(rt'[q], rt[q].started, rt[q].lifecycle, rt[q].retry)
        \/ Ages(call[q], call'[q]) /\ rt' = rt
        \/ rt' = rt /\ call' = call
    BY <1>5, <2>1, AgersTell
  <2>4. /\ Ages(call[q], call'[q]) /\ rt'[q].started = rt[q].started /\ rt'[q].lifecycle = rt[q].lifecycle
    BY <2>3 DEF Stands, Ages
  <2>5. ~Awaited(q)'
    BY <2>2 DEF Awaited
  <2>6. QED
    BY <1>1, <2>2, <2>4, <2>5, AgedFits
<1>6. CASE q = Now.of /\ Now.do \in {"sendProbe", "attempt", "sample", "stop"}
  BY <1>1, <1>3, <1>6, SendersFit
<1>7. CASE q = Now.of /\ Now.do \in Waits
  BY <1>1, <1>3, <1>7, AwaitersFit
<1>8. CASE q = Now.of /\ Now.do = "reconcile"
  BY <1>1, <1>8, ReconcileFits
<1>9. Now \in Steps
  BY Stacking
<1>10. QED
  BY <1>4, <1>5, <1>6, <1>7, <1>8, <1>9 DEF Steps

\* A step that leaves the stop of the provider behind.
LEMMA StopLeft ==
  ASSUME IInv, Host, NEW p \in Providers, NEW x, x \in Members(agenda'), Stops(x, p)'
  PROVE  Owed(p)'
BY DEF Owed

LEMMA PushedOne ==
  ASSUME IInv, Host, NEW x \in Steps, Then(<<x>>)
  PROVE  x \in Members(agenda')
<1>1. <<x>> \in Seq(Steps) /\ Members(<<x>>) = {x}
  <2>1. Members(<<x>>) = {x}
    BY ShortMembers
  <2>2. QED
    BY <2>1
<1>2. agenda # <<>>
  BY HostDoes
<1> DEFINE s == <<x>>
<1>3. s \in Seq(Steps) /\ Members(s) = {x} /\ Then(s)
  BY <1>1
<1> HIDE DEF s
<1>4. Members(agenda') = Members(s) \union Under(agenda)
  BY <1>2, <1>3, NewStack
<1>5. QED
  BY <1>3, <1>4

LEMMA PushedSecond ==
  ASSUME IInv, Host, NEW x \in Steps, NEW y \in Steps, Then(<<x, y>>)
  PROVE  y \in Members(agenda')
<1>1. <<x, y>> \in Seq(Steps) /\ Members(<<x, y>>) = {x, y}
  <2>1. Members(<<x, y>>) = {x, y}
    BY PairMembers, Zenon
  <2>2. QED
    BY <2>1
<1>2. agenda # <<>>
  BY HostDoes
<1> DEFINE s == <<x, y>>
<1>3. s \in Seq(Steps) /\ Members(s) = {x, y} /\ Then(s)
  BY <1>1
<1> HIDE DEF s
<1>4. Members(agenda') = Members(s) \union Under(agenda)
  BY <1>2, <1>3, NewStack
<1>5. QED
  BY <1>3, <1>4

LEMMA PushedThird ==
  ASSUME IInv, Host, NEW x \in Steps, NEW y \in Steps, NEW z \in Steps, Then(<<x, y, z>>)
  PROVE  z \in Members(agenda')
<1>1. <<x, y, z>> \in Seq(Steps) /\ Len(<<x, y, z>>) = 3 /\ <<x, y, z>>[3] = z
  OBVIOUS
<1>2. agenda # <<>>
  BY HostDoes
<1> DEFINE s == <<x, y, z>>
<1>3. s \in Seq(Steps) /\ Len(s) = 3 /\ s[3] = z /\ Then(s)
  BY <1>1
<1> HIDE DEF s
<1>4. Members(agenda') = Members(s) \union Under(agenda)
  BY <1>2, <1>3, NewStack
<1>5. z \in Members(s)
  <2>1. 3 \in 1 .. Len(s)
    BY <1>3
  <2>2. QED
    BY <1>3, <2>1 DEF Members
<1>6. QED
  BY <1>4, <1>5

\* The steps that decide: a stop that is due is left on the stack.
LEMMA DecidersOwe ==
  ASSUME IInv, Host, NEW p \in Providers, p = Now.of, Fits(p), Owed(p), Timely(Now),
         Now.do \in {"desire", "settle", "shed", "retry", "cleanup"}
  PROVE  Owed(p)'
<1>1. UNCHANGED <<paused, shuttingDown>> /\ Same(p)
  BY HostKeepsModes, Bystanders
<1>2. PICK s \in Seq(Steps) : Then(s) /\ Pushes(p, s)
  BY Stacking
<1>3. Now.cfg \in Plans /\ NoPlan \in Plans
  BY Concerned, NoPlanIsAPlan
<1>4. CASE ~Stops(Now, p)
  BY <1>1, <1>4, SameOwed
<1>5. CASE Now.do = "settle" /\ (paused \/ ~Enabled(Now.cfg))
  <2> DEFINE x == StopStep(p, "apply", Now.cfg)
  <2>1. Then(<<x>>)
    BY <1>2, <1>5 DEF Pushes, Leaves
  <2>2. x \in Steps /\ x.do = "stop" /\ x.of = p
    <3>1. "apply" \in Whys
      BY DEF Whys
    <3>2. x \in Steps
      BY <1>3, <3>1, SmallSteps
    <3>3. QED
      BY <3>2 DEF StopStep, StepWith
  <2> HIDE DEF x
  <2>3. QED
    BY <2>1, <2>2, PushedOne, StopLeft DEF Stops
<1>6. CASE Now.do = "shed"
  <2>1. CASE s = <<>>
    <3>1. ~(rt[p].started /\ rt[p].plan # NoPlan /\ ~Enabled(rt[p].plan))
      BY <1>2, <1>6, <2>1, ShortSeqs DEF Pushes, Leaves
    <3>2. ~paused /\ ~shuttingDown
      BY <1>6 DEF Timely, Driving
    <3>3. rt[p].started => Active(p)
      BY <3>1, <3>2 DEF Active, Fits
    <3>4. QED
      BY <1>1, <3>2, <3>3 DEF Owed, Same, Stands, Active
  <2>2. CASE s # <<>>
    <3> DEFINE x == StopStep(p, "shed", NoPlan)
    <3>1. Then(<<x>>)
      BY <1>2, <1>6, <2>2 DEF Pushes, Leaves
    <3>2. x \in Steps /\ x.do = "stop" /\ x.of = p
      <4>1. "shed" \in Whys
        BY DEF Whys
      <4>2. x \in Steps
        BY <1>3, <4>1, SmallSteps
      <4>3. QED
        BY <4>2 DEF StopStep, StepWith
    <3> HIDE DEF x
    <3>3. QED
      BY <3>1, <3>2, PushedOne, StopLeft DEF Stops
  <2>3. QED
    BY <2>1, <2>2
<1>7. CASE Now.do = "cleanup"
  <2>1. CASE s = <<>>
    <3>1. ~(rt[p].started /\ ~Active(p))
      BY <1>2, <1>7, <2>1, ShortSeqs DEF Pushes, Leaves
    <3>2. QED
      BY <1>1, <3>1 DEF Owed, Same, Stands, Active
  <2>2. CASE s # <<>>
    <3> DEFINE x == StopStep(p, "cleanup", NoPlan)
    <3>1. Then(<<x>>)
      BY <1>2, <1>7, <2>2 DEF Pushes, Leaves
    <3>2. x \in Steps /\ x.do = "stop" /\ x.of = p
      <4>1. "cleanup" \in Whys
        BY DEF Whys
      <4>2. x \in Steps
        BY <1>3, <4>1, SmallSteps
      <4>3. QED
        BY <4>2 DEF StopStep, StepWith
    <3> HIDE DEF x
    <3>3. QED
      BY <3>1, <3>2, PushedOne, StopLeft DEF Stops
  <2>3. QED
    BY <2>1, <2>2
<1>8. QED
  BY <1>4, <1>5, <1>6, <1>7 DEF Stops

\* The steps that send, or move a generation on.
LEMMA SendersOwe ==
  ASSUME IInv, Host, NEW p \in Providers, p = Now.of, Fits(p), Owed(p), Timely(Now),
         Now.do \in {"renew", "probe", "apply", "sendProbe", "attempt", "sample", "stop"}
  PROVE  Owed(p)'
<1>1. UNCHANGED <<paused, shuttingDown>>
  BY HostKeepsModes
<1>2. PICK s \in Seq(Steps) : Then(s) /\ Pushes(p, s)
  BY Stacking
<1>3. /\ Now.cfg \in Plans /\ NoPlan \in Plans /\ rt[p] \in Runtimes
      /\ Now.do = "stop" => Now.tag \in Whys
  BY Concerned, NoPlanIsAPlan
<1>4. Now.do # "stop" => ~Stops(Now, p)
  BY DEF Stops
<1>5. CASE Now.do \in {"renew", "probe"}
  <2>1. Ages(call[p], call'[p]) /\ rt' = rt
    BY <1>5, TheStep, AgersTell
  <2>2. (Active(p)' <=> Active(p)) /\ (Busy(p)' <=> Busy(p)) /\ rt'[p].started = rt[p].started
    BY <1>1, <2>1 DEF Ages, Active, Busy
  <2>3. QED
    BY <1>4, <1>5, <2>2, OwedByTheRest DEF Owed
<1>6. CASE Now.do = "apply"
  <2>1. Apply
    BY <1>6, HostDoes
  <2>2. CASE Now.cfg = NoPlan
    <3>1. Same(p)
      BY <2>1, <2>2, AgersTell, Untouched
    <3>2. QED
      BY <1>4, <1>6, <3>1, SameOwed
  <2>3. CASE Now.cfg # NoPlan
    <3> DEFINE changed == rt[p].plan # Now.cfg
               x == StepWith("settle", p, Now.cfg, "", changed)
               y == Step("reconcile", p)
    <3>1. Then(<<y, x>>)
      BY <1>2, <1>6, <2>3 DEF Pushes, Leaves
    <3>2. x \in Steps /\ x.do = "settle" /\ x.of = p /\ x.cfg = Now.cfg
      <4>1. changed \in BOOLEAN
        OBVIOUS
      <4> HIDE DEF changed
      <4>2. x \in Steps
        BY <1>3, <4>1, SmallSteps
      <4>3. QED
        BY <4>2 DEF StepWith
    <3>3. y \in Steps
      BY SmallSteps
    <3> HIDE DEF x, y, changed
    <3>4. x \in Members(agenda')
      BY <3>1, <3>2, <3>3, PushedSecond
    <3>5. ~shuttingDown /\ rt'[p].plan = Now.cfg
      BY <1>6, <2>1, <2>3, AgersTell DEF Timely, Planning
    <3>6. ~Active(p)' => paused' \/ ~Enabled(x.cfg)
      BY <1>1, <3>2, <3>5 DEF Active
    <3>7. QED
      BY <3>2, <3>4, <3>6 DEF Owed, Stops
  <2>4. QED
    BY <2>2, <2>3
<1>7. CASE Now.do = "sendProbe"
  <2>1. rt' = rt /\ (Busy(p)' \/ ~Busy(p))
    <3>1. rt' = rt /\ (call' = call \/ ~Busy(p))
      BY <1>7, TheStep, SendersTell
    <3>2. QED
      BY <3>1 DEF Busy
  <2>2. (Active(p)' <=> Active(p)) /\ rt'[p].started = rt[p].started
    BY <1>1, <2>1 DEF Active
  <2>3. ~Busy(p)' => ~Busy(p)
    BY <2>1
  <2>4. QED
    BY <1>4, <1>7, <2>2, <2>3, OwedByTheRest DEF Owed
<1>8. CASE Now.do = "attempt"
  <2>1. SendStart
    BY <1>8, TheStep
  <2>2. Stands(rt'[p], rt[p].started /\ Now.tag = "Start", rt[p].lifecycle, rt[p].retry)
    BY <2>1, SendersTell
  <2>3. rt'[p].plan = rt[p].plan
    BY <2>1, SendersKeep DEF KeepsPlans
  <2>4. ~Busy(p)
    BY <1>8, HostDoes DEF IInv, CallsInOrder, Doing, Now, Busy
  <2>5. (Active(p)' <=> Active(p)) /\ (rt'[p].started => rt[p].started)
    BY <1>1, <2>2, <2>3 DEF Active, Stands
  <2>6. QED
    BY <1>4, <1>8, <2>4, <2>5, OwedByTheRest DEF Owed
<1>9. CASE Now.do = "sample"
  <2>1. SendSample
    BY <1>9, TheStep
  <2>2. rt'[p].plan = rt[p].plan
    BY <2>1, SendersKeep DEF KeepsPlans
  <2>3. CASE rt' = rt /\ call' = call
    <3>1. Same(p)
      BY <2>3, Untouched
    <3>2. QED
      BY <1>4, <1>9, <3>1, SameOwed
  <2>4. CASE Active(p)
    BY <1>1, <2>2, <2>4 DEF Owed, Active
  <2>5. QED
    BY <2>1, <2>3, <2>4, SendersTell
<1>10. CASE Now.do = "stop"
  <2>1. Stop
    BY <1>10, TheStep
  <2>2. CASE Busy(p) /\ Ages(call[p], call'[p])
    BY <2>2 DEF Ages, Busy, Owed
  <2>3. CASE ~rt'[p].started
    BY <2>3 DEF Owed
  <2>4. CASE ~Busy(p) /\ rt[p].started /\ ~(shuttingDown /\ late)
    <3> DEFINE x == StepWith("awaitStop", p, Now.cfg, Now.tag, FALSE)
    <3>1. Then(<<x>>)
      BY <1>2, <1>10, <2>4 DEF Pushes, Leaves
    <3>2. x \in Steps /\ x.do = "awaitStop" /\ x.of = p
      <4>1. x \in Steps
        BY <1>3, <1>10, SmallSteps
      <4>2. QED
        BY <4>1 DEF StepWith
    <3> HIDE DEF x
    <3>3. QED
      BY <3>1, <3>2, PushedOne, StopLeft DEF Stops
  <2>5. QED
    BY <2>1, <2>2, <2>3, <2>4, StopTells
<1>11. QED
  BY <1>5, <1>6, <1>7, <1>8, <1>9, <1>10

\* The ends of the waits.
LEMMA AwaitersOwe ==
  ASSUME IInv, Host, NEW p \in Providers, p = Now.of, Fits(p), Owed(p), Timely(Now), Backed,
         Now.do \in Waits
  PROVE  Owed(p)'
<1>1. UNCHANGED <<paused, shuttingDown>> /\ agenda # <<>>
  BY HostKeepsModes, HostDoes
<1>2. ~Busy(p)
  BY <1>1 DEF Fits, Awaited, Now, Busy
<1>3. CASE Now.do \in {"awaitProbe", "awaitSample"}
  <2>1. AwaitProbe \/ AwaitSample
    BY <1>3, TheStep
  <2>2. rt'[p].plan = rt[p].plan
    BY <2>1, AwaitersKeep DEF KeepsPlans
  <2>3. rt'[p].started \in {rt[p].started, FALSE}
    BY <2>1, AwaitProbeTells, AwaitSampleTells DEF Stands
  <2>4. Active(p)' <=> Active(p)
    BY <1>1, <2>2 DEF Active
  <2>5. ~Stops(Now, p)
    BY <1>3 DEF Stops
  <2>6. QED
    BY <1>2, <2>3, <2>4, <2>5, OwedByTheRest DEF Owed
<1>4. CASE Now.do = "awaitStart"
  <2>1. AwaitStart
    BY <1>4, TheStep
  <2>2. rt'[p].plan = rt[p].plan
    BY <2>1, AwaitersKeep DEF KeepsPlans
  <2>3. ~paused /\ ~shuttingDown
    BY <1>4 DEF Timely, Driving
  <2>4. Enabled(rt[p].plan) \/ \E x \in Under(agenda) : x.do = "shed" /\ x.of = p
    BY <1>1, <1>4 DEF Backed, Doing, Now
  <2>5. CASE Enabled(rt[p].plan)
    BY <1>1, <2>2, <2>3, <2>5 DEF Owed, Active
  <2>6. ASSUME NEW x \in Under(agenda), x.do = "shed", x.of = p
        PROVE  Owed(p)'
    <3>1. x \in Members(agenda')
      BY Stacking
    <3>2. QED
      BY <2>6, <3>1, StopLeft DEF Stops
  <2>7. QED
    BY <2>4, <2>5, <2>6
<1>5. CASE Now.do = "awaitStop"
  <2>1. ~rt'[p].started
    BY <1>5, TheStep, AwaitStopTells
  <2>2. QED
    BY <2>1 DEF Owed
<1>6. QED
  BY <1>3, <1>4, <1>5 DEF Waits

\* A late answer: what it revived against the user's will is cleaned up.
LEMMA ReconcileOwes ==
  ASSUME IInv, Host, NEW p \in Providers, p = Now.of, Fits(p), Owed(p), Now.do = "reconcile"
  PROVE  Owed(p)'
<1>1. UNCHANGED <<paused, shuttingDown>> /\ Reconcile
  BY HostKeepsModes, TheStep
<1>2. rt'[p].plan = rt[p].plan
  BY <1>1, ReconcileTells
<1>3. Active(p)' <=> Active(p)
  BY <1>1, <1>2 DEF Active
<1>4. CASE rt'[p] = rt[p] /\ call'[p] = call[p]
  BY <1>4, Untouched, SameOwed DEF Stops
<1>5. CASE Stands(rt'[p], FALSE, "Failed", IF Enabled(rt[p].plan) THEN "Start" ELSE "None")
  BY <1>5 DEF Stands, Owed
<1>6. CASE /\ Busy(p) /\ call[p].op \in Operations /\ rt'[p] = LateAnswer(p).rt
           /\ \/ Then(<<SyncStep, CleanupStep(p, LateAnswer(p).cleanup)>>)
              \/ LateAnswer(p).cleanup /\ Then(<<CleanupStep(p, TRUE)>>)
              \/ ~LateAnswer(p).cleanup
  <2> DEFINE o == LateAnswer(p)
  <2>1. CASE ~Active(p) /\ o.rt.started
    <3>1. TypeOK /\ call[p].op # "Probe" /\ rt[p].started \in BOOLEAN
      BY <1>6 DEF IInv, TypeOK, Runtimes, Fits, Busy
    <3>2. o.cleanup
      <4>1. CASE call[p].op = "Sample"
        <5>1. o = LateSample(p)
          BY <4>1 DEF LateAnswer
        <5>2. o.rt = rt[p] /\ o.cleanup = (~Active(p) /\ rt[p].started)
          BY <2>1, <3>1, <5>1, LateSampleStands
        <5>3. QED
          BY <2>1, <5>2
      <4>2. CASE call[p].op \in Starts
        <5>1. o = LateStart(p)
          BY <4>2 DEF LateAnswer, Starts
        <5> HIDE DEF o
        <5>2. \/ o.rt.started = FALSE \/ o.cleanup = ~Active(p)
          BY <3>1, <5>1, LateStartStands
        <5>3. QED
          BY <2>1, <5>2 DEF o
      <4>3. CASE call[p].op = "Stop"
        <5>1. o = LateStop(p)
          BY <4>3 DEF LateAnswer
        <5> HIDE DEF o
        <5>2. o.rt.started = FALSE
          BY <3>1, <5>1, LateStopStands
        <5>3. QED
          BY <2>1, <5>2 DEF o
      <4>4. QED
        BY <1>6, <3>1, <4>1, <4>2, <4>3 DEF Operations, Starts
    <3>3. NoPlan \in Plans /\ o.cleanup \in BOOLEAN
      <4>1. call[p].op # "None"
        BY <1>6 DEF Operations
      <4>2. QED
        BY <3>1, <4>1, NoPlanIsAPlan, LateAnswerIsTyped
    <3>4. o.cleanup = TRUE
      BY <3>2, <3>3
    <3> DEFINE x == CleanupStep(p, TRUE)
               y == SyncStep
    <3>5. Then(<<y, x>>) \/ Then(<<x>>)
      BY <1>6, <3>4
    <3>6. x \in Steps /\ y \in Steps /\ x.do = "cleanup" /\ x.of = p
      <4>1. x \in Steps /\ y \in Steps
        BY <3>3, SmallSteps DEF CleanupStep
      <4>2. QED
        BY <4>1 DEF StepWith, CleanupStep
    <3> HIDE DEF x, y
    <3>7. x \in Members(agenda')
      BY <3>5, <3>6, PushedOne, PushedSecond
    <3>8. QED
      BY <3>6, <3>7, StopLeft DEF Stops
  <2>2. CASE Active(p) \/ ~o.rt.started
    BY <1>3, <1>6, <2>2 DEF Owed
  <2>3. QED
    BY <2>1, <2>2
<1>7. QED
  BY <1>1, <1>4, <1>5, <1>6, ReconcileTells

LEMMA HostOwes ==
  ASSUME IInv, Host, Backed, \A x \in Members(agenda) : Timely(x),
         NEW q \in Providers, Fits(q), Owed(q)
  PROVE  Owed(q)'
<1>1. Timely(Now) /\ Now \in Steps
  BY Stacking
<1>2. CASE q # Now.of \/ Now.do \in {"sync", "applyDesired"}
  BY <1>2, Bystanders, SameOwed DEF Stops
<1>3. CASE q = Now.of /\ Now.do \in {"desire", "settle", "shed", "retry", "cleanup"}
  BY <1>1, <1>3, DecidersOwe
<1>4. CASE q = Now.of /\ Now.do \in {"renew", "probe", "apply", "sendProbe", "attempt", "sample", "stop"}
  BY <1>1, <1>4, SendersOwe
<1>5. CASE q = Now.of /\ Now.do \in Waits
  BY <1>1, <1>5, AwaitersOwe
<1>6. CASE q = Now.of /\ Now.do = "reconcile"
  BY <1>6, ReconcileOwes
<1>7. QED
  BY <1>1, <1>2, <1>3, <1>4, <1>5, <1>6 DEF Steps, Waits

LEMMA HostKeepsIntent ==
  ASSUME IInv, Chosen, Intent, Host
  PROVE  Intent'
<1> SUFFICES ASSUME ProbesInTime
             PROVE  /\ \A x \in Members(agenda') : Timely(x)'
                    /\ Backed'
                    /\ \A p \in Providers : Fits(p)' /\ Owed(p)'
  BY HostKeepsModes DEF Intent, ProbesInTime
<1>1. /\ \A x \in Members(agenda) : Timely(x)
      /\ Backed
      /\ \A p \in Providers : Fits(p) /\ Owed(p)
  BY DEF Intent
<1>2. \A x \in Members(agenda') : Timely(x)'
  BY <1>1, HostIsTimely
<1>3. Backed'
  BY <1>1, HostKeepsBacked
<1>4. \A p \in Providers : Fits(p)'
  BY <1>1, HostFits
<1>5. \A p \in Providers : Owed(p)'
  BY <1>1, HostOwes
<1>6. QED
  BY <1>2, <1>3, <1>4, <1>5

-----------------------------------------------------------------------------
(* So do the collector, the workers and time.                              *)

LEMMA RequestsKeepIntent ==
  ASSUME IInv, Intent, UpdateSettings \/ SampleDue \/ Pause \/ Resume \/ StopAll
  PROVE  Intent'
<1> SUFFICES ASSUME ProbesInTime
             PROVE  /\ \A x \in Members(agenda') : Timely(x)'
                    /\ Backed'
                    /\ \A p \in Providers : Fits(p)' /\ Owed(p)'
  BY DEF Intent, ProbesInTime, UpdateSettings, SampleDue, Pause, Resume, StopAll
<1>1. /\ agenda = <<>> /\ UNCHANGED <<rt, call>> /\ TypeOK
      /\ \A p \in Providers : Fits(p) /\ Owed(p)
      /\ UpdateSettings \/ SampleDue \/ Resume => ~shuttingDown /\ ~shuttingDown'
      /\ SampleDue => ~paused'
  <2>1. agenda = <<>> /\ UNCHANGED <<rt, call>>
    BY DEF UpdateSettings, SampleDue, Pause, Resume, StopAll, Calm
  <2>2. /\ UpdateSettings \/ SampleDue \/ Resume => ~shuttingDown /\ ~shuttingDown'
        /\ SampleDue => ~paused'
    <3>1. /\ UpdateSettings => ~shuttingDown /\ shuttingDown' = shuttingDown
          /\ SampleDue => ~shuttingDown /\ shuttingDown' = shuttingDown
          /\ Resume => ~shuttingDown /\ shuttingDown' = shuttingDown
          /\ SampleDue => ~paused /\ paused' = paused
      BY DEF UpdateSettings, SampleDue, Resume, Calm
    <3>2. QED
      BY <3>1
  <2>3. TypeOK /\ \A p \in Providers : Fits(p) /\ Owed(p)
    BY DEF Intent, IInv
  <2>4. QED
    BY <2>1, <2>2, <2>3
<1>2. Members(agenda) = {} /\ agenda' \in Seq(Steps)
  <2>1. IInv'
    BY UpdateSettingsKeeps, SampleDueKeeps, PauseKeeps, ResumeKeeps, StopAllKeeps
  <2>2. agenda' \in Seq(Steps)
    BY <2>1 DEF IInv, CallsInOrder, Stacks
  <2>3. QED
    BY <1>1, <2>2, ShortMembers
<1>3. \A x \in Members(agenda') : Asks(x)
  BY <1>1, RequestsAsk
<1>4. ASSUME NEW x \in Members(agenda')
      PROVE  Timely(x)'
  BY <1>1, <1>3 DEF Asks, Timely, Driving, Planning
<1>5. agenda' # <<>> => Head(agenda').do \notin Waits \union {"attempt"}
  <2>1. agenda' # <<>> => Head(agenda') \in Members(agenda')
    BY <1>2, MembersOf
  <2>2. QED
    BY <1>3, <2>1 DEF Asks, Waits
<1>6. Backed'
  BY <1>5 DEF Backed, Doing, Now, Waits
<1>7. ASSUME NEW p \in Providers
      PROVE  Fits(p)'
  <2>1. ~Awaited(p)' /\ ~(Doing("awaitSample") /\ Now.of = p)'
    BY <1>5 DEF Awaited, Doing, Now, Waits
  <2>2. ~(Doing("awaitStart") /\ Now.of = p)
    BY <1>1 DEF Doing
  <2>3. QED
    BY <1>1, <2>1, <2>2 DEF Fits
<1>8. ASSUME NEW p \in Providers
      PROVE  Owed(p)'
  <2>1. Active(p) \/ Busy(p) \/ ~rt[p].started
    BY <1>1, <1>2 DEF Owed
  <2>2. (Busy(p)' <=> Busy(p)) /\ rt'[p].started = rt[p].started /\ rt'[p].plan = rt[p].plan
    BY <1>1 DEF Busy
  <2>3. CASE Pause \/ StopAll
    <3>1. PICK why \in {"pause", "shutdown"} : agenda' = StopLoop(why)
      BY <2>3 DEF Pause, StopAll, StopLoop
    <3>2. \E i \in 1 .. Len(agenda') : agenda'[i] = StopStep(p, why, NoPlan)
      BY <3>1, StopLoopStops
    <3>3. StopStep(p, why, NoPlan) \in Members(agenda')
      BY <3>2 DEF Members
    <3>4. StopStep(p, why, NoPlan).do = "stop" /\ StopStep(p, why, NoPlan).of = p
      BY DEF StopStep, StepWith
    <3>5. QED
      BY <3>3, <3>4 DEF Owed, Stops
  <2>4. CASE UpdateSettings \/ SampleDue \/ Resume
    <3>1. Active(p) => Active(p)'
      BY <1>1, <2>2, <2>4 DEF Active, UpdateSettings, SampleDue, Resume
    <3>2. QED
      BY <2>1, <2>2, <3>1 DEF Owed
  <2>5. QED
    BY <2>3, <2>4
<1>9. QED
  BY <1>4, <1>6, <1>7, <1>8

\* What a worker, or time, may change of a provider, as far as its intent goes.
Drifts(q) ==
  /\ call'[q].op = call[q].op /\ call'[q].pending = call[q].pending
  /\ call'[q].stale = call[q].stale /\ call'[q].cfg = call[q].cfg
  /\ call[q].stage = "dead" => call'[q].stage = "dead"
  /\ Stands(rt'[q], rt[q].started, rt[q].lifecycle, rt[q].retry)
  /\ rt'[q].plan = rt[q].plan

LEMMA OthersDrift ==
  ASSUME IInv, NEW q \in Providers,
         \/ \E p \in Providers : Worker(p) \/ WorkerDies(p) \/ RetryFallsDue(p) \/ SampleFallsDue(p)
         \/ DeadlinePasses
         \/ UNCHANGED vars
  PROVE  Drifts(q) /\ UNCHANGED <<slow, paused, shuttingDown, agenda>>
<1>1. TypeOK /\ rt[q] \in Runtimes /\ call[q] \in Calls
  BY DEF IInv, TypeOK
<1>2. UNCHANGED <<slow, paused, shuttingDown, agenda>>
  BY DEF Worker, WorkerCalls, WorkerRefuses, WorkerAnswers, WorkerAnswersWith,
     WorkerDies, RetryFallsDue, SampleFallsDue, DeadlinePasses, vars
<1>3. CASE DeadlinePasses \/ UNCHANGED vars
  BY <1>2, <1>3 DEF DeadlinePasses, vars, Drifts, Stands
<1>4. ASSUME NEW p \in Providers, RetryFallsDue(p) \/ SampleFallsDue(p)
      PROVE  Drifts(q)
  <2> DEFINE r1 == [rt[p] EXCEPT !.retryDue = TRUE]
             r2 == [rt[p] EXCEPT !.sampleDue = TRUE]
  <2>1. call' = call /\ (rt' = [rt EXCEPT ![p] = r1] \/ rt' = [rt EXCEPT ![p] = r2])
    BY <1>4 DEF RetryFallsDue, SampleFallsDue
  <2>2. /\ Stands(r1, rt[p].started, rt[p].lifecycle, rt[p].retry) /\ r1.plan = rt[p].plan
        /\ Stands(r2, rt[p].started, rt[p].lifecycle, rt[p].retry) /\ r2.plan = rt[p].plan
    <3>1. rt[p] \in Runtimes
      BY <1>1 DEF TypeOK
    <3>2. QED
      BY <3>1 DEF Runtimes, Stands
  <2> HIDE DEF r1, r2
  <2>3. \/ q = p /\ (rt'[q] = r1 \/ rt'[q] = r2)
        \/ rt'[q] = rt[q]
    BY <1>1, <2>1 DEF TypeOK
  <2>4. QED
    BY <2>1, <2>2, <2>3 DEF Drifts, Stands
<1>5. ASSUME NEW p \in Providers, Worker(p) \/ WorkerDies(p)
      PROVE  Drifts(q)
  <2>1. /\ rt' = rt
        /\ \/ call' = [call EXCEPT ![p].stage = "running"] /\ call[p].stage = "queued"
           \/ call' = [call EXCEPT ![p].stage = "answered", ![p].result = "timeout"]
              /\ call[p].stage = "queued"
           \/ /\ \E result : call' = [call EXCEPT ![p].stage = "answered", ![p].result = result]
              /\ call[p].stage = "running"
           \/ call' = [call EXCEPT ![p].stage = "dead"]
    BY <1>5 DEF Worker, WorkerCalls, WorkerRefuses, WorkerAnswers, WorkerAnswersWith, WorkerDies
  <2>2. /\ call'[q].op = call[q].op /\ call'[q].pending = call[q].pending
        /\ call'[q].stale = call[q].stale /\ call'[q].cfg = call[q].cfg
        /\ call[q].stage = "dead" => call'[q].stage = "dead"
    <3>1. call[p] \in Calls
      BY <1>1 DEF TypeOK
    <3>2. \A stage : [call[p] EXCEPT !.stage = stage].op = call[p].op
                     /\ [call[p] EXCEPT !.stage = stage].pending = call[p].pending
                     /\ [call[p] EXCEPT !.stage = stage].stale = call[p].stale
                     /\ [call[p] EXCEPT !.stage = stage].cfg = call[p].cfg
                     /\ [call[p] EXCEPT !.stage = stage].stage = stage
      BY <3>1 DEF Calls
    <3>3. CASE q # p
      BY <1>1, <2>1, <3>3 DEF TypeOK
    <3>4. CASE q = p
      <4>1. call \in [Providers -> Calls]
        BY <1>1 DEF TypeOK
      <4>2. \/ call'[p] = [call[p] EXCEPT !.stage = "running"] /\ call[p].stage = "queued"
            \/ call'[p] = [call[p] EXCEPT !.stage = "answered", !.result = "timeout"]
               /\ call[p].stage = "queued"
            \/ /\ \E result : call'[p] = [call[p] EXCEPT !.stage = "answered", !.result = result]
               /\ call[p].stage = "running"
            \/ call'[p] = [call[p] EXCEPT !.stage = "dead"]
        BY <2>1, <4>1
      <4>3. QED
        BY <3>1, <3>4, <4>2 DEF Calls
    <3>5. QED
      BY <3>3, <3>4
  <2>3. QED
    BY <2>1, <2>2 DEF Drifts, Stands
<1>6. QED
  BY <1>2, <1>3, <1>4, <1>5

LEMMA OthersKeepIntent ==
  ASSUME IInv, Intent,
         \/ \E p \in Providers : Worker(p) \/ WorkerDies(p) \/ RetryFallsDue(p) \/ SampleFallsDue(p)
         \/ DeadlinePasses
         \/ UNCHANGED vars
  PROVE  Intent'
<1>1. \A q \in Providers : Drifts(q)
  BY OthersDrift
<1>2. UNCHANGED <<slow, paused, shuttingDown, agenda>>
  BY DEF Worker, WorkerCalls, WorkerRefuses, WorkerAnswers, WorkerAnswersWith,
     WorkerDies, RetryFallsDue, SampleFallsDue, DeadlinePasses, vars
<1> SUFFICES ASSUME ProbesInTime
             PROVE  /\ \A x \in Members(agenda') : Timely(x)'
                    /\ Backed'
                    /\ \A p \in Providers : Fits(p)' /\ Owed(p)'
  BY <1>2 DEF Intent, ProbesInTime
<1>3. /\ \A x \in Members(agenda) : Timely(x)
      /\ Backed
      /\ \A p \in Providers : Fits(p) /\ Owed(p)
  BY DEF Intent
<1>4. \A x \in Members(agenda') : Timely(x)'
  BY <1>2, <1>3 DEF Timely
<1>5. Backed'
  <2>1. Doing("attempt") \/ Doing("awaitStart") => Now.of \in Providers
    BY HeadIsAStep
  <2>2. \A p \in Providers : rt'[p].plan = rt[p].plan
    BY <1>1 DEF Drifts
  <2>3. (Doing("attempt") \/ Doing("awaitStart"))' <=> (Doing("attempt") \/ Doing("awaitStart"))
    BY <1>2 DEF Doing
  <2>4. Now' = Now
    BY <1>2 DEF Now
  <2>5. QED
    BY <1>2, <1>3, <2>1, <2>2, <2>3, <2>4 DEF Backed
<1>6. ASSUME NEW p \in Providers
      PROVE  Fits(p)' /\ Owed(p)'
  <2>1. Drifts(p) /\ Fits(p) /\ Owed(p)
    BY <1>1, <1>3
  <2>2. /\ Awaited(p)' <=> Awaited(p)
        /\ Now' = Now
        /\ (Doing("awaitSample") /\ Now.of = p)' <=> (Doing("awaitSample") /\ Now.of = p)
        /\ (Doing("awaitStart") /\ Now.of = p)' <=> (Doing("awaitStart") /\ Now.of = p)
    BY <1>2 DEF Awaited, Doing, Now
  <2>3. Fits(p)'
    BY <2>1, <2>2 DEF Drifts, Stands, Fits
  <2>4. Owed(p)'
    <3>1. (Active(p)' <=> Active(p)) /\ (Busy(p)' <=> Busy(p)) /\ rt'[p].started = rt[p].started
      BY <1>2, <2>1 DEF Drifts, Stands, Active, Busy
    <3>2. \A x : Stops(x, p)' <=> Stops(x, p)
      BY <1>2 DEF Stops
    <3>3. QED
      BY <1>2, <2>1, <3>1, <3>2 DEF Owed
  <2>5. QED
    BY <2>3, <2>4
<1>7. QED
  BY <1>4, <1>5, <1>6

LEMMA IntentAtFirst == ASSUME Init PROVE Intent
<1>1. agenda = <<>> /\ Members(agenda) = {}
  BY ShortMembers DEF Init
<1>2. \A p \in Providers : call[p] = NoCall /\ rt[p].started = FALSE /\ rt[p].lifecycle = "Stopped"
  BY DEF Init
<1>3. \A p \in Providers : Fits(p) /\ Owed(p)
  BY <1>1, <1>2 DEF Fits, Owed, NoCall, Starts, Awaited, Doing
<1>4. QED
  BY <1>1, <1>3 DEF Intent, Backed, Doing

LEMMA StepKeepsIntent == ASSUME HInv, Intent, [Next]_vars PROVE Intent'
<1>1. IInv /\ Chosen
  BY DEF HInv, PInv
<1>2. CASE UpdateSettings \/ SampleDue \/ Pause \/ Resume \/ StopAll
  BY <1>1, <1>2, RequestsKeepIntent
<1>3. CASE Host
  BY <1>1, <1>3, HostKeepsIntent
<1>4. CASE \/ \E p \in Providers : Worker(p) \/ WorkerDies(p) \/ RetryFallsDue(p) \/ SampleFallsDue(p)
           \/ DeadlinePasses
           \/ UNCHANGED vars
  BY <1>1, <1>4, OthersKeepIntent
<1>5. QED
  BY <1>2, <1>3, <1>4 DEF Next
====
