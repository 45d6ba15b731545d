---------------------------- MODULE ProviderHost ----------------------------
(***************************************************************************)
(* The host of metric providers (src-tauri/src/collector/provider.rs): one *)
(* worker thread per provider, calls with a deadline, answers that arrive  *)
(* after the host gave up, plans that change meanwhile, retries with       *)
(* backoff, pause, resume and shutdown.                                    *)
(*                                                                         *)
(* The host is sequential but every call blocks, and its loops re-enter    *)
(* each other (an answer changes a capability, which changes the plan,     *)
(* which is applied in the middle of the loop that received the answer).   *)
(* agenda is its call stack: the steps it has still to take, the locals of *)
(* each step kept in the step. Workers run between any two steps.          *)
(*                                                                         *)
(* Simplifications: a plan is its set of categories, the empty set being   *)
(* disabled; generations are only ever compared with that of the one       *)
(* outstanding call, so a call carries "stale" and "accounted" instead;    *)
(* retry_at and next_sample_at are reduced to whether they are due; the    *)
(* failure counters, error texts and metric metadata are left out.         *)
(***************************************************************************)
EXTENDS Naturals, FiniteSets, SequencesExt

CONSTANTS
    Providers,
    Categories,
    SlowSets,    \* the sets of operations that may outlive their deadline
    Mortal,      \* the providers whose worker thread may panic
    Unset        \* in place of categories: a plan that was never set

Operations == {"Probe", "Start", "Reconfigure", "Sample", "Stop"}

ASSUME ProvidersAssumption == IsFiniteSet(Providers)
ASSUME SlowAssumption == SlowSets \subseteq SUBSET Operations
ASSUME MortalAssumption == Mortal \subseteq Providers
ASSUME UnsetAssumption == Unset \notin Categories

VARIABLES
    slow,         \* which operations are slow in this behaviour: chosen once
    desired,      \* desired_plan, per provider
    plan,         \* plan, the effective one
    paused,
    shuttingDown,
    late,         \* the deadline of the shutdown has passed
    rt,           \* ProviderRuntime
    call,         \* the executor and its worker: the one outstanding call
    own,          \* the categories the provider itself reports as supported
    held,         \* what the provider's native resources are set up for
    agenda

vars == <<slow, desired, plan, paused, shuttingDown, late, rt, call, own, held,
          agenda>>

NoPlan == {Unset}
Plans == (SUBSET Categories) \union {NoPlan}
Enabled(cfg) == cfg \notin {NoPlan, {}}

Runtimes == [caps : SUBSET Categories, plan : Plans, started : BOOLEAN,
             lifecycle : {"Stopped", "Running", "Failed", "Paused"},
             retry : {"None", "Start", "Reconfigure"}, retryDue : BOOLEAN,
             sampleDue : BOOLEAN, stopFailed : BOOLEAN]

Calls == [op : Operations \union {"None"},
          stage : {"idle", "queued", "running", "answered", "dead"},
          cfg : Plans, result : {"none", "ok", "failed", "lost", "timeout"},
          pending : BOOLEAN, cancelled : BOOLEAN, stale : BOOLEAN,
          accounted : BOOLEAN]

NoCall == [op |-> "None", stage |-> "idle", cfg |-> NoPlan, result |-> "none",
           pending |-> FALSE, cancelled |-> FALSE, stale |-> FALSE,
           accounted |-> FALSE]

StepWith(what, p, cfg, tag, flag) ==
    [do |-> what, of |-> p, cfg |-> cfg, tag |-> tag, flag |-> flag]
Step(what, p) == StepWith(what, p, NoPlan, "", FALSE)
StopStep(p, why, cfg) == StepWith("stop", p, cfg, why, FALSE)
ApplyStep(p, cfg, force) == StepWith("apply", p, cfg, "", force)
AttemptStep(p, cfg, action) == StepWith("attempt", p, cfg, action, FALSE)
DesireStep(p, cfg) == StepWith("desire", p, cfg, "", FALSE)
SyncStep == Step("sync", "")

(* The BTreeMap's order of the providers, and its loop: n steps for each. *)
Order == SetToSeq(Providers)
ForEach(n, steps(_)) ==
    [i \in 1 .. n * Cardinality(Providers) |->
       steps(Order[((i - 1) \div n) + 1])[((i - 1) % n) + 1]]

Init ==
    /\ slow \in SlowSets
    /\ desired = [p \in Providers |-> NoPlan]
    /\ plan = desired
    /\ paused = FALSE /\ shuttingDown = FALSE /\ late = FALSE
    /\ rt = [p \in Providers |->
               [caps |-> Categories, plan |-> NoPlan, started |-> FALSE,
                lifecycle |-> "Stopped", retry |-> "None", retryDue |-> FALSE,
                sampleDue |-> TRUE, stopFailed |-> FALSE]]
    /\ call = [p \in Providers |-> NoCall]
    /\ own = [p \in Providers |-> Categories]
    /\ held = desired
    /\ agenda = <<>>

-----------------------------------------------------------------------------
(* Helpers on a runtime *)

ClearRetry(r) == [r EXCEPT !.retry = "None", !.retryDue = FALSE]
\* Mutant of RetryLater: the failed call is forgotten.
RetryLaterNever(r, action) == ClearRetry(r)
\* Mutant of RetryLater: the operation that failed is stored, whatever it was.
RetryLaterSample(r, action) == [r EXCEPT !.retry = "Sample", !.retryDue = FALSE]
RetryLater(r, action) == [r EXCEPT !.retry = action, !.retryDue = FALSE]
\* Mutant of RetryNow: as for an inactive provider.
RetryNowNever(r, action) == ClearRetry(r)
RetryNow(r, action) == [r EXCEPT !.retry = action, !.retryDue = TRUE]
Failed(r) == [r EXCEPT !.lifecycle = "Failed"]

(* A sample answer that is an error, or a success reported with a lost
   runtime: the native runtime must be set up again through Reconfigure. *)
SampleFailed(r, result) ==
    LET f == [Failed(r) EXCEPT !.sampleDue = FALSE]
    IN  IF result = "lost"
        THEN [RetryLater(f, "Reconfigure") EXCEPT !.started = FALSE]
        ELSE f

Started(r) == [ClearRetry(r) EXCEPT !.started = TRUE, !.lifecycle = "Running",
                                    !.stopFailed = FALSE, !.sampleDue = TRUE]

ProbeFailed(r) == [ClearRetry(Failed(r)) EXCEPT !.caps = {}]
Probed(r, caps) ==
    [r EXCEPT !.caps = caps, !.lifecycle = IF r.started THEN @ ELSE "Stopped"]

Resting == IF paused THEN "Paused" ELSE "Stopped"

Active(p) == ~paused /\ ~shuttingDown /\ Enabled(rt[p].plan)

\* Mutant of Busy: a cancelled call counts as done with.
BusyUntilCancelled(p) == call[p].pending /\ ~call[p].cancelled
(* executor.pending(): a call the host gave up on has not been answered. *)
Busy(p) == call[p].pending

(* effective_plan: what the user wants of what is supported *)
Effective ==
    [p \in Providers |->
       IF desired[p] = NoPlan THEN NoPlan ELSE desired[p] \intersect rt[p].caps]

\* Mutant of ApplyLoop: a plan that changed is only noted.
ApplyLoopPolls(next, force) == ForEach(1, LAMBDA p : <<Step("reconcile", p)>>)
(* apply_plan_inner: the loop it starts. An unchanged plan only polls. *)
ApplyLoop(next, force) ==
    IF ~force /\ next = plan
    THEN ForEach(1, LAMBDA p : <<Step("reconcile", p)>>)
    ELSE ForEach(1, LAMBDA p : <<ApplyStep(p, next[p], force)>>)

\* Mutant of NewGeneration: the generation stays.
NewGenerationNot(p) == call
(* generation + 1: an outstanding call belongs to an earlier intent. *)
NewGeneration(p) ==
    [call EXCEPT ![p].stale = @ \/ (call[p].pending /\ call[p].op # "Probe")]

-----------------------------------------------------------------------------
(* What the collector asks of the host *)

Calm == agenda = <<>> /\ ~shuttingDown

(* Startup and UpdateSettings: probe_all_for_settings with the old desired
   plan still in force, then apply_desired_plan. *)
UpdateSettings ==
    /\ Calm
    /\ \E wanted \in [Providers -> SUBSET Categories] :
         agenda' = ForEach(1, LAMBDA p : <<Step("probe", p)>>)
                   \o ForEach(1, LAMBDA p : <<DesireStep(p, wanted[p])>>)
                   \o <<Step("applyDesired", "")>>
    /\ UNCHANGED <<slow, desired, plan, paused, shuttingDown, late, rt, call, own, held>>

SampleDue ==
    /\ Calm /\ ~paused
    /\ agenda' = ForEach(3, LAMBDA p : <<Step("reconcile", p), Step("retry", p), Step("sample", p)>>)
    /\ UNCHANGED <<slow, desired, plan, paused, shuttingDown, late, rt, call, own, held>>

Pause ==
    /\ Calm /\ ~paused
    /\ paused' = TRUE
    /\ agenda' = ForEach(3, LAMBDA p : <<Step("renew", p), Step("reconcile", p),
                                         StopStep(p, "pause", NoPlan)>>)
    /\ UNCHANGED <<slow, desired, plan, shuttingDown, late, rt, call, own, held>>

Resume ==
    /\ Calm /\ paused
    /\ paused' = FALSE
    /\ plan' = Effective
    /\ agenda' = ApplyLoop(Effective, TRUE)
    /\ UNCHANGED <<slow, desired, shuttingDown, late, rt, call, own, held>>

(* Called when the shutdown begins and once more after the loop. *)
StopAll ==
    /\ agenda = <<>>
    /\ shuttingDown' = TRUE
    /\ agenda' = ForEach(3, LAMBDA p : <<Step("renew", p), Step("reconcile", p),
                                         StopStep(p, "shutdown", NoPlan)>>)
    /\ UNCHANGED <<slow, desired, plan, paused, late, rt, call, own, held>>

-----------------------------------------------------------------------------
(* The host's own steps *)

Doing(what) == agenda # <<>> /\ Head(agenda).do = what
Then(steps) == agenda' = steps \o Tail(agenda)
Now == Head(agenda)

Desire ==
    /\ Doing("desire")
    /\ desired' = [desired EXCEPT ![Now.of] = Now.cfg]
    /\ Then(<<>>)
    /\ UNCHANGED <<slow, plan, paused, shuttingDown, late, rt, call, own, held>>

ApplyDesired ==
    /\ Doing("applyDesired")
    /\ plan' = Effective
    /\ Then(ApplyLoop(Effective, FALSE))
    /\ UNCHANGED <<slow, desired, paused, shuttingDown, late, rt, call, own, held>>

(* sync_plan_with_capabilities *)
Sync ==
    /\ Doing("sync")
    /\ plan' = Effective
    /\ rt' = IF shuttingDown THEN [p \in Providers |-> [rt[p] EXCEPT !.plan = Effective[p]]]
                             ELSE rt
    /\ Then(IF shuttingDown \/ Effective = plan THEN <<>> ELSE ApplyLoop(Effective, FALSE))
    /\ UNCHANGED <<slow, desired, paused, shuttingDown, late, call, own, held>>

Renew ==
    /\ Doing("renew")
    /\ call' = NewGeneration(Now.of)
    /\ Then(<<>>)
    /\ UNCHANGED <<slow, desired, plan, paused, shuttingDown, late, rt, own, held>>

(* probe_all_with_categories: the probe generation moves first, then an older
   call gets its own budget to finish, then the probe. *)
Probe ==
    /\ Doing("probe")
    /\ LET p == Now.of
       IN  /\ call' = [call EXCEPT ![p].stale =
                         @ \/ (call[p].pending /\ call[p].op = "Probe")]
           /\ Then(<<Step("reconcile", p), Step("sendProbe", p)>>)
    /\ UNCHANGED <<slow, desired, plan, paused, shuttingDown, late, rt, own, held>>

(* One round of apply_plan_inner's loop, up to reconcile_pending_for. *)
Apply ==
    /\ Doing("apply")
    /\ LET p == Now.of
           changed == rt[p].plan # Now.cfg
       IN  IF Now.cfg = NoPlan
           THEN Then(<<>>) /\ UNCHANGED <<rt, call>>
           ELSE /\ call' = IF changed \/ Now.flag THEN NewGeneration(p) ELSE call
                /\ rt' = [rt EXCEPT ![p].plan = Now.cfg]
                /\ Then(<<Step("reconcile", p),
                          StepWith("settle", p, Now.cfg, "", changed)>>)
    /\ UNCHANGED <<slow, desired, plan, paused, shuttingDown, late, own, held>>

(* The rest of the round. It keeps deciding by the plan it began with. *)
Settle ==
    /\ Doing("settle")
    /\ LET p == Now.of
           r == rt[p]
           action == IF r.retry # "None" THEN r.retry
                     ELSE IF r.started THEN "Reconfigure" ELSE "Start"
       IN  Then(IF paused \/ ~Enabled(Now.cfg) THEN <<StopStep(p, "apply", Now.cfg)>>
                ELSE IF Busy(p) \/ (r.started /\ ~Now.flag) THEN <<>>
                ELSE <<AttemptStep(p, Now.cfg, action),
                       SyncStep, Step("shed", p)>>)
    /\ UNCHANGED <<slow, desired, plan, paused, shuttingDown, late, rt, call, own, held>>

(* A provider started under a plan that was disabled meanwhile is stopped. *)
Shed ==
    /\ Doing("shed")
    /\ LET p == Now.of
       IN  Then(IF rt[p].started /\ rt[p].plan # NoPlan /\ ~Enabled(rt[p].plan)
                THEN <<StopStep(p, "shed", NoPlan)>> ELSE <<>>)
    /\ UNCHANGED <<slow, desired, plan, paused, shuttingDown, late, rt, call, own, held>>

(* sample_due: a due retry comes before the sample of the same round. *)
Retry ==
    /\ Doing("retry")
    /\ LET p == Now.of
           r == rt[p]
       IN  Then(IF /\ Active(p) /\ ~Busy(p)
                   /\ r.retry # "None" /\ r.retryDue
                THEN <<AttemptStep(p, r.plan, r.retry), SyncStep>>
                ELSE <<>>)
    /\ UNCHANGED <<slow, desired, plan, paused, shuttingDown, late, rt, call, own, held>>

-----------------------------------------------------------------------------
(* Sending a call: execute, up to the wait for the answer. *)

NewCall(p, op, cfg) ==
    IF call[p].stage = "dead" THEN call
    ELSE [call EXCEPT ![p] = [NoCall EXCEPT !.op = op, !.stage = "queued", !.cfg = cfg]]

SendProbe ==
    /\ Doing("sendProbe")
    /\ LET p == Now.of
       IN  IF Busy(p)
           THEN Then(<<>>) /\ UNCHANGED call
           ELSE call' = NewCall(p, "Probe", NoPlan) /\ Then(<<Step("awaitProbe", p)>>)
    /\ UNCHANGED <<slow, desired, plan, paused, shuttingDown, late, rt, own, held>>

SendStart ==
    /\ Doing("attempt")
    /\ LET p == Now.of
       IN  /\ call' = NewCall(p, Now.tag, Now.cfg)
           /\ rt' = [rt EXCEPT ![p].started = @ /\ Now.tag = "Start"]
           /\ Then(<<StepWith("awaitStart", p, NoPlan, Now.tag, FALSE)>>)
    /\ UNCHANGED <<slow, desired, plan, paused, shuttingDown, late, own, held>>

SendSample ==
    /\ Doing("sample")
    /\ LET p == Now.of
           r == rt[p]
       IN  IF Active(p) /\ ~Busy(p) /\ r.started /\ r.sampleDue
           THEN /\ call' = NewCall(p, "Sample", NoPlan)
                /\ rt' = [rt EXCEPT ![p].sampleDue = FALSE]
                /\ Then(<<Step("awaitSample", p)>>)
           ELSE Then(<<>>) /\ UNCHANGED <<rt, call>>
    /\ UNCHANGED <<slow, desired, plan, paused, shuttingDown, late, own, held>>

(* What the callers of stop_runtime do with its result. *)
AfterStop(r, why, cfg, ok) ==
    CASE why = "cleanup" ->
           IF ok /\ paused /\ Enabled(r.plan) THEN [r EXCEPT !.lifecycle = "Paused"] ELSE r
      [] why = "apply" ->
           [ClearRetry(r) EXCEPT !.sampleDue = TRUE,
              !.lifecycle = IF paused /\ ~Enabled(cfg) THEN "Stopped"
                            ELSE IF ok THEN Resting ELSE "Failed"]
      [] why = "pause" ->
           [ClearRetry(r) EXCEPT !.sampleDue = TRUE,
              !.lifecycle = IF ~Enabled(r.plan) THEN @ ELSE IF ok THEN "Paused" ELSE "Failed"]
      [] why = "shutdown" -> [ClearRetry(r) EXCEPT !.sampleDue = TRUE]
      [] why = "shed" -> r

(* stop_runtime with its early returns: a call is outstanding, nothing to
   stop, no budget left, or a stop is sent. *)
Stop ==
    /\ Doing("stop")
    /\ LET p == Now.of
           r == [ClearRetry(rt[p]) EXCEPT !.sampleDue = TRUE]
           Ends(s, ok) == rt' = [rt EXCEPT ![p] = AfterStop(s, Now.tag, Now.cfg, ok)]
           spent == shuttingDown /\ late
       IN  IF Busy(p)
           THEN /\ call' = [call EXCEPT ![p].cancelled = TRUE]
                /\ Ends([Failed(r) EXCEPT !.stopFailed = @ \/ call[p].op = "Stop"], FALSE)
                /\ Then(<<>>)
           ELSE IF ~r.started
           THEN /\ Ends(IF r.stopFailed \/ r.lifecycle = "Failed" THEN r
                        ELSE [r EXCEPT !.lifecycle = "Stopped"], ~r.stopFailed)
                /\ Then(<<>>)
                /\ UNCHANGED call
           ELSE IF spent
           THEN /\ Ends([Failed(r) EXCEPT !.started = FALSE, !.stopFailed = TRUE], FALSE)
                /\ Then(<<>>)
                /\ UNCHANGED call
           ELSE /\ call' = NewCall(p, "Stop", NoPlan)
                /\ rt' = [rt EXCEPT ![p] = r]
                /\ Then(<<StepWith("awaitStop", p, Now.cfg, Now.tag, FALSE)>>)
    /\ UNCHANGED <<slow, desired, plan, paused, shuttingDown, late, own, held>>

-----------------------------------------------------------------------------
(* The end of the wait: recv_timeout in execute *)

Answered(p) == call[p].stage = "answered"
TimesOut(p) ==
    /\ call[p].stage \in {"queued", "running"}
    /\ call[p].op \in slow \/ (shuttingDown /\ late)

(* The worker is gone (ProviderMissing), or the host gives up: the context is
   cancelled and the call kept as pending, its failure accounted for if the
   caller says so. *)
GivenUp(p, accounted) ==
    IF call[p].stage = "dead" THEN call
    ELSE [call EXCEPT ![p].pending = TRUE, ![p].cancelled = TRUE, ![p].accounted = accounted]
\* Mutant of NoAnswer: a closed channel goes unnoticed.
NoAnswerTimeout(p) == TimesOut(p)
NoAnswer(p) == TimesOut(p) \/ call[p].stage = "dead"

(* install_observation: every answer carries the provider's own view. *)
Install(r, p) == [r EXCEPT !.caps = own[p]]
News(p) == rt[p].caps # own[p]

AwaitProbe ==
    /\ Doing("awaitProbe")
    /\ LET p == Now.of
       IN  \/ /\ Answered(p)
              /\ call' = [call EXCEPT ![p] = NoCall]
              /\ rt' = [rt EXCEPT ![p] = IF call[p].result = "ok" THEN Probed(@, own[p])
                                         ELSE ProbeFailed(Install(@, p))]
              /\ Then(IF call[p].result # "ok" \/ News(p) THEN <<SyncStep>> ELSE <<>>)
           \/ /\ NoAnswer(p)
              /\ call' = GivenUp(p, FALSE)
              /\ rt' = [rt EXCEPT ![p] = ProbeFailed(@)]
              /\ Then(IF rt[p].caps # {} THEN <<SyncStep>> ELSE <<>>)
    /\ UNCHANGED <<slow, desired, plan, paused, shuttingDown, late, own, held>>

(* attempt_start *)
AwaitStart ==
    /\ Doing("awaitStart")
    /\ LET p == Now.of
           Refused(r) == [RetryLater(Failed(r), Now.tag) EXCEPT !.started = FALSE,
                                                                !.sampleDue = TRUE]
       IN  \/ /\ Answered(p)
              /\ call' = [call EXCEPT ![p] = NoCall]
              /\ rt' = [rt EXCEPT ![p] = IF call[p].result = "ok" THEN Started(Install(@, p))
                                         ELSE Refused(Install(@, p))]
           \/ /\ NoAnswer(p)
              /\ call' = GivenUp(p, TRUE)
              /\ rt' = [rt EXCEPT ![p] = Refused(@)]
    /\ Then(<<>>)
    /\ UNCHANGED <<slow, desired, plan, paused, shuttingDown, late, own, held>>

AwaitSample ==
    /\ Doing("awaitSample")
    /\ LET p == Now.of
           result == call[p].result
       IN  \/ /\ Answered(p)
              /\ call' = [call EXCEPT ![p] = NoCall]
              /\ rt' = [rt EXCEPT ![p] =
                          IF result = "ok" THEN [Install(@, p) EXCEPT !.lifecycle = "Running"]
                          ELSE SampleFailed(Install(@, p), result)]
              /\ Then(IF News(p) THEN <<SyncStep>> ELSE <<>>)
           \/ /\ NoAnswer(p)
              /\ call' = GivenUp(p, TRUE)
              /\ rt' = [rt EXCEPT ![p] = SampleFailed(@, "timeout")]
              /\ Then(<<>>)
    /\ UNCHANGED <<slow, desired, plan, paused, shuttingDown, late, own, held>>

AwaitStop ==
    /\ Doing("awaitStop")
    /\ LET p == Now.of
           ok == Answered(p) /\ call[p].result = "ok"
           r == [rt[p] EXCEPT !.started = FALSE]
       IN  /\ \/ /\ Answered(p)
                 /\ call' = [call EXCEPT ![p] = NoCall]
              \/ /\ NoAnswer(p)
                 /\ call' = GivenUp(p, FALSE)
           /\ rt' = [rt EXCEPT ![p] =
                       AfterStop(IF ok THEN [r EXCEPT !.lifecycle = "Stopped", !.stopFailed = FALSE]
                                 ELSE [Failed(r) EXCEPT !.stopFailed = TRUE],
                                 Now.tag, Now.cfg, ok)]
    /\ Then(<<>>)
    /\ UNCHANGED <<slow, desired, plan, paused, shuttingDown, late, own, held>>

-----------------------------------------------------------------------------
(* reconcile_pending_for: an answer to a call the host gave up on *)

(* The runtime, whether the provider must be stopped, and whether the answer
   brought news of capabilities, after each kind of late answer. *)
\* Mutant of Outcome: what the call acquired is kept.
OutcomeKept(r, cleanup, news) == [rt |-> r, cleanup |-> FALSE, news |-> news]
Outcome(r, cleanup, news) == [rt |-> r, cleanup |-> cleanup, news |-> news]

LateProbe(p) ==
    LET c == call[p]
    IN  IF c.stale THEN Outcome(rt[p], FALSE, FALSE)
        ELSE IF c.result = "ok" THEN Outcome(Probed(rt[p], own[p]), FALSE, News(p))
        ELSE Outcome(ProbeFailed(Install(rt[p], p)), FALSE, TRUE)

LateSample(p) ==
    LET c == call[p]
        r == Install(rt[p], p)
    IN  IF c.stale THEN Outcome(rt[p], ~Active(p) /\ rt[p].started, FALSE)
        ELSE IF ~Active(p) THEN Outcome(rt[p], rt[p].started, FALSE)
        ELSE IF c.result = "ok" THEN Outcome([r EXCEPT !.lifecycle = "Running"], FALSE, News(p))
        ELSE IF c.result = "timeout" /\ c.accounted THEN Outcome(r, FALSE, News(p))
        ELSE Outcome(SampleFailed(r, c.result), FALSE, News(p))

LateStart(p) ==
    LET c == call[p]
        r == IF c.stale THEN rt[p] ELSE Install(rt[p], p)
        off == [r EXCEPT !.sampleDue = TRUE]
        news == ~c.stale /\ News(p)
        repeated == c.result = "timeout" /\ c.accounted
    IN  IF c.result = "ok"
        THEN IF ~c.stale /\ Active(p) THEN Outcome(Started(r), FALSE, news)
             ELSE IF Active(p)
             THEN Outcome([RetryNow(Failed(off), "Reconfigure") EXCEPT !.started = TRUE], FALSE, news)
             ELSE Outcome([ClearRetry(off) EXCEPT !.started = TRUE], TRUE, news)
        ELSE LET down == [off EXCEPT !.started = FALSE]
             IN  IF ~c.stale /\ Active(p)
                 THEN Outcome(IF repeated THEN [down EXCEPT !.retry = c.op]
                              ELSE RetryLater(Failed(down), c.op), FALSE, news)
                 ELSE IF Active(p) THEN Outcome(RetryNow(Failed(down), c.op), FALSE, news)
                 ELSE Outcome([ClearRetry(down) EXCEPT !.lifecycle = Resting], FALSE, news)

LateStop(p) ==
    LET c == call[p]
        down == [rt[p] EXCEPT !.started = FALSE, !.sampleDue = TRUE]
    IN  IF c.result = "ok"
        THEN LET r == [ClearRetry(down) EXCEPT !.stopFailed = FALSE]
             IN  Outcome(IF Active(p) THEN RetryNow(Failed(r), "Start")
                         ELSE [r EXCEPT !.lifecycle = Resting], FALSE, FALSE)
        ELSE LET r == [Failed(down) EXCEPT !.stopFailed = TRUE]
             IN  Outcome(IF Active(p) THEN RetryLater(r, "Reconfigure") ELSE ClearRetry(r),
                         FALSE, FALSE)

LateAnswer(p) ==
    CASE call[p].op = "Probe" -> LateProbe(p)
      [] call[p].op = "Sample" -> LateSample(p)
      [] call[p].op \in {"Start", "Reconfigure"} -> LateStart(p)
      [] call[p].op = "Stop" -> LateStop(p)

Reconcile ==
    /\ Doing("reconcile")
    /\ LET p == Now.of
           after == LateAnswer(p)
       IN  IF ~call[p].pending \/ call[p].stage \in {"queued", "running"}
           THEN Then(<<>>) /\ UNCHANGED <<rt, call>>
           ELSE IF call[p].stage = "dead"
           THEN /\ call' = [call EXCEPT ![p].pending = FALSE]
                /\ rt' = [rt EXCEPT ![p] =
                            [(IF Enabled(@.plan) THEN RetryNow(Failed(@), "Start")
                              ELSE ClearRetry(Failed(@))) EXCEPT !.started = FALSE]]
                /\ Then(<<>>)
           ELSE /\ call' = [call EXCEPT ![p] = NoCall]
                /\ rt' = [rt EXCEPT ![p] = after.rt]
                /\ Then((IF after.news THEN <<SyncStep>> ELSE <<>>)
                        \o (IF after.news \/ after.cleanup
                            THEN <<StepWith("cleanup", p, NoPlan, "", after.cleanup)>>
                            ELSE <<>>))
    /\ UNCHANGED <<slow, desired, plan, paused, shuttingDown, late, own, held>>

(* An answer brought a resource nobody wants any more. *)
Cleanup ==
    /\ Doing("cleanup")
    /\ LET p == Now.of
       IN  Then(IF Now.flag \/ (rt[p].started /\ ~Active(p))
                THEN <<StopStep(p, "cleanup", NoPlan)>> ELSE <<>>)
    /\ UNCHANGED <<slow, desired, plan, paused, shuttingDown, late, rt, call, own, held>>

Host ==
    \/ Desire \/ ApplyDesired \/ Sync \/ Renew \/ Probe \/ Apply \/ Settle \/ Shed \/ Retry
    \/ SendProbe \/ SendStart \/ SendSample \/ Stop
    \/ AwaitProbe \/ AwaitStart \/ AwaitSample \/ AwaitStop
    \/ Reconcile \/ Cleanup

-----------------------------------------------------------------------------
(* The worker threads and the providers behind them *)

(* provider_worker takes the command; call_with_context refuses it when it was
   cancelled, or when its deadline has passed meanwhile. *)
WorkerCalls(p) ==
    /\ call[p].stage = "queued" /\ ~call[p].cancelled
    /\ call' = [call EXCEPT ![p].stage = "running"]
    /\ UNCHANGED <<slow, desired, plan, paused, shuttingDown, late, rt, own, held, agenda>>

WorkerRefuses(p) ==
    /\ call[p].stage = "queued"
    /\ call[p].cancelled \/ call[p].op \in slow
    /\ call' = [call EXCEPT ![p].stage = "answered", ![p].result = "timeout"]
    /\ UNCHANGED <<slow, desired, plan, paused, shuttingDown, late, rt, own, held, agenda>>

Errors(p) == {"failed"} \union
             (IF call[p].cancelled \/ call[p].op \in slow THEN {"timeout"} ELSE {})

(* What a call may answer and leave behind in the provider: a probe or a
   sample may change what is supported, a start may lose a category that no
   longer initialises, a failed start or stop may or may not have released
   what was held, a sample may lose the native runtime. *)
Effects(p) ==
    LET op == call[p].op
        Is(result, caps, hold) == [result |-> result, own |-> caps, held |-> hold]
    IN  CASE op = "Probe" ->
               {Is("ok", s, held[p]) : s \in SUBSET Categories}
               \union {Is(e, own[p], held[p]) : e \in Errors(p)}
          [] op \in {"Start", "Reconfigure"} ->
               {Is("ok", s, call[p].cfg) : s \in SUBSET own[p]}
               \union {Is("ok", own[p] \ call[p].cfg, NoPlan)}
               \union {Is(e, own[p], h) : e \in Errors(p), h \in {held[p], NoPlan}}
          [] op = "Stop" ->
               {Is("ok", own[p], NoPlan)}
               \union {Is(e, own[p], h) : e \in Errors(p), h \in {held[p], NoPlan}}
          [] op = "Sample" ->
               (IF held[p] = NoPlan THEN {}
                ELSE {Is("ok", s, held[p]) : s \in {own[p], {}}} \union {Is("lost", own[p], NoPlan)})
               \union {Is(e, own[p], held[p]) : e \in Errors(p)}

WorkerAnswersWith(p, effect) ==
    /\ call[p].stage = "running"
    /\ effect \in Effects(p)
    /\ call' = [call EXCEPT ![p].stage = "answered", ![p].result = effect.result]
    /\ own' = [own EXCEPT ![p] = effect.own]
    /\ held' = [held EXCEPT ![p] = effect.held]
    /\ UNCHANGED <<slow, desired, plan, paused, shuttingDown, late, rt, agenda>>

WorkerAnswers(p) ==
    call[p].stage = "running" /\ \E effect \in Effects(p) : WorkerAnswersWith(p, effect)

(* A panic ends the thread; the provider goes with it. *)
WorkerDies(p) ==
    /\ p \in Mortal
    /\ call[p].stage = "running"
    /\ call' = [call EXCEPT ![p].stage = "dead"]
    /\ held' = [held EXCEPT ![p] = NoPlan]
    /\ UNCHANGED <<slow, desired, plan, paused, shuttingDown, late, rt, own, agenda>>

Worker(p) == WorkerCalls(p) \/ WorkerRefuses(p) \/ WorkerAnswers(p)

(* Time *)
RetryFallsDue(p) ==
    /\ agenda = <<>>
    /\ rt[p].retry # "None" /\ ~rt[p].retryDue
    /\ rt' = [rt EXCEPT ![p].retryDue = TRUE]
    /\ UNCHANGED <<slow, desired, plan, paused, shuttingDown, late, call, own, held, agenda>>

SampleFallsDue(p) ==
    /\ agenda = <<>>
    /\ ~rt[p].sampleDue
    /\ rt' = [rt EXCEPT ![p].sampleDue = TRUE]
    /\ UNCHANGED <<slow, desired, plan, paused, shuttingDown, late, call, own, held, agenda>>

DeadlinePasses ==
    /\ shuttingDown /\ ~late
    /\ late' = TRUE
    /\ UNCHANGED <<slow, desired, plan, paused, shuttingDown, rt, call, own, held, agenda>>

Next ==
    \/ UpdateSettings \/ SampleDue \/ Pause \/ Resume \/ StopAll
    \/ Host
    \/ \E p \in Providers : Worker(p) \/ WorkerDies(p) \/ RetryFallsDue(p) \/ SampleFallsDue(p)
    \/ DeadlinePasses

Spec == Init /\ [][Next]_vars

(* Both threads run, a native call returns, a backoff ends, the collector asks
   for samples again and again whatever else it does. Nothing makes a call
   succeed: StartsSucceed is the further assumption that a provider that is
   started again and again is, in the end, called before its deadline and
   does start. *)
Fairness ==
    /\ WF_vars(Host) /\ SF_vars(SampleDue) /\ WF_vars(DeadlinePasses)
    /\ \A p \in Providers : WF_vars(Worker(p)) /\ SF_vars(RetryFallsDue(p))

Starting(p) == call[p].op \in {"Start", "Reconfigure"}
StartIsCalled(p) == Starting(p) /\ WorkerCalls(p)
StartSucceeds(p) ==
    Starting(p) /\ \E effect \in Effects(p) : effect.result = "ok" /\ WorkerAnswersWith(p, effect)

StartsSucceed ==
    \A p \in Providers : SF_vars(StartIsCalled(p)) /\ SF_vars(StartSucceeds(p))

FairSpec == Spec /\ Fairness /\ StartsSucceed

-----------------------------------------------------------------------------
(* The shape of the state. *)
TypeOK ==
    /\ desired \in [Providers -> Plans] /\ plan \in [Providers -> Plans]
    /\ paused \in BOOLEAN /\ shuttingDown \in BOOLEAN /\ late \in BOOLEAN
    /\ rt \in [Providers -> Runtimes] /\ call \in [Providers -> Calls]
    /\ own \in [Providers -> SUBSET Categories] /\ held \in [Providers -> Plans]

Settled(p) == agenda = <<>> /\ ~Busy(p)
ProbesInTime == "Probe" \notin slow
SamplesInTime == "Sample" \notin slow

\* With two, the outer of two nested loops can overwrite the second's plan with
\* its own older one. What depends on the plan a provider is on is stated of one.
Alone == Cardinality(Providers) = 1

\* What the user wants of a provider, of what it supports, is something.
Wanted(p) == ~paused /\ ~shuttingDown /\ Enabled(plan[p])

(* However many providers there are: one that is wanted, and has no call left to
   answer, is itself on a plan that wants it, and runs or has a retry scheduled.
   It is never enabled, failed and forgotten, and no outer loop that goes on with
   an older plan leaves it switched off. (With late probe answers both happen:
   apply_plan_inner disables the provider by the older plan it goes on with.) *)
NeverStranded ==
    ProbesInTime =>
      \A p \in Providers :
        Settled(p) /\ Wanted(p) =>
          Active(p) /\ (rt[p].started \/ rt[p].retry # "None")

(* Whatever answers arrive and however the loops nest, the host comes back
   with the plan that is what the user wants of what the providers support. A
   single provider is on that plan. *)
PlansAgree ==
    agenda = <<>> =>
      /\ plan = Effective
      /\ Alone => \A p \in Providers : rt[p].plan = plan[p]

(* A late answer never revives what was disabled, paused or shut down, as long
   as probes answer in time: the late answer of a probe that brings no news
   leaves a disabled provider running, because reconcile_completion only looks
   at what is left to clean up when the capabilities changed. The retry a dead
   worker leaves behind is never taken. *)
IntentWins ==
    ProbesInTime =>
      \A p \in Providers :
        Settled(p) /\ ~Active(p) =>
          /\ ~rt[p].started /\ rt[p].lifecycle # "Running"
          /\ Alone => rt[p].retry = "None" \/ call[p].stage = "dead"

(* A provider that runs, with nothing left to retry, runs its current plan:
   nothing is collected that the plan excludes. (A sample or a probe that times
   out while the plan changes can leave it on the older one.) *)
RunsItsPlan ==
    Alone /\ ProbesInTime /\ SamplesInTime =>
      \A p \in Providers :
        Settled(p) /\ rt[p].started /\ rt[p].retry = "None" /\ call[p].stage # "dead" =>
          held[p] = rt[p].plan

(* A call is sent to a worker only when its former call is done with. *)
OneCallAtATime ==
    [][\A p \in Providers :
         call[p].stage # "queued" /\ call'[p].stage = "queued" => call[p].stage = "idle"]_vars

(* The nested loops end: the host always comes back to the collector. *)
HostReturns == []<>(agenda = <<>>)

(* A provider that stays wanted, and whose worker lives, runs again and again. *)
WantedRuns ==
    Alone /\ ProbesInTime =>
      \A p \in Providers :
        <>[](Active(p) /\ call[p].stage # "dead") => []<>(rt[p].started)
=============================================================================
