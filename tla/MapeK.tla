------------------------------- MODULE MapeK -------------------------------
(***************************************************************************)
(* The life of one task in the engine: ExecutionEngine::run_offline        *)
(* (h2ai-orchestrator/src/engine.rs) with the MapeKController it asks for  *)
(* a decision after every wave (h2ai-orchestrator/src/mape_k.rs), and what *)
(* the API task reports when the engine returns (task_pipeline.rs).        *)
(*                                                                         *)
(*   prepare -> loop { wave -> boundary -> decide } -> gate -> resolve     *)
(*                \-> repair (restart) | exhaust -> synthesis wave         *)
(*                                                                         *)
(* A wave is any result WaveContract allows.  Scores, thresholds, probes   *)
(* and reviewers are nondeterministic; tokens are counted in units of one  *)
(* charged wave.                                                           *)
(***************************************************************************)
EXTENDS Naturals, FiniteSets

CONSTANTS
    Constraint,     \* ids of the hard constraints of the corpus
    MaxRetries,     \* max_autonomic_retries: waves are 0..MaxRetries
    RestartBound,   \* successful spec repairs are explored up to this many
    Configs         \* the configurations to consider, see ConfigFields

ASSUME BoundsAssumption == MaxRetries \in Nat /\ RestartBound \in Nat

\* The part of H2AIConfig, the manifest and the corpus the engine branches on.
ConfigFields ==
    [deadline        : BOOLEAN,     \* task_deadline_secs is set
     oomGuard        : BOOLEAN,     \* oom_guard.enabled
     budget          : Nat,         \* budget tokens * budget_abort_fraction, 0 = off
     gapK1           : BOOLEAN,     \* gap_k1.enabled: spec instability detection
     repairAdapter   : BOOLEAN,     \* a researcher or an explorer can repair the spec
     tee             : BOOLEAN,     \* tiered_exit.enabled
     probe           : {"none", "low", "decompose", "hitl"}, \* the probe's score, if it ran
     minGraft        : Nat,         \* complexity_routing.min_retries_before_graft
     viable          : BOOLEAN,     \* some constraint has binary_checks
     integration     : BOOLEAN,     \* integration_wave.enabled
     intra           : BOOLEAN,     \* intra_retry.enabled
     intraMin        : Nat,         \* intra_retry.min_retry_count_for_detection
     synthesisWave   : BOOLEAN,     \* synthesis_wave_enabled
     nats            : BOOLEAN,     \* the engine has a NATS client
     hitl            : BOOLEAN,     \* hitl.enabled
     window          : BOOLEAN,     \* signal_wave_window_ms > 0
     oracleTask      : BOOLEAN,     \* the manifest names an oracle
     requireApproval : BOOLEAN,     \* manifest.require_approval
     strict          : BOOLEAN]     \* reasoning memory with strict_audit_checkpoint

VARIABLES
    pc,         \* where run_offline stands
    cfg,        \* the configuration of this task
    retry,      \* retry_count of the 'wave loop
    restarts,   \* spec_ambiguous_restarts
    ctl,        \* the MapeKController of this pass of the 'restart loop
    wave,       \* the wave just run
    graft,      \* complexity_overflow_graft_signal
    status,     \* the task's entry in the TaskStore
    consumer,   \* the durable signal consumer on the NATS server
    sub,        \* signal_sub.is_some()
    verdict,    \* what the HITL gate decided
    late,       \* task_deadline_secs have passed since the task started
    spent,      \* tokens charged since the task started
    waves,      \* waves run since the task started
    result      \* what run_offline returned

vars == <<pc, cfg, retry, restarts, ctl, wave, graft, status, consumer, sub, verdict,
          late, spent, waves, result>>

NoWave == [outcome |-> "pending", reasons |-> {}, charged |-> FALSE]
Wave == INSTANCE WaveContract WITH
    retryLeft <- retry < MaxRetries, result <- wave

\* MapeKController::new: nothing survives from an earlier pass, neither the
\* deadline nor the token count.
FreshController ==
    [tokens |-> 0, exhausted |-> FALSE, overdue |-> FALSE, prev |-> {}, last |-> {},
     scored |-> 0, partials |-> FALSE]

Init ==
    /\ cfg \in Configs
    /\ pc = "prepare" /\ retry = 0 /\ restarts = 0 /\ ctl = FreshController
    /\ wave = NoWave /\ graft = FALSE /\ status = "absent" /\ consumer = "none"
    /\ sub = FALSE /\ verdict = "none" /\ late = FALSE
    /\ spent = 0 /\ waves = 0 /\ result = "none"

Return(r) == pc' = "returned" /\ result' = r

\* subscribe_signals creates the durable consumer, then opens its stream; each
\* of the two may fail, and failure is only logged.
Subscribe ==
    \/ consumer' = "live" /\ sub' = TRUE
    \/ consumer' = "live" /\ UNCHANGED sub
    \/ UNCHANGED <<consumer, sub>>

\* delete_signal_consumer where the code guards it by signal_sub; a failed
\* deletion is only logged.
CleanUp ==
    consumer' \in IF cfg.nats /\ sub THEN {"deleted", "delete_failed"} ELSE {consumer}

\* write_reasoning_checkpoint: a failed write ends the task in strict mode.
WriteFails == cfg.strict /\ cfg.nats /\ Return("checkpoint")

-----------------------------------------------------------------------------
(* Before the loop *)

\* The task is inserted, the signal consumer created, and the one-shot phases
\* run: bootstrap, complexity, domain coverage, probe.  Their errors return as
\* they are; the engine marks nothing and keeps the consumer.
Prepare ==
    /\ pc = "prepare"
    /\ status' = "active"
    /\ \/ WriteFails /\ UNCHANGED <<consumer, sub>>
       \/ /\ IF cfg.nats /\ (cfg.hitl \/ cfg.window) THEN Subscribe
             ELSE UNCHANGED <<consumer, sub>>
          /\ \/ Return("preloop")
             \/ pc' = "loop" /\ UNCHANGED result
    /\ UNCHANGED <<cfg, retry, restarts, ctl, wave, graft, verdict,
                   late, spent, waves>>

-----------------------------------------------------------------------------
(* The 'wave loop *)

\* The clock passes the deadline of the current controller.  The controller
\* takes its deadline when it is built, so a restart grants a new one.
DeadlinePasses ==
    /\ pc \notin {"prepare", "returned", "reported"}
    /\ cfg.deadline /\ ~ctl.overdue
    /\ ctl' = [ctl EXCEPT !.overdue = TRUE]
    /\ late' = TRUE
    /\ UNCHANGED <<pc, cfg, retry, restarts, wave, graft, status, consumer, sub, verdict,
                   spent, waves, result>>

DeadlineStops ==
    /\ pc = "loop" /\ ctl.overdue
    /\ status' = "failed"
    /\ Return("deadline")
    /\ UNCHANGED <<cfg, retry, restarts, ctl, wave, graft, consumer, sub, verdict,
                   late, spent, waves>>

\* MapeKController::observe: the two last waves' pruned branches are kept.
Rotated(w) == [prev |-> ctl.last, last |-> w.reasons]

InTime == ~ctl.overdue

\* The next wave runs and is observed; the OOM guard only raises the flag of
\* the exhausted budget; then the wave's tokens are charged.
RunWave ==
    /\ pc = "loop" /\ InTime
    /\ wave' \in Wave!WaveResults(retry < MaxRetries)
    /\ \E oom \in IF cfg.oomGuard THEN BOOLEAN ELSE {FALSE} :
         ctl' = [ctl EXCEPT
             !.prev = Rotated(wave').prev, !.last = Rotated(wave').last,
             !.exhausted = @ \/ oom,
             !.tokens = IF wave'.charged THEN @ + 1 ELSE @,
             !.scored = IF wave'.charged THEN @ + 1 ELSE @,
             !.partials = @ \/ (wave'.charged /\ wave'.outcome \in Wave!RecordedEnds)]
    /\ spent' = IF wave'.charged THEN spent + 1 ELSE spent
    /\ waves' = waves + 1
    /\ pc' = "boundary"
    /\ UNCHANGED <<cfg, retry, restarts, graft, status, consumer, sub, verdict,
                   late, result>>

\* The window is no gate: it closes by its timer.
WaitForSignal == IF cfg.window THEN "boundary" ELSE "decide"
AfterWindow == "decide"

\* Between wave and decision: the WaveCompleted checkpoint and the operator's
\* WaveContinue window, which reopens the signal stream and goes on in any case.
Boundary ==
    /\ pc = "boundary"
    /\ \/ WriteFails /\ UNCHANGED <<consumer, sub>>
       \/ /\ UNCHANGED result
          /\ IF cfg.nats /\ cfg.window THEN Subscribe ELSE UNCHANGED <<consumer, sub>>
          /\ pc' = AfterWindow
    /\ UNCHANGED <<cfg, retry, restarts, ctl, wave, graft, status, verdict, late, spent,
                   waves>>

-----------------------------------------------------------------------------
(* MapeKController::decide *)

\* find_instability: one constraint pruned branches in both last waves, with
\* reasons that hardly overlap.
UnstableOnce == ctl.last # {}
Unstable == ctl.last \cap ctl.prev # {}

\* The budget is consulted only when a wave has resolved.
BudgetExhausted == ctl.exhausted \/ (cfg.budget > 0 /\ ctl.tokens >= cfg.budget)

\* A resolved wave is returned, or repeated while the tiered exit wants more
\* accepted proposals.
ResolvedDecisions ==
    {"return"} \cup
        (IF cfg.tee /\ retry < MaxRetries /\ ~BudgetExhausted THEN {"retry"} ELSE {})

\* handle_exit_reason for ZeroSurvival: the integration wave on a plateau or on
\* isolated partial passes (which need binary checks), the intra-retry ceiling,
\* else RetryPolicy::decide.  No topology is ever recorded as tried, so the
\* policy always finds one and never fails.
ZeroSurvivalDecisions ==
    {"retry"}
    \cup (IF cfg.integration /\ ((retry >= 2 /\ ctl.scored >= 2)
                                 \/ (ctl.partials /\ cfg.viable))
          THEN {"graft"} ELSE {})
    \cup (IF cfg.intra /\ retry >= cfg.intraMin
          THEN {IF retry < 2 THEN "graft" ELSE "overflow"} ELSE {})

\* handle_exit_reason: the probe's routing comes before every exit reason.
ExitDecisions(reason) ==
    IF cfg.probe = "hitl" THEN {"overflow"}
    ELSE IF cfg.probe = "decompose" /\ retry >= cfg.minGraft /\ cfg.viable THEN {"graft"}
    ELSE IF reason = "ZeroSurvival" THEN ZeroSurvivalDecisions
    ELSE IF reason = "OracleBlocked" THEN {"fail"} ELSE {"retry"}

Decisions ==
    (IF cfg.gapK1 /\ Unstable THEN {"ambiguous"} ELSE {})
    \cup (CASE wave.outcome = "resolved" -> ResolvedDecisions
            [] wave.outcome = "fatal" -> {"fail"}
            [] OTHER -> ExitDecisions(wave.outcome))

\* 'wave runs for 0..=max_autonomic_retries: a retry after the last wave falls
\* out of the loop.
AfterRetry == IF retry < MaxRetries THEN "loop" ELSE "exhaust"

NextRetry == IF retry < MaxRetries THEN retry + 1 ELSE retry

\* needs_hitl: require_approval, or a confidence below the threshold.
MayNeedReview == cfg.hitl /\ ~cfg.oracleTask

Decide ==
    /\ pc = "decide"
    /\ \E d \in Decisions :
         /\ ctl' = [ctl EXCEPT !.exhausted =
                       IF wave.outcome = "resolved" /\ d # "ambiguous" THEN BudgetExhausted
                       ELSE @]
         /\ graft' = (d = "graft")
         /\ retry' = IF d = "retry" THEN NextRetry ELSE retry
         /\ \/ d = "retry" /\ pc' = AfterRetry
            \/ /\ d = "return"
               /\ \/ MayNeedReview /\ pc' = "gate"
                  \/ ~(MayNeedReview /\ cfg.requireApproval) /\ pc' = "resolve"
            \/ d = "fail" /\ pc' = "fail"
            \/ d = "overflow" /\ pc' = "overflow"
            \/ d = "graft" /\ pc' = "exhaust"
            \/ d = "ambiguous" /\ pc' = "repair"
    /\ UNCHANGED <<cfg, restarts, wave, status, consumer, sub, verdict, late,
                   spent, waves, result>>

-----------------------------------------------------------------------------
(* The ways out of the loop *)

\* The HITL gate opens: the store shows it and the signal stream is reopened.
OpenGate ==
    /\ pc = "gate"
    /\ status' = "awaiting"
    /\ IF cfg.nats THEN Subscribe ELSE UNCHANGED <<consumer, sub>>
    /\ pc' = "review"
    /\ UNCHANGED <<cfg, retry, restarts, ctl, wave, graft, verdict, late, spent,
                   waves, result>>

\* The gate closes by an operator's verdict, or approves by itself on a timeout,
\* a late or foreign signal, or without a stream.  The checkpoint's outcome is
\* ignored here, strict or not.  A rejection fails the task.
Verdicts == IF sub THEN {"approved", "rejected", "auto"} ELSE {"auto"}
AcceptAny(v) == TRUE
Approves(v) == v # "rejected"

CloseGate ==
    /\ pc = "review"
    /\ verdict' \in Verdicts
    /\ \/ /\ Approves(verdict')
          /\ pc' = "resolve" /\ UNCHANGED <<status, consumer, result>>
       \/ /\ ~Approves(verdict')
          /\ status' = "failed"
          /\ consumer' \in IF cfg.nats THEN {"deleted", "delete_failed"} ELSE {consumer}
          /\ Return("rejected")
    /\ UNCHANGED <<cfg, retry, restarts, ctl, wave, graft, sub, late, spent, waves>>

\* The Resolved checkpoint, then the consumer is deleted and Ok returned.  The
\* task's status is left to the caller.
KeepConsumer == UNCHANGED consumer
ResolveCleanUp == CleanUp

Resolve ==
    /\ pc = "resolve"
    /\ \/ WriteFails /\ UNCHANGED consumer
       \/ ResolveCleanUp /\ Return("ok")
    /\ UNCHANGED <<cfg, retry, restarts, ctl, wave, graft, status, sub, verdict, late,
                   spent, waves>>

\* MapeKDecision::Fail.
Fail ==
    /\ pc = "fail"
    /\ status' = "failed" /\ CleanUp /\ Return("failed")
    /\ UNCHANGED <<cfg, retry, restarts, ctl, wave, graft, sub, verdict, late,
                   spent, waves>>

\* ComplexityOverflow without grafting: failed, and the consumer stays.
Overflow ==
    /\ pc = "overflow"
    /\ status' = "failed" /\ Return("overflow")
    /\ UNCHANGED <<cfg, retry, restarts, ctl, wave, graft, consumer, sub, verdict,
                   late, spent, waves>>

\* SpecAmbiguous: without an adapter the task fails here, else a rewrite of the
\* check is tried.  A repaired corpus restarts the task; the guard on restarts
\* and auto_repair_enabled only logs.  The return for a constraint that the
\* corpus lacks is never taken: only the verifier's violations carry the reasons
\* find_instability compares, and they name constraints of the corpus.
Repair ==
    /\ pc = "repair"
    /\ \/ /\ ~cfg.repairAdapter
          /\ Return("failed") /\ UNCHANGED <<retry, restarts, ctl, wave>>
       \/ /\ cfg.repairAdapter /\ restarts < RestartBound
          /\ restarts' = restarts + 1 /\ retry' = 0 /\ wave' = NoWave
          /\ ctl' = FreshController
          /\ pc' = "loop" /\ UNCHANGED result
       \/ /\ cfg.repairAdapter
          /\ pc' = "exhaust" /\ UNCHANGED <<retry, restarts, ctl, wave, result>>
    /\ UNCHANGED <<cfg, graft, status, consumer, sub, verdict,
                   late, spent, waves>>

\* The loop is over without a result: failed, and the consumer deleted, before
\* the synthesis wave is tried.
Exhaust ==
    /\ pc = "exhaust"
    /\ status' = "failed" /\ CleanUp
    /\ pc' = "synthesis"
    /\ UNCHANGED <<cfg, retry, restarts, ctl, wave, graft, sub, verdict, late,
                   spent, waves, result>>

\* The terminal synthesis wave grafts partial passes together, if the corpus has
\* checks and some proposal passed some of them; a text that passes verification
\* is returned at once.
MaySynthesize == (cfg.synthesisWave \/ graft) /\ cfg.viable /\ ctl.partials

SynthesisWave ==
    /\ pc = "synthesis"
    /\ \/ /\ MaySynthesize
          /\ status' = "resolved" /\ Return("ok")
       \/ UNCHANGED status /\ Return("failed")
    /\ UNCHANGED <<cfg, retry, restarts, ctl, wave, graft, consumer, sub, verdict,
                   late, spent, waves>>

\* task_pipeline: the caller publishes MergeResolved or TaskFailed and sets the
\* status once more.
FinalStatus == IF result = "ok" THEN "resolved" ELSE "failed"

Report ==
    /\ pc = "returned"
    /\ status' = FinalStatus
    /\ pc' = "reported"
    /\ UNCHANGED <<cfg, retry, restarts, ctl, wave, graft, consumer, sub, verdict,
                   late, spent, waves, result>>

Done == pc = "reported" /\ UNCHANGED vars

\* The steps that end by themselves: code that awaits only NATS requests, and the
\* two waits for an operator, which their timers end.
OwnStep ==
    \/ DeadlineStops \/ Boundary \/ Decide \/ OpenGate \/ CloseGate
    \/ Fail \/ Overflow \/ Exhaust \/ Report

\* The steps that await models without a timeout: the one-shot phases, a wave,
\* the advisor of a repair, the epistemic stage on the way out (engine.rs:1511)
\* and the synthesis wave (engine.rs:2166, 2224, 2338, 2449).
ModelStep == Prepare \/ RunWave \/ Resolve \/ Repair \/ SynthesisWave

Next == OwnStep \/ ModelStep \/ DeadlinePasses \/ Done

Spec == Init /\ [][Next]_vars

\* run_offline is one sequential future: while it has a step of its own to take
\* it takes it.  The clock owes nothing, and a deadline does not interrupt a call.
FairSpec == Spec /\ WF_vars(OwnStep)

-----------------------------------------------------------------------------
(* Properties *)

\* The loop counters stay within their limits and the controller remembers
\* constraints of the corpus only (engine.rs, mape_k.rs).
TypeOK ==
    /\ pc \in {"prepare", "loop", "boundary", "decide", "gate", "review", "resolve", "fail",
               "overflow", "repair", "exhaust", "synthesis", "returned", "reported"}
    /\ cfg \in Configs
    /\ retry \in 0..MaxRetries /\ restarts \in 0..RestartBound
    /\ ctl.prev \subseteq Constraint /\ ctl.last \subseteq Constraint
    /\ graft \in BOOLEAN /\ sub \in BOOLEAN /\ late \in BOOLEAN
    /\ status \in {"absent", "active", "awaiting", "failed", "resolved"}
    /\ consumer \in {"none", "live", "deleted", "delete_failed"}
    /\ verdict \in {"none", "approved", "rejected", "auto"}
    /\ result \in {"none", "ok", "checkpoint", "preloop", "deadline", "rejected", "failed",
                   "overflow"}

\* A reviewer's rejection is final: no later path of the engine (the synthesis
\* wave, a repair) delivers the task (engine.rs HITL gate).
RejectionIsFinal ==
    verdict = "rejected" => result = "rejected" /\ status = "failed"

\* A delivered task has let go of the signal consumer it was subscribed to, on
\* the resolving path and on the synthesis path.
DeliveredReleasesConsumer == result = "ok" /\ sub => consumer # "live"

\* Each pass of the restart loop runs at least two waves before it can find the
\* spec unstable, since the controller starts without history, and at most
\* MaxRetries + 1 of them.
WaveAccounting ==
    /\ 2 * restarts <= waves
    /\ waves <= (restarts + 1) * (MaxRetries + 1)

\* Without spec repair, and as long as the model calls return, every task is
\* reported, with or without an operator: neither the WaveContinue window nor
\* the HITL gate can hold it.
TaskReported == WF_vars(ModelStep) /\ ~cfg.gapK1 => <>(pc = "reported")

\* What docs/architecture/reference.md:62 says of require_approval: it forces a
\* review gate, where gates are on and no oracle judges the task.  The synthesis
\* wave returns its text without one (engine.rs:2537).
ApprovalIsAsked ==
    result = "ok" /\ cfg.requireApproval /\ MayNeedReview => verdict # "none"

\* What docs/architecture/reference.md:1013 says of the token budget of a task:
\* once it is used up further retries are blocked.  The controller looks at it
\* after resolved waves only, and a restart counts from zero (mape_k.rs).
BudgetBlocksRetries ==
    [][RunWave /\ cfg.budget > 0 => spent < cfg.budget]_vars

\* What docs/architecture/reference.md:1722 says of the signal consumer: it is
\* deleted on task close.  Several ways out of run_offline keep it.
ClosedTaskReleasesConsumer == pc = "reported" => consumer # "live"
=============================================================================
