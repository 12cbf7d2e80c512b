---------------------------- MODULE WavePipeline ----------------------------
(***************************************************************************)
(* One MAPE-K wave: Pipeline::run of h2ai-orchestrator/src/pipeline.rs and  *)
(* the phases it calls (h2ai-orchestrator/src/phases).                      *)
(*                                                                          *)
(*   topology -> multiply -> diversity -> generation -> hallucination ->    *)
(*   verify -> audit -> oracle -> synthesis -> merge -> post-selection      *)
(*                                                                          *)
(* Each phase is one action, except generation and audit, which work on the *)
(* explorers one by one: generation runs all of them concurrently under one *)
(* timeout, audit calls the auditor for one proposal after the other.       *)
(* What a model, the verifier, the auditor or the oracle answers is a       *)
(* nondeterministic choice.  Texts are left out; a proposal is named by its *)
(* explorer, and a compliance score is one of the ranks in Scores.          *)
(***************************************************************************)
EXTENDS Naturals, FiniteSets

CONSTANTS
    Explorer,       \* the explorer slots of the wave
    Constraint,     \* ids of the constraints of the corpus
    MaxScore,       \* compliance scores are the ranks 0..MaxScore
    Settings        \* the configurations to consider, see SettingFields

Scores == 0..MaxScore

\* The part of H2AIConfig, manifest and calibration that the phases branch on.
SettingFields ==
    [retry         : Nat,       \* retry_count of this wave
     maxRetries    : Nat,       \* max_autonomic_retries
     quorumShort   : BOOLEAN,   \* the merge strategy needs more explorers
     multiplies    : BOOLEAN,   \* the calibration meets the multiplication condition
     homogeneous   : BOOLEAN,   \* n_eff prior below 1 + diversity_threshold
     diversityPct  : 0..100,    \* safety.diversity_threshold in percent, 0 is off
     fallback      : BOOLEAN,   \* safety.diversity_fallback_to_best
     skipAudit     : BOOLEAN,   \* the auditor is the explorers' own adapter
     failOpen      : BOOLEAN,   \* audit_gate.fail_open_on_parse_error
     shadow        : {"absent", "observing", "voting"},
     oracle        : {"off", "no_nats", "armed"},
     onTimeout     : {"pass", "fail", "skip"},
     onFail        : {"evict", "clarify", "pass"},
     synthesis     : BOOLEAN,   \* synthesis enabled (or forced) with an adapter
     synthesisMin  : Nat,       \* synthesis_min_proposals
     bypassed      : SUBSET Constraint]  \* bypassed_constraint_ids of this wave

ASSUME SettingsAssumption == Settings \subseteq SettingFields
ASSUME ScoreAssumption == MaxScore \in Nat \ {0}
ASSUME ExplorerAssumption == IsFiniteSet(Explorer) /\ IsFiniteSet(Constraint)

VARIABLES
    phase,      \* the phase about to run, or "done"
    setting,    \* the configuration of this run
    gen,        \* what each explorer's future has produced
    score,      \* verifier score of each verified proposal
    violated,   \* constraint ids each pruned proposal is charged with
    passed,     \* proposals still alive (verify_out.proposals, then audited)
    unaudited,  \* the proposals the audit loop has not reached
    approved,   \* synthesis_candidates / proposal_set
    pruned,     \* the local `pruned` vector
    events,     \* WaveEvents
    gate,       \* the oracle's reply before synthesis, "none" when not asked
    judged,     \* the oracle was shown the text of the outcome
    outcome     \* PipelineOutcome

vars == <<phase, setting, gen, score, violated, passed, unaudited, approved,
          pruned, events, gate, judged, outcome>>

NoOutcome == [kind |-> "none"]
Exit(reason) == [kind |-> "early_exit", reason |-> reason]
Fatal(reason) == [kind |-> "fatal", reason |-> reason]
\* Resolved carries the explorer whose text is returned, or the synthesis text.
Resolved(winner) == [kind |-> "resolved", winner |-> winner]
Synthesized == "synthesis"

ASSUME SynthesizedAssumption == Synthesized \notin Explorer

Proposed == {e \in Explorer : gen[e] = "proposed"}

Init ==
    /\ phase = "topology"
    /\ setting \in Settings
    /\ gen = [e \in Explorer |-> "idle"]
    /\ score = [e \in Explorer |-> 0]
    /\ violated = [e \in Explorer |-> {}]
    /\ passed = {} /\ unaudited = {} /\ approved = {} /\ pruned = {}
    /\ events = [failed |-> {}, verified |-> {}, pruned |-> {}, charged |-> {}]
    /\ gate = "none" /\ judged = FALSE
    /\ outcome = NoOutcome

End(out) == phase' = "done" /\ outcome' = out
GoTo(p) == phase' = p /\ UNCHANGED outcome

-----------------------------------------------------------------------------
(* Phases 2, 2.5 and 2.6: before any model is called *)

\* phases::topology: an outlier-resistant strategy without n >= 2f + 3
\* explorers is refused.
Topology ==
    /\ phase = "topology"
    /\ IF setting.quorumShort
       THEN End(Fatal("InsufficientQuorum"))
       ELSE GoTo("multiply")
    /\ UNCHANGED <<setting, gen, score, violated, passed, unaudited, approved, pruned,
                   events, gate, judged>>

\* phases::multiply: competence, decorrelation and common ground come from the
\* calibration alone, so every wave of a task gives the same answer.
Multiply ==
    /\ phase = "multiply"
    /\ IF setting.multiplies
       THEN GoTo("diversity")
       ELSE End(Exit("MultiplicationFailed"))
    /\ UNCHANGED <<setting, gen, score, violated, passed, unaudited, approved, pruned,
                   events, gate, judged>>

\* phases::diversity: the pool's prior diversity.
Diversity ==
    /\ phase = "diversity"
    /\ IF setting.diversityPct > 0 /\ setting.homogeneous
       THEN /\ End(Exit("DiversityFailed"))
            /\ UNCHANGED gen
       ELSE /\ GoTo("generation")
            /\ gen' = [e \in Explorer |-> "running"]
    /\ UNCHANGED <<setting, score, violated, passed, unaudited, approved, pruned, events,
                   gate, judged>>

-----------------------------------------------------------------------------
(* Phase 3: generation *)

\* One explorer's TAO loop returns a proposal or an adapter error.
ExplorerEnds(e) ==
    /\ phase = "generation" /\ gen[e] = "running"
    /\ gen' \in {[gen EXCEPT ![e] = "proposed"], [gen EXCEPT ![e] = "failed"]}
    /\ UNCHANGED <<phase, setting, score, violated, passed, unaudited, approved, pruned,
                   events, gate, judged, outcome>>

\* join_all has every result: failures become ProposalFailed events.
NoFailures == {}
FailedProposals == {e \in Explorer : gen[e] = "failed"}

GenerationJoined ==
    /\ phase = "generation"
    /\ \A e \in Explorer : gen[e] # "running"
    /\ GoTo("hallucination")
    /\ events' = [events EXCEPT !.failed = FailedProposals]
    /\ UNCHANGED <<setting, gen, score, violated, passed, unaudited, approved, pruned,
                   gate, judged>>

\* The timeout drops join_all as a whole, so the explorers that had already
\* answered are lost too.
GenerationTimesOut ==
    /\ phase = "generation"
    /\ \E e \in Explorer : gen[e] = "running"
    /\ GoTo("hallucination")
    /\ gen' = [e \in Explorer |-> "lost"]
    /\ UNCHANGED <<setting, score, violated, passed, unaudited, approved, pruned, events,
                   gate, judged>>

\* The clustering check runs while a retry is left and two texts can be compared.
ClustersEvenWithoutRetry == Cardinality(Proposed) >= 2
MayCluster == setting.retry < setting.maxRetries /\ Cardinality(Proposed) >= 2

\* phases::hallucination: clustered texts end the wave while a retry is left;
\* otherwise the token cost of every proposal is charged.
Hallucination ==
    /\ phase = "hallucination"
    /\ \/ /\ MayCluster
          /\ End(Exit("HallucinationDetected"))
          /\ UNCHANGED events
       \/ /\ GoTo("verify")
          /\ events' = [events EXCEPT !.charged = Proposed]
    /\ UNCHANGED <<setting, gen, score, violated, passed, unaudited, approved, pruned,
                   gate, judged>>

-----------------------------------------------------------------------------
(* Phase 3.5: verification *)

\* The proposals kept when the passing ones are too alike: with
\* diversity_fallback_to_best only a best-scoring one goes on.
BestOf(S, sc) == {e \in S : \A x \in S : sc[x] <= sc[e]}

\* DiversityGuard::check: the mean pairwise Hamming distance between the
\* fingerprints of the passing proposals (which unscaled hard gates each one
\* passes) is below the threshold.  Fewer than two proposals never collapse.
Differences(S, fp) ==
    {t \in S \X S \X Constraint : t[1] # t[2] /\ (t[3] \in fp[t[1]]) # (t[3] \in fp[t[2]])}
Collapsed(S, fp) ==
    /\ Cardinality(S) >= 2 /\ Constraint # {}
    /\ 100 * Cardinality(Differences(S, fp))
         < setting.diversityPct * Cardinality(S) * (Cardinality(S) - 1) * Cardinality(Constraint)

\* The fingerprints of passing proposals.  Passing means meeting every hard gate
\* scaled by 0.9^retry_count, so in the first wave every unscaled one.
Fingerprints(S) ==
    IF setting.retry = 0 THEN {[e \in S |-> Constraint]} ELSE [S -> SUBSET Constraint]

\* The failing proposals, one BranchPruned each.
Failing(ok) == Proposed \ ok

\* phases::verify: every proposal is scored and the failing ones are pruned
\* with the constraints they violate; bypassed_constraint_ids only changes the
\* score of a failing proposal, never whether it fails.  A wave that collapses
\* carries its verification events but not its pruned ones.
VerifyResult(ok, sc, fp, vi) ==
    /\ score' = [e \in Explorer |-> IF e \in Proposed THEN sc[e] ELSE 0]
    /\ violated' = [e \in Explorer |-> IF e \in Proposed \ ok THEN vi[e] ELSE {}]
    /\ pruned' = Failing(ok)
    /\ \/ /\ ~Collapsed(ok, fp)
          /\ passed' = ok /\ unaudited' = ok
          /\ GoTo("audit") /\ UNCHANGED events
       \/ /\ Collapsed(ok, fp) /\ setting.fallback
          /\ \E best \in BestOf(ok, sc) : passed' = {best} /\ unaudited' = {best}
          /\ GoTo("audit") /\ UNCHANGED events
       \/ /\ Collapsed(ok, fp) /\ ~setting.fallback
          /\ passed' = ok /\ unaudited' = {}
          /\ End(Exit("ZeroSurvival"))
          /\ events' = [events EXCEPT !.verified = Proposed]

Verify ==
    /\ phase = "verify"
    /\ \E ok \in SUBSET Proposed, sc \in [Proposed -> Scores] :
         \E fp \in Fingerprints(ok), vi \in [Proposed \ ok -> SUBSET Constraint] :
            VerifyResult(ok, sc, fp, vi)
    /\ UNCHANGED <<setting, gen, approved, gate, judged>>

-----------------------------------------------------------------------------
(* Phase 4: auditor gate *)

Votes == {"approve", "reject", "unparsable", "error"}

\* The primary auditor's decision; unparsable answers follow
\* fail_open_on_parse_error.
PrimaryApproves(vote) == vote = "approve" \/ (vote = "unparsable" /\ setting.failOpen)
\* Only a shadow answer that parses counts, and only for a promoted domain; a
\* shadow that erred falls back to the primary.
ShadowAgrees(shadow) ==
    setting.shadow = "voting" /\ shadow \in {"approve", "reject"} => shadow = "approve"

KeepUnaudited(e) == unaudited
Remaining(e) == unaudited \ {e}

\* One turn of the audit loop.  A primary adapter error ends the wave.
AuditOne(e) ==
    /\ phase = "audit" /\ e \in unaudited
    /\ unaudited' = Remaining(e)
    /\ \E primary \in Votes, shadow \in Votes, named \in SUBSET Constraint :
         /\ setting.skipAudit => primary = "approve" /\ shadow = "error"
         /\ setting.shadow = "absent" => shadow = "error"
         /\ IF primary = "error"
            THEN /\ End(Fatal("Adapter"))
                 /\ UNCHANGED <<approved, pruned, violated>>
            ELSE /\ UNCHANGED <<phase, outcome>>
                 /\ IF PrimaryApproves(primary) /\ ShadowAgrees(shadow)
                    THEN /\ approved' = approved \cup {e}
                         /\ UNCHANGED <<pruned, violated>>
                    ELSE /\ pruned' = pruned \cup {e}
                         /\ violated' = [violated EXCEPT
                                ![e] = IF primary = "unparsable" THEN {} ELSE named]
                         /\ UNCHANGED approved
    /\ UNCHANGED <<setting, gen, score, passed, events, gate, judged>>

AuditEnds ==
    /\ phase = "audit" /\ unaudited = {}
    /\ GoTo("oracle")
    /\ UNCHANGED <<setting, gen, score, violated, passed, unaudited, approved, pruned,
                   events, gate, judged>>

-----------------------------------------------------------------------------
(* Oracle gate, synthesis, merge and post-selection *)

\* External: the oracle service approves, rejects or stays silent (a timeout,
\* or a reply that does not parse).
Replies == {"passed", "failed", "silent"}
\* The verdict read from a reply: silence passes only under on_timeout "pass".
SilencePasses(reply) == reply # "failed"
GatePasses(reply) == reply = "passed" \/ (reply = "silent" /\ setting.onTimeout = "pass")

\* phases::oracle::run; when it lets the wave go on, the pruned branches are
\* recorded (events.pruned_events).
Oracle ==
    /\ phase = "oracle"
    /\ gate' \in IF setting.oracle = "armed" THEN Replies ELSE {"none"}
    /\ IF gate' = "none" \/ GatePasses(gate')
       THEN /\ GoTo("synthesis")
            /\ events' = [events EXCEPT !.pruned = pruned]
       ELSE /\ End(Exit("OracleBlocked"))
            /\ UNCHANGED events
    /\ UNCHANGED <<setting, gen, score, violated, passed, unaudited, approved, pruned,
                   judged>>

\* CoherenceState: domains of violated constraints that no survivor covers.
\* Survivors cover the domain of every Hard constraint; here every constraint
\* is its own domain and `hard` is the part of them that is Hard.
Uncovered(hard) == UNION {violated[e] : e \in pruned} \
                       (IF approved # {} THEN hard ELSE {})

\* phases::synthesis: runs only while the wave's coherence is open; its text
\* is returned only when it passes verification again, else merge goes on.
Synthesis ==
    /\ phase = "synthesis"
    /\ \/ /\ GoTo("merge")
          /\ UNCHANGED events
       \/ /\ setting.synthesis /\ Cardinality(approved) >= setting.synthesisMin
          /\ \E hard \in SUBSET Constraint :
               Uncovered(hard) # {} \/ Cardinality(approved) >= 2
          /\ events' = [events EXCEPT !.verified = Proposed]
          /\ End(Resolved(Synthesized))
    /\ UNCHANGED <<setting, gen, score, violated, passed, unaudited, approved, pruned,
                   gate, judged>>

\* SemilatticeResult::compile: proposals that are not pruned and score above 0.
Unpruned == Proposed \ pruned
Valid == {e \in approved \ pruned : score[e] > 0}

\* Only with the oracle gate enabled is the selected text put to the oracle.
JudgeUnlessGatePassed == IF setting.oracle = "off" \/ gate = "passed" THEN "done"
                         ELSE "post_selection"
AfterMerge == IF setting.oracle = "off" THEN "done" ELSE "post_selection"

\* phases::merge with MergeEngine::resolve: every strategy selects one of the
\* valid proposals; without one the wave ends with ZeroSurvival.
Merge ==
    /\ phase = "merge"
    /\ events' = [events EXCEPT !.verified = Proposed]
    /\ IF Valid = {}
       THEN End(Exit("ZeroSurvival"))
       ELSE \E winner \in Valid :
              /\ outcome' = Resolved(winner)
              /\ phase' = AfterMerge
    /\ UNCHANGED <<setting, gen, score, violated, passed, unaudited, approved, pruned,
                   gate, judged>>

\* apply_on_fail_policy on the oracle's verdict about the selected text.
Accepts(reply) == GatePasses(reply) \/ setting.onFail # "evict"

\* phases::oracle::run_post_selection; without NATS the winner is accepted.
PostSelection ==
    /\ phase = "post_selection"
    /\ \/ /\ setting.oracle = "no_nats"
          /\ phase' = "done" /\ UNCHANGED <<outcome, judged>>
       \/ /\ setting.oracle = "armed"
          /\ judged' = TRUE
          /\ \E reply \in Replies :
               IF Accepts(reply)
               THEN phase' = "done" /\ UNCHANGED outcome
               ELSE End(Exit("OraclePostSelectionBlocked"))
    /\ UNCHANGED <<setting, gen, score, violated, passed, unaudited, approved, pruned,
                   events, gate>>

Done == phase = "done" /\ UNCHANGED vars

Next ==
    \/ Topology \/ Multiply \/ Diversity
    \/ (\E e \in Explorer : ExplorerEnds(e))
    \/ GenerationJoined \/ GenerationTimesOut \/ Hallucination \/ Verify
    \/ (\E e \in Explorer : AuditOne(e))
    \/ AuditEnds \/ Oracle \/ Synthesis \/ Merge \/ PostSelection \/ Done

Spec == Init /\ [][Next]_vars

\* The steps that end whatever the models do: code that awaits nothing,
\* generation under its timeout (generation.rs:516) and the two questions to the
\* oracle under theirs (oracle.rs:57, 105).
OwnStep ==
    \/ Topology \/ Multiply \/ Diversity \/ GenerationJoined \/ GenerationTimesOut
    \/ AuditEnds \/ Oracle \/ Merge \/ PostSelection

\* The steps that await a model without a timeout: the hallucination check
\* (hallucination.rs:90), the verifier, the auditor (audit.rs:118) and the
\* synthesizer (synthesis.rs:87); the HTTP adapters have none of their own.
ModelStep ==
    Hallucination \/ Verify \/ (\E e \in Explorer : AuditOne(e)) \/ Synthesis

FairSpec == Spec /\ WF_vars(OwnStep)

-----------------------------------------------------------------------------
(* Properties *)

\* Only proposals made in this wave are passed, audited, approved or pruned
\* (pipeline.rs hands the lists from phase to phase).
TypeOK ==
    /\ phase \in {"topology", "multiply", "diversity", "generation", "hallucination",
                  "verify", "audit", "oracle", "synthesis", "merge", "post_selection",
                  "done"}
    /\ setting \in Settings
    /\ gen \in [Explorer -> {"idle", "running", "proposed", "failed", "lost"}]
    /\ score \in [Explorer -> Scores]
    /\ violated \in [Explorer -> SUBSET Constraint]
    /\ unaudited \subseteq passed /\ passed \subseteq Proposed
    /\ approved \subseteq passed /\ pruned \subseteq Proposed
    /\ events \in [failed : SUBSET Explorer, verified : SUBSET Explorer,
                   pruned : SUBSET Explorer, charged : SUBSET Explorer]
    /\ gate \in Replies \cup {"none"} /\ judged \in BOOLEAN

\* A returned proposal was produced in this wave, passed verification and the
\* audit, and was pruned by neither (pipeline.rs hands proposals from phase to
\* phase by value, so nothing re-checks them at the end).
WinnerPassedEveryGate ==
    outcome.kind = "resolved" /\ outcome.winner \in Explorer =>
        outcome.winner \in (passed \cap approved) \ pruned
            /\ score[outcome.winner] > 0

\* A wave that reaches synthesis reports every explorer once: a failure, or a
\* verification event, and a pruned event exactly for the rejected ones.
CompleteWaveReportsEveryExplorer ==
    outcome.kind = "resolved" /\ ~setting.fallback =>
        /\ events.failed \cup events.verified = Explorer \ {e \in Explorer : gen[e] = "lost"}
        /\ events.failed \cap events.verified = {}
        /\ events.pruned = events.verified \ approved

\* An oracle that rejected the pre-merge gate, or stayed silent where on_timeout
\* makes silence a rejection ("fail"), never has its wave resolved: neither by
\* the synthesis nor by the merge that follow, whatever on_fail says.
RejectedGateNeverResolves ==
    outcome.kind = "resolved" =>
        gate # "failed" /\ (gate = "silent" => setting.onTimeout # "fail")

\* What docs/architecture/reference.md:1668 says of on_timeout = "skip": a gate
\* that timed out is passed over and the wave goes on.  oracle.rs:72 compares
\* the policy with "pass" alone, so a skipped gate blocks the wave like a
\* rejection.
SkippedGateProceeds ==
    gate = "silent" /\ setting.onTimeout = "skip" => outcome # Exit("OracleBlocked")

\* A proposal delivered under a reachable oracle was shown to it, whatever the
\* gate before the merge said; only a synthesized text escapes the second look.
SelectedTextWasJudged ==
    phase = "done" /\ outcome.kind = "resolved" /\ outcome.winner \in Explorer
        /\ setting.oracle = "armed" => judged

\* As long as the models called without a timeout answer, every wave ends: no
\* explorer has to (generation's timeout drops them), nor has the oracle.
WaveEnds == WF_vars(ModelStep) => <>(phase = "done")

\* What the MAPE-K loop sees of the wave (PipelineWaveResult).
Result ==
    IF phase # "done"
    THEN [outcome |-> "pending", reasons |-> {}, charged |-> FALSE]
    ELSE [outcome |-> IF outcome.kind = "early_exit" THEN outcome.reason ELSE outcome.kind,
          reasons |-> {c \in Constraint : \E e \in events.pruned : c \in violated[e]},
          charged |-> events.charged # {}]

Contract == INSTANCE WaveContract WITH
    retryLeft <- setting.retry < setting.maxRetries, result <- Result

\* The phases together implement the contract MAPE-K relies on: each way a wave
\* can end carries only the pruned branches and the token charge it may carry.
ImplementsContract == Contract!Spec
=============================================================================
