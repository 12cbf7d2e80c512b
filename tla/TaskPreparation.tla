--------------------------- MODULE TaskPreparation ---------------------------
(***************************************************************************)
(* What happens to a submitted task before its first wave: the thinking    *)
(* loop builds a shared understanding, the awareness probe checks it       *)
(* against the corpus and may send the loop round once more, the           *)
(* decomposition designs the team of explorer slots, and the engine's      *)
(* one-shot phases decide whether and how the team runs.                   *)
(*                                                                         *)
(* Every step awaits a model that may answer anything or fail.  Texts are  *)
(* values: "" is an empty understanding, "raw" one that was never          *)
(* synthesised.  Scores are hundredths.                                    *)
(***************************************************************************)
EXTENDS Planning, Subsequences

CONSTANTS
    Submissions,  \* the tasks and configurations considered
    Plans,        \* understandings a synthesis may produce
    Coverages,    \* coverage scores a synthesis may claim
    Archetypes,   \* archetype blocks a selection may answer with
    SlotAnswers,  \* slot lists the last decomposition step may answer with
    JudgeBound    \* longest list of verdicts the judge answers with

ASSUME JudgeAssumption == JudgeBound \in Nat

\* The domains are those of the corpus, in alphabetical order.
ASSUME DomainsAssumption ==
    \A c \in Submissions : /\ ToSet(c.domains) = DomainsOf(c.corpus) /\ IsInjective(c.domains)
                           /\ c.domains \in Seq(DomainsOf(c.corpus))

\* Answers and the operator's own slots are sequences.
ASSUME SlotsAssumption ==
    /\ \A raw \in SlotAnswers : raw \in Seq(ToSet(raw))
    /\ \A c \in Submissions : /\ c.extra \in Seq(ToSet(c.extra))
                              /\ c.count \in Nat /\ c.cal.nMax \in Nat

VARIABLES
    task,     \* the submission: the task and its configuration
    phase,    \* the step of run_task_pipeline or of the engine that is next
    report,   \* the ThinkingReport of the last finished iteration
    loop,     \* the iteration of the thinking loop under way
    runs,     \* how often the thinking loop was started for this task
    answer,   \* what the awareness judge answered, until it is acted on
    step,     \* the decomposition step under way
    slots,    \* the team
    plan      \* what the engine's phases decided

prepareVars == <<task, phase, report, loop, runs, answer, step, slots, plan>>

Verdict == {"ACKNOWLEDGED", "NOT_ADDRESSED", "CONTRADICTED"}

-----------------------------------------------------------------------------
(* Thinking loop *)

DefaultReport == [plan |-> "", tensions |-> FALSE, coverage |-> 0, iteration |-> 0,
                  similar |-> FALSE, nodes |-> {}]

NoLoop == [iteration |-> 0, asked |-> 0, archetypes |-> <<>>, outputs |-> <<>>, nodes |-> {}]
NoPlan == [quadrant |-> {}, ceiling |-> 0, degraded |-> FALSE, complexity |-> 0,
           topology |-> "", merge |-> "", explorers |-> 0, nMax |-> 0]

PrepareInit ==
    /\ task \in Submissions
    /\ phase = "think"
    /\ report = DefaultReport
    /\ loop = NoLoop
    /\ runs = 0
    /\ answer = {}
    /\ step = 0
    /\ slots = <<>>
    /\ plan = NoPlan

\* All archetypes are asked for at first; later as many as the coverage lacks,
\* unless the quality is so low that none is spared.
AdaptiveN(iteration, coverage) ==
    IF iteration = 0 \/ coverage < task.think.floor THEN task.think.maxArchetypes
    ELSE Greatest(2, (task.think.maxArchetypes * (100 - coverage) + 99) \div 100)

\* The knowledge provider is asked with the description, later with the
\* unresolved tensions too.
Knowledge(iteration, tensions) ==
    IF iteration = 0 \/ ~tensions THEN task.knowledge.plain ELSE task.knowledge.refined

\* The runner starts the loop; a disabled loop reports nothing.
StartThinking ==
    /\ phase = "think"
    /\ runs' = runs + 1
    /\ report' = DefaultReport
    /\ loop' = NoLoop
    /\ phase' = IF task.think.enabled /\ task.think.maxIterations > 0 THEN "select" ELSE "thought"
    /\ UNCHANGED <<task, answer, step, slots, plan>>

Uncovered(archetypes, ids) ==
    SelectSeq(ids, LAMBDA c : \A i \in DOMAIN archetypes : c \notin archetypes[i])

\* A specialist for one constraint.
CoverageArchetype(c) == {c}

\* The three general archetypes of an empty selection.
FallbackArchetypes == <<{}, {}, {}>>

Ids(corpus) == [i \in DOMAIN corpus |-> corpus[i].id]

\* parse_archetypes_from_markdown: what each block focuses on; one block
\* without a persona makes the whole answer unreadable.
ParseArchetypes(blocks) ==
    IF \E i \in DOMAIN blocks : ~blocks[i].persona THEN <<>>
    ELSE [i \in DOMAIN blocks |-> blocks[i].focus]

\* select_archetypes: a failed call or an unreadable answer selects nothing;
\* every constraint no archetype focuses on gets a specialist.
SelectArchetypes ==
    /\ phase = "select"
    /\ \E blocks \in Archetypes \cup {<<>>} :
         LET selected  == ParseArchetypes(blocks)
             uncovered == Uncovered(selected, Ids(task.corpus))
             team      == selected \o [i \in DOMAIN uncovered |-> CoverageArchetype(uncovered[i])]
         IN  loop' = [loop EXCEPT
                 !.asked = AdaptiveN(loop.iteration, report.coverage),
                 !.nodes = @ \cup Knowledge(loop.iteration, report.tensions),
                 !.archetypes = IF team = <<>> THEN FallbackArchetypes ELSE team]
    /\ phase' = "brainstorm"
    /\ UNCHANGED <<task, report, runs, answer, step, slots, plan>>

\* brainstorm_one: a text, nothing when the call failed, or a text whose
\* candidate solution the inline oracle confirmed within its timeout.
BrainstormOne == {"none", "text"} \cup (IF task.think.oracle THEN {"proved"} ELSE {})

\* brainstorm_all waits for every archetype; none of them can fail the loop.
Brainstorm ==
    /\ phase = "brainstorm"
    /\ \E outputs \in [DOMAIN loop.archetypes -> BrainstormOne] :
         loop' = [loop EXCEPT !.outputs = outputs]
    /\ phase' = "synthesize"
    /\ UNCHANGED <<task, report, runs, answer, step, slots, plan>>

\* tournament_merge calls the model once per pair; a single proposal is passed
\* through as it is.
Tournament(outputs) ==
    IF Len(outputs) <= 1 THEN {"raw"} ELSE {"merged", "failed"}

\* parse_synthesis_from_markdown: the sections that are there; a text without
\* sections is the understanding itself, half covered.
ParseSynthesis(merged) ==
    IF merged = "raw" THEN {[plan |-> "raw", tensions |-> FALSE, coverage |-> 50]}
    ELSE [plan : Plans \cup {""}, tensions : BOOLEAN, coverage : Coverages]

\* synthesize: a failed tournament leaves an empty report, and with it the
\* understanding of the iterations before is gone.
Syntheses ==
    UNION {IF merged = "failed" THEN {[plan |-> "", tensions |-> FALSE, coverage |-> 0]}
           ELSE ParseSynthesis(merged) : merged \in Tournament(loop.outputs)}

\* compute_similarity against the convergence threshold.
Converged(a, b) == a # "" /\ b # "" /\ a = b

Synthesize ==
    /\ phase = "synthesize"
    /\ \E s \in Syntheses :
         report' = [plan |-> s.plan, tensions |-> s.tensions, coverage |-> s.coverage,
                    iteration |-> loop.iteration + 1,
                    similar |-> Converged(report.plan, s.plan), nodes |-> {}]
    /\ loop' = [loop EXCEPT !.archetypes = <<>>, !.outputs = <<>>]
    /\ phase' = "assess"
    /\ UNCHANGED <<task, runs, answer, step, slots, plan>>

LastIteration == loop.iteration + 1 >= task.think.maxIterations

\* The loop goes round again without asking the gate.
ThinkOn ==
    \/ report.coverage < task.think.coverage
    \/ ~report.similar /\ loop.iteration > 0

\* The loop is left: what was retrieved on the way goes into the report.
LeaveLoop ==
    /\ report' = [report EXCEPT !.nodes = loop.nodes]
    /\ loop' = NoLoop
    /\ phase' = "thought"

NextIterationM ==
    /\ loop' = [loop EXCEPT !.iteration = IF report.coverage = 0 THEN @ ELSE @ + 1]
    /\ phase' = "select"
    /\ UNCHANGED report

NextIteration ==
    /\ loop' = [loop EXCEPT !.iteration = @ + 1]
    /\ phase' = "select"
    /\ UNCHANGED report

\* The end of an iteration; llm_gate lets the loop stop on YES, and an error
\* of the gate is a NO.
Assess ==
    /\ phase = "assess"
    /\ IF LastIteration THEN LeaveLoop
       ELSE IF ThinkOn THEN NextIteration
       ELSE LeaveLoop \/ NextIteration
    /\ UNCHANGED <<task, runs, answer, step, slots, plan>>

-----------------------------------------------------------------------------
(* Awareness probe *)

\* The static evidence against a check alone reaches the threshold.
IsAmbiguityGated(doc) ==
    task.ambiguity.enabled /\ \E score \in doc.cards : score >= task.ambiguity.threshold

\* Advisory constraints are never put to the judge.
ProbeItems ==
    LET judged == SelectSeq(task.corpus, LAMBDA d : d.severity # "advisory")
    IN  [i \in DOMAIN judged |-> [id |-> judged[i].id, hard |-> judged[i].severity = "hard",
                                  gated |-> IsAmbiguityGated(judged[i])]]

ProbeRuns == task.probe.enabled /\ task.corpus # <<>> /\ report.plan # ""

\* The verdicts that count: the first one for each item the judge was given.
Judged(verdicts) ==
    LET items == ProbeItems
    IN  [i \in {v \in DOMAIN items : \E k \in DOMAIN verdicts : verdicts[k].idx = v} |->
            verdicts[Min({k \in DOMAIN verdicts : verdicts[k].idx = i})].verdict]

\* run_awareness_probe: a judge that fails or leaves an item out degrades it.
Degraded ==
    answer = {} \/ \E v \in answer : DOMAIN Judged(v) # DOMAIN ProbeItems

\* Hard, ungated contradictions: the only verdicts that send the loop back.
Blocking ==
    UNION {{i \in DOMAIN Judged(v) : /\ Judged(v)[i] = "CONTRADICTED"
                                     /\ ProbeItems[i].hard /\ ~ProbeItems[i].gated} : v \in answer}

ReIterationPromptM == Blocking # {}

ReIterationPrompt == ~Degraded /\ Blocking # {}

\* The judge's answer, or none when the call or the parse failed.  An index
\* may be out of range or repeated.
JudgeAnswers ==
    /\ phase = "thought"
    /\ IF runs = 1 /\ ProbeRuns /\ ProbeItems # <<>>
       THEN /\ \E verdicts \in SeqOf([idx : 1 .. Len(ProbeItems) + 1, verdict : Verdict],
                                     JudgeBound) :
                  answer' \in {{}, {verdicts}}
            /\ phase' = "probed"
       ELSE phase' = "decompose" /\ UNCHANGED answer
    /\ UNCHANGED <<task, report, loop, runs, step, slots, plan>>

\* An active probe restarts the loop, with the contradictions as hints.  The
\* events are published best effort, after that.
ActOnProbe ==
    /\ phase = "probed"
    /\ phase' = IF task.probe.active /\ ReIterationPrompt THEN "think" ELSE "decompose"
    /\ answer' = {}
    /\ UNCHANGED <<task, report, loop, runs, step, slots, plan>>

-----------------------------------------------------------------------------
(* Decomposition *)

Limit == Greatest(Least(task.cal.nMax, task.count), 1)

\* The persona domain_to_slot gives a domain; related domains share one.
RoleFrame(domain) ==
    CASE domain \in {"security", "auth", "authentication", "authz"}         -> "security engineer"
      [] domain \in {"performance", "latency", "throughput", "scalability"} -> "performance engineer"
      [] domain \in {"correctness", "accuracy", "validation", "integrity"}  -> "verification engineer"
      [] domain \in {"consistency", "distributed", "concurrency", "synchronization"} ->
             "distributed systems architect"
      [] domain \in {"compliance", "regulatory", "legal", "audit"}          -> "compliance analyst"
      [] OTHER                                                             -> "software architect"

\* The domains that the fixed texts of such a slot, persona and mandate, contain.
Worded(frame) ==
    CASE frame = "security engineer"             -> {"security", "auth", "authentication"}
      [] frame = "performance engineer"          -> {"performance", "latency", "throughput",
                                                     "concurrency"}
      [] frame = "distributed systems architect" -> {"distributed", "consistency"}
      [] frame = "compliance analyst"            -> {"compliance", "regulatory", "audit"}
      [] OTHER                                   -> {}

\* The mandate also lists the ids of the domain's constraints, which may
\* contain the name of a domain.
Spelt(domain, corpus) ==
    UNION {d.spells : d \in {x \in ToSet(corpus) : domain \in x.domains}}

\* The fallback slot of a domain.  Its texts need not name the domain itself
\* ("authz" is not in them) and may name others.
DomainToSlot(domain, spelt) ==
    [frame |-> RoleFrame(domain), mentions |-> Worded(RoleFrame(domain)) \cup spelt,
     declares |-> {domain}, critic |-> TRUE]

\* parse_decomposition_response: slots without a role are dropped.
ParseSlots(raw) == Subsequence(raw, {i \in DOMAIN raw : raw[i].frame # ""})

\* A slot whose mandate or role names the domain covers it; one that was
\* appended for an earlier domain counts like any other.
Mentioned(domain, team) == \E s \in ToSet(team) : domain \in s.mentions

\* A domain that no slot names gets its fallback slot, at the end.
CoverDomain(team, domain) ==
    IF Mentioned(domain, team) THEN team
    ELSE Append(team, DomainToSlot(domain, Spelt(domain, task.corpus)))

CoverDomainsM(team) ==
    LET covered[k \in 0 .. Len(task.domains)] ==
            IF k = 0 THEN team ELSE CoverDomain(covered[k - 1], task.domains[k])
    IN  covered[Greatest(Len(task.domains) - 1, 0)]

\* The coverage check goes through the domains over the growing list of slots.
CoverDomains(team) ==
    LET covered[k \in 0 .. Len(task.domains)] ==
            IF k = 0 THEN team ELSE CoverDomain(covered[k - 1], task.domains[k])
    IN  covered[Len(task.domains)]

\* The slot most like the others, the last one of equals.
MostAlike(team) ==
    LET Alike(i) == Cardinality({j \in DOMAIN team \ {i} : team[j].frame = team[i].frame})
    IN  Max({i \in DOMAIN team : \A j \in DOMAIN team : Alike(i) >= Alike(j)})

PruneByOrthogonality(team, n) ==
    LET surplus == Greatest(Len(team) - n, 0)
        kept[k \in 0 .. surplus] ==
            IF k = 0 THEN team ELSE RemoveAt(kept[k - 1], MostAlike(kept[k - 1]))
    IN  kept[surplus]

\* The team shrinks to the limit: by likeness with an embedding model, from
\* the end without one.
Prune(team) ==
    IF task.embedding THEN PruneByOrthogonality(team, Limit)
    ELSE SubSeq(team, 1, Least(Len(team), Limit))

\* run_decomposition_agent, then the operator's own slots.
Team(raw) ==
    LET agent == Prune(CoverDomains(ParseSlots(raw)))
    IN  IF task.extra = <<>> THEN agent ELSE Prune(agent \o task.extra)

\* A failed decomposition fails the task: TaskFailed, then mark_failed.
FailTask ==
    /\ phase' = "failed"
    /\ UNCHANGED <<slots, step>>

\* call_step: the analysis and the roles, any text will do.
DecomposeStep ==
    /\ phase = "decompose" /\ step < 2
    /\ \/ step' = step + 1 /\ UNCHANGED <<phase, slots>>
       \/ FailTask
    /\ UNCHANGED <<task, report, loop, runs, answer, plan>>

\* The last step assembles the slots; an answer without a readable, named slot
\* fails the task like a failed call.
AssembleTeam ==
    /\ phase = "decompose" /\ step = 2
    /\ \/ FailTask
       \/ \E raw \in SlotAnswers :
            IF ParseSlots(raw) = <<>> THEN FailTask
            ELSE slots' = Team(raw) /\ phase' = "bootstrap" /\ step' = 0
    /\ report' = DefaultReport
    /\ UNCHANGED <<task, loop, runs, answer, plan>>

-----------------------------------------------------------------------------
(* The engine before its first wave *)

\* Slot i runs on the adapter its diversity id selects from the pool.
ExplorerAdapters ==
    [i \in 1 .. task.count |-> (IF i \in DOMAIN task.diversity THEN task.diversity[i] ELSE i - 1)
                                  % Greatest(task.pool, 1)]

\* bootstrap: with explorers and verifier of one family and RequireDiverse, the
\* explorers must not all share one adapter.
Bootstrap ==
    /\ phase = "bootstrap"
    /\ phase' = IF /\ task.familyMatch /\ task.requireDiverse
                   /\ Cardinality(ToSet(ExplorerAdapters)) = 1 /\ task.count > 1
                THEN "failed" ELSE "complexity"
    /\ UNCHANGED <<task, report, loop, runs, answer, step, slots, plan>>

\* The answers the complexity probes may give on the static constraints.
ProbeMatrices ==
    LET n == Count(task.corpus, LAMBDA d : d.tier = "static")
    IN  UNION {[1 .. p -> [1 .. n -> {0, 1}]] : p \in 0 .. task.complexity.nProbe}

\* The quorum floor of the ceiling; conflict statistics replace the calibrated
\* coefficients when there are any.
Ceiling == Greatest(3, IF task.conflictMax = {} THEN task.cal.nMax ELSE Min(task.conflictMax))

\* complexity: when armed, a degenerate task or a pool below quorum fails.
Complexity ==
    /\ phase = "complexity"
    /\ \E q \in AssessComplexity(task.corpus, task.cal.bootstrap, task.cal.neff, task.complexity,
                                 ProbeMatrices) :
         IF ~task.complexity.shadow /\ (q = "Degenerate" \/ task.cal.nMax < 3)
         THEN phase' = "failed" /\ UNCHANGED plan
         ELSE /\ phase' = "coverage"
              /\ plan' = [plan EXCEPT !.quadrant = IF task.complexity.shadow THEN {} ELSE {q},
                                      !.ceiling = Ceiling]
    /\ UNCHANGED <<task, report, loop, runs, answer, step, slots>>

\* domain_coverage: a thin team fails the task or is reported as degraded.
DomainCoverage ==
    /\ phase = "coverage"
    /\ LET thin == CoverageScore(slots, DomainsOf(task.corpus)) < task.coverageThreshold
       IN  IF thin /\ task.requireBivariate THEN phase' = "failed" /\ UNCHANGED plan
           ELSE phase' = "rate" /\ plan' = [plan EXCEPT !.degraded = thin]
    /\ UNCHANGED <<task, report, loop, runs, answer, step, slots>>

\* ComplexityProbe: 1 to 5, and 2 when the call fails, times out or answers
\* anything else; skipped when routing is off.
RateTask ==
    /\ phase = "rate"
    /\ \E rating \in IF task.routing THEN 1 .. 5 ELSE {0} :
         plan' = [plan EXCEPT !.complexity = rating]
    /\ phase' = "provision"
    /\ UNCHANGED <<task, report, loop, runs, answer, step, slots>>

\* The agents of the first wave: what the bandit or the calibration suggests,
\* within the ceiling; with tiered exit, what the probe rated the task instead.
FirstWaveAgents ==
    IF ~task.tee.enabled THEN Least(Greatest(task.suggested, 1), Greatest(plan.ceiling, 1))
    ELSE IF task.routing THEN Clamp(task.tee.min, plan.complexity, task.tee.max)
    ELSE task.tee.min

\* topology: the first wave's roles, topology and merge strategy; too few
\* explorers for an outlier-resistant merge is fatal.
Provision ==
    /\ phase = "provision"
    /\ LET roles == RoleCount(plan.quadrant, plan.ceiling, FirstWaveAgents, task.precisionSlots)
           merge == MergeStrategyFor(task.costs, task.safety)
       IN  IF merge = "OutlierResistant" /\ roles < MinKrumQuorum(task.safety.krumF)
           THEN phase' = "failed" /\ UNCHANGED plan
           ELSE /\ phase' = "ready"
                /\ plan' = [plan EXCEPT
                       !.merge = merge, !.explorers = roles,
                       !.nMax = ProvisionedMax(task.cal, plan.quadrant),
                       !.topology = TopologyKind(task.weights, task.gates, {}, plan.quadrant)]
    /\ UNCHANGED <<task, report, loop, runs, answer, step, slots>>

Prepared == phase \in {"ready", "failed"} /\ UNCHANGED prepareVars

\* The steps that end by themselves: code that awaits nothing, and the rating of
\* the task, whose call has a timeout (complexity_probe.rs:71).
OwnStep ==
    \/ StartThinking \/ ActOnProbe \/ Bootstrap \/ DomainCoverage \/ RateTask \/ Provision

\* The steps that await a model without a timeout: the rounds of the thinking
\* loop (thinking_loop.rs:693, 877; only the inline oracle at 722 is timed), the
\* judge (awareness_probe.rs:223), the decomposition (decomposition.rs:445) and
\* the complexity probes (complexity.rs:297).
ModelStep ==
    \/ SelectArchetypes \/ Brainstorm \/ Synthesize \/ Assess
    \/ JudgeAnswers \/ DecomposeStep \/ AssembleTeam \/ Complexity

PipelineStep == OwnStep \/ ModelStep

PrepareNext == PipelineStep \/ Prepared

\* The pipeline is one sequential future: it takes each step of its own.
PrepareSpec == PrepareInit /\ [][PrepareNext]_prepareVars /\ WF_prepareVars(OwnStep)

-----------------------------------------------------------------------------
(* Properties *)

\* The thinking loop is started again at most once, only by an active probe,
\* and only when the judge gave every constraint it was shown a verdict and
\* found a hard constraint contradicted whose wording is not itself in doubt
\* (re_iteration_prompt; "degraded probes never block").  Further verdicts with
\* an index out of range do not count, for or against: see OutOfRangeNeverBlocks.
ReiterationIsJustified ==
    [][phase' = "think" =>
         /\ runs = 1 /\ task.probe.active
         /\ \E v \in answer :
              /\ DOMAIN ProbeItems \subseteq {v[k].idx : k \in DOMAIN v}
              /\ \E i \in DOMAIN ProbeItems, k \in DOMAIN v :
                   /\ v[k] = [idx |-> i, verdict |-> "CONTRADICTED"]
                   /\ ProbeItems[i].hard /\ ~ProbeItems[i].gated]_prepareVars

\* What awareness_probe.rs:249 says: an out-of-range index is a failure mode that
\* degrades the probe, and a degraded probe never restarts the loop.  The code
\* (awareness_probe.rs:278) drops such a verdict and degrades nothing as long as
\* every item has another one.
OutOfRangeNeverBlocks ==
    [][phase' = "think" =>
         \A v \in answer : \A k \in DOMAIN v : v[k].idx \in DOMAIN ProbeItems]_prepareVars

\* The team is never empty and never larger than the pool supports, and it
\* leaves a domain of the corpus without a slot only when it is full
\* (run_decomposition_agent, DefaultDecomposer); the fallback slots of related
\* domains, appended one for the other, included.
TeamCoversOrIsFull ==
    phase \in {"bootstrap", "complexity", "coverage", "rate", "provision", "ready"} =>
        /\ Len(slots) \in 1 .. Limit
        /\ Len(slots) < Limit =>
             \A d \in DomainsOf(task.corpus) :
                 \E s \in ToSet(slots) : d \in s.mentions \cup s.declares

\* What decomposition.rs:521 says of the coverage check: every domain has a slot
\* that covers it, a domain the model dropped a fallback slot; here only where
\* the limit has room for a slot per domain.  The truncation that follows the
\* check (decomposition.rs:543) takes the fallback slots away first.
DroppedDomainsHaveSlots ==
    phase = "bootstrap" /\ Len(task.domains) <= Limit =>
        \A d \in DomainsOf(task.corpus) :
            \E s \in ToSet(slots) : d \in s.mentions \cup s.declares

\* As long as the models called without a timeout answer, and whatever they
\* answer, preparation ends: the task runs or has failed.
PreparationEnds == WF_prepareVars(ModelStep) => <>(phase \in {"ready", "failed"})
=============================================================================
