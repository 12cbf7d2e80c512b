----------------------------- MODULE Proposals -----------------------------
(***************************************************************************)
(* The life of a task's proposals over its waves: explorers think in turns  *)
(* (tao_loop.rs) against an adapter (a2a.rs with its shared agent-card      *)
(* cache, cloud.rs with its 429 retries), the texts are judged against the  *)
(* constraint corpus (verification.rs: one judge with the task's score      *)
(* cache, or a panel), and one survivor is selected (merger.rs).  When none *)
(* survives the next wave starts, with the cache kept and the hard          *)
(* thresholds relaxed.                                                      *)
(*                                                                         *)
(* The explorers of a wave run concurrently, and so do the evaluations of   *)
(* every (proposal, constraint) pair under one judge.                       *)
(***************************************************************************)
EXTENDS JudgeScoring, MergeAlgorithms

CONSTANTS
    Configs,        \* the configurations a behaviour may start in
    Texts,          \* the texts a model may write: integers
    Radius,         \* texts at most this far apart count as repetitions
    BusyLimit,      \* the 429 answers that end a cloud call (15 in the code)
    MaxWaves        \* the waves of a task

ASSUME TextsAssumption == Texts \subseteq Int /\ IsFiniteSet(Texts)
ASSUME LimitsAssumption ==
    /\ Radius \in Nat /\ Step \in Nat
    /\ BusyLimit \in Nat \ {0} /\ MaxWaves \in Nat \ {0}
ASSUME ScoresAssumption == JudgeScores \subseteq 0..100

\* Thresholds are positive (zero would switch a gate off), a quorum is a share of the
\* panel, the adapters are listed, and Multi-Krum keeps at least one proposal.
ASSUME ConfigsAssumption ==
    \A c \in Configs :
        /\ c.adapter \in Seq(ToSet(c.adapter)) /\ c.texts \subseteq Texts
        /\ c.strategy.kind \in {"median", "ordered", "krum", "multi"}
        /\ c.strategy.f \in Nat /\ (c.strategy.kind = "multi" => c.strategy.m \in Nat \ {0})
        /\ c.threshold \in Nat \ {0} /\ c.fraction \in 1..100 /\ IsFiniteSet(c.families)
        /\ \A i \in Hard(c.corpus) : c.corpus[i].threshold \in Nat \ {0}

VARIABLES
    cfg,            \* the configuration, constant
    stage,          \* "explore", "verify", "compare", "merge", "done"
    wave,           \* the number of the wave, from 1
    ex,             \* per explorer, its TAO loop
    card,           \* the A2A adapter's agent card: "none", "fresh", "expired"
    lock,           \* {} or {the explorer that holds the card's write lock}
    cache,          \* per constraint, the scored texts, oldest first
    res,            \* per explorer, the constraints evaluated: index -> result
    passed,         \* per verified explorer: the score of its proposal, 0 when failed
    outcome         \* {} or {the selection: mode, texts in order, index, f, m}

vars == <<cfg, stage, wave, ex, card, lock, cache, res, passed, outcome>>

Explorers == DOMAIN cfg.adapter

\* repetition::similarity at or above the threshold of the caller.
Similar(a, b) == AbsDiff(a, b) <= Radius

-----------------------------------------------------------------------------
\* A wave's explorers.

Start(e) == IF cfg.adapter[e] = "a2a" THEN "card" ELSE "cloud"

\* A loop of no turns, or one whose verify pattern is no regex, fails before it calls
\* anything; a reasoning model's single turn is taken before either is looked at.
Opening(e) == IF cfg.bypass \/ (cfg.maxTurns > 0 /\ cfg.validPattern) THEN Start(e) ELSE "failed"

FreshLoop(e) ==
    [pc |-> Opening(e), turn |-> 1, retried |-> FALSE, busy |-> 0, last |-> {}, out |-> {}]

Calling == {"card", "fetch", "send", "poll", "cloud"}

\* The loop is over: its counters are dropped, the proposal, if any, stays.
Ended(e, pc, out) == [ex EXCEPT ![e] = [FreshLoop(e) EXCEPT !.pc = pc, !.out = out]]

\* The adapter call failed: the turn's error ends the loop.
Fails(e) == Ended(e, "failed", {})

Answers(e, t) == [ex EXCEPT ![e] = [@ EXCEPT !.pc = "check", !.busy = 0, !.out = {t}]]

\* get_agent_card, cached: by the read lock, or by the second look under the write lock.
CardHit(e) ==
    /\ stage = "explore" /\ ex[e].pc = "card" /\ lock = {} /\ card = "fresh"
    /\ ex' = [ex EXCEPT ![e].pc = "send"]
    /\ UNCHANGED <<cfg, stage, wave, card, lock, cache, res, passed, outcome>>

\* The write lock is taken and kept over the fetch.
CardLock(e) ==
    /\ stage = "explore" /\ ex[e].pc = "card" /\ lock = {} /\ card # "fresh"
    /\ lock' = {e}
    /\ ex' = [ex EXCEPT ![e].pc = "fetch"]
    /\ UNCHANGED <<cfg, stage, wave, card, cache, res, passed, outcome>>

CardFetched(e) ==
    /\ stage = "explore" /\ ex[e].pc = "fetch"
    /\ lock' = {} /\ card' = "fresh"
    /\ ex' = [ex EXCEPT ![e].pc = "send"]
    /\ UNCHANGED <<cfg, stage, wave, cache, res, passed, outcome>>

CardUnavailable(e) ==
    /\ stage = "explore" /\ ex[e].pc = "fetch"
    /\ lock' = {}
    /\ ex' = Fails(e)
    /\ UNCHANGED <<cfg, stage, wave, card, cache, res, passed, outcome>>

\* The card's time to live passes.
CardExpires ==
    /\ stage = "explore" /\ card = "fresh"
    /\ card' = "expired"
    /\ UNCHANGED <<cfg, stage, wave, ex, lock, cache, res, passed, outcome>>

\* message/send: the remote agent names a task, or the call fails.
SendTask(e) ==
    /\ stage = "explore" /\ ex[e].pc = "send"
    /\ \/ ex' = [ex EXCEPT ![e].pc = "poll"]
       \/ ex' = Fails(e)
    /\ UNCHANGED <<cfg, stage, wave, card, lock, cache, res, passed, outcome>>

\* tasks/get: completed.  A working task, an unknown state and a poll that times out are
\* polled again, which changes nothing here.
PollCompleted(e, t) ==
    /\ stage = "explore" /\ ex[e].pc = "poll"
    /\ ex' = Answers(e, t)
    /\ UNCHANGED <<cfg, stage, wave, card, lock, cache, res, passed, outcome>>

\* Cancelled, input required, deadline passed, network error or an empty artifact.
PollEnds(e) ==
    /\ stage = "explore" /\ ex[e].pc = "poll"
    /\ ex' = Fails(e)
    /\ UNCHANGED <<cfg, stage, wave, card, lock, cache, res, passed, outcome>>

\* Failed or rejected: the card is dropped too, unless someone holds the lock.
PollRefused(e) ==
    /\ stage = "explore" /\ ex[e].pc = "poll"
    /\ ex' = Fails(e)
    /\ card' = IF lock = {} THEN "none" ELSE card
    /\ UNCHANGED <<cfg, stage, wave, lock, cache, res, passed, outcome>>

\* A chat completion: an answer; a 429, retried until the limit; any other error.
CloudAnswers(e, t) ==
    /\ stage = "explore" /\ ex[e].pc = "cloud"
    /\ ex' = Answers(e, t)
    /\ UNCHANGED <<cfg, stage, wave, card, lock, cache, res, passed, outcome>>

CloudBusy(e) ==
    /\ stage = "explore" /\ ex[e].pc = "cloud"
    /\ ex' = IF ex[e].busy + 1 >= BusyLimit THEN Fails(e)
             ELSE [ex EXCEPT ![e].busy = @ + 1]
    /\ UNCHANGED <<cfg, stage, wave, card, lock, cache, res, passed, outcome>>

CloudFails(e) ==
    /\ stage = "explore" /\ ex[e].pc = "cloud"
    /\ ex' = Fails(e)
    /\ UNCHANGED <<cfg, stage, wave, card, lock, cache, res, passed, outcome>>

\* The turn's timeout drops the call wherever it is, its lock guard included; the first
\* turn is tried once more, from the start.
TurnTimeout(e) ==
    /\ stage = "explore" /\ ex[e].pc \in Calling
    /\ lock' = lock \ {e}
    /\ ex' = IF ex[e].turn = 1 /\ cfg.retryOnTimeout /\ ~ex[e].retried
             THEN [ex EXCEPT ![e] = [@ EXCEPT !.pc = Start(e), !.busy = 0, !.retried = TRUE]]
             ELSE Fails(e)
    /\ UNCHANGED <<cfg, stage, wave, card, cache, res, passed, outcome>>

\* A bug: the failed turn is not counted.
CheckTurnUncounted(e) ==
    LET t    == CHOOSE x \in ex[e].out : TRUE
        ends == cfg.bypass \/ t \in cfg.wellFormed \/ ex[e].turn = cfg.maxTurns
    IN  /\ stage = "explore" /\ ex[e].pc = "check"
        /\ ex' = IF ends THEN Ended(e, "proposed", {t})
                 ELSE IF \E prev \in ex[e].last : Similar(prev, t) THEN Fails(e)
                 ELSE [ex EXCEPT ![e] = [@ EXCEPT !.pc = Start(e), !.last = {t}, !.out = {}]]
        /\ UNCHANGED <<cfg, stage, wave, card, lock, cache, res, passed, outcome>>

\* The turn's output is checked.  A passing one, and the last one even when it fails,
\* is the proposal; a repetition is an error; else another turn.  A reasoning model
\* takes one turn, unchecked.
CheckTurn(e) ==
    LET t    == CHOOSE x \in ex[e].out : TRUE
        ends == cfg.bypass \/ t \in cfg.wellFormed \/ ex[e].turn = cfg.maxTurns
    IN  /\ stage = "explore" /\ ex[e].pc = "check"
        /\ ex' = IF ends THEN Ended(e, "proposed", {t})
                 ELSE IF \E prev \in ex[e].last : Similar(prev, t) THEN Fails(e)
                 ELSE [ex EXCEPT ![e] = [@ EXCEPT !.pc = Start(e), !.turn = @ + 1,
                                                  !.last = {t}, !.out = {}]]
        /\ UNCHANGED <<cfg, stage, wave, card, lock, cache, res, passed, outcome>>

\* Every explorer has ended: the wave's proposals go to verification.
ExploreEnds ==
    /\ stage = "explore" /\ \A e \in Explorers : ex[e].pc \in {"proposed", "failed"}
    /\ stage' = "verify"
    /\ UNCHANGED <<cfg, wave, ex, card, lock, cache, res, passed, outcome>>

\* The phase's own timeout drops every explorer, those that have ended too.
GenerationTimeout ==
    /\ stage = "explore"
    /\ stage' = "verify"
    /\ lock' = {}
    /\ ex' = [e \in Explorers |-> [FreshLoop(e) EXCEPT !.pc = "failed"]]
    /\ UNCHANGED <<cfg, wave, card, cache, res, passed, outcome>>

-----------------------------------------------------------------------------
\* Verification.

Corpus == IF cfg.corpus = <<>> THEN <<RubricDoc(cfg.threshold)>> ELSE cfg.corpus
Docs   == DOMAIN Corpus

Proposed  == {e \in Explorers : ex[e].pc = "proposed"}
TextOf(e) == CHOOSE t \in ex[e].out : TRUE

\* The hard thresholds are scaled by 0.9 for every retry.
Scale[retry \in 0..(MaxWaves - 1)] ==
    IF retry = 0 THEN [num |-> 1, den |-> 1]
    ELSE [num |-> 9 * Scale[retry - 1].num, den |-> 10 * Scale[retry - 1].den]

Panel == PanelSize("judge", cfg.families)

Todo == [pc |-> "todo", score |-> 0, refused |-> FALSE, vetoed |-> FALSE]
NoResults == [e \in Explorers |-> [i \in Docs |-> Todo]]

Done(score, refused, vetoed) ==
    [pc |-> "done", score |-> score, refused |-> refused, vetoed |-> vetoed]

\* The oldest scored text that is similar enough, as a set of at most one score.
Cached(i, t) ==
    LET hits == {k \in DOMAIN cache[i] : Similar(cache[i][k].text, t)}
    IN  IF hits = {} THEN {} ELSE {cache[i][Min(hits)].score}

\* One judge: a similar text's score is taken from the cache, without its reason.
EvalHit(e, i) ==
    /\ stage = "verify" /\ Panel = 1 /\ e \in Proposed /\ res[e][i].pc = "todo"
    /\ \E s \in Cached(i, TextOf(e)) :
          res' = [res EXCEPT ![e][i] =
                     Done(EffectiveScore(Plain(s), Corpus[i].checks), s = 0, FALSE)]
    /\ UNCHANGED <<cfg, stage, wave, ex, card, lock, cache, passed, outcome>>

EvalMiss(e, i) ==
    /\ stage = "verify" /\ Panel = 1 /\ e \in Proposed /\ res[e][i].pc = "todo"
    /\ Cached(i, TextOf(e)) = {}
    /\ res' = [res EXCEPT ![e][i].pc = "asking"]
    /\ UNCHANGED <<cfg, stage, wave, ex, card, lock, cache, passed, outcome>>

\* The predicate is evaluated and its score remembered; the rubric's score is not.
EvalAnswer(e, i, o) ==
    /\ res' = [res EXCEPT ![e][i] =
                  Done(EffectiveScore(o, Corpus[i].checks), o.score = 0 /\ o.marks = {}, FALSE)]
    /\ cache' = IF cfg.corpus = <<>> THEN cache
                ELSE [cache EXCEPT ![i] = Append(@, [text |-> TextOf(e), score |-> o.score])]
    /\ UNCHANGED <<cfg, stage, wave, ex, card, lock, passed, outcome>>

\* The scores the judges of a panel may give one constraint: fresh caches, so no hits.
VariantScores(e, i) ==
    {EffectiveScore(o, Corpus[i].checks) : o \in DocOutcomes(Corpus[i], TextOf(e), cfg.passes)}

\* A panel judges one proposal after the other; a quorum's refusal of a hard constraint
\* is a veto.
PanelEval(e, i) ==
    /\ stage = "verify" /\ Panel > 1 /\ e \in Proposed /\ res[e][i].pc = "todo"
    /\ \A d \in Proposed : d < e => \A j \in Docs : res[d][j].pc = "done"
    /\ \A j \in Docs : j < i => res[e][j].pc = "done"
    /\ \E scores \in [1..Panel -> VariantScores(e, i)] :
          LET r == PanelResult(Corpus[i], scores, Scale[wave - 1], cfg.fraction, cfg.weight)
          IN  res' = [res EXCEPT ![e][i] =
                        Done(r.score, r.refused,
                             r.verdict = "fail" /\ Corpus[i].severity = "hard")]
    /\ UNCHANGED <<cfg, stage, wave, ex, card, lock, cache, passed, outcome>>

\* A bug: the failing score alone, just under the unscaled threshold, is to block.
HardGateByScore(e) ==
    \A i \in Docs : HardPassesScaled(Corpus[i], res[e][i].score, Scale[wave - 1])

HardGate(e) ==
    /\ \A i \in Docs : ~res[e][i].vetoed
    /\ \A i \in Docs : HardPassesScaled(Corpus[i], res[e][i].score, Scale[wave - 1])

SoftScore(e) == AggregateComplianceScore(Corpus, [i \in Docs |-> res[e][i].score])

\* Every evaluation is in: hard gate, then the soft score against the threshold.
VerifyEnds ==
    /\ stage = "verify" /\ \A e \in Proposed, i \in Docs : res[e][i].pc = "done"
    /\ passed' = [e \in Explorers |->
                    LET overall == IF HardGate(e) THEN SoftScore(e) ELSE 0
                    IN  IF e \in Proposed /\ overall >= cfg.threshold THEN {overall} ELSE {}]
    /\ stage' = IF cfg.compare /\ Panel = 1 THEN "compare" ELSE "merge"
    /\ UNCHANGED <<cfg, wave, ex, card, lock, cache, res, outcome>>

\* The adversarial comparison judges the same proposals again with a cache of its own
\* and only reports: neither the cache nor the verdicts change.
CompareEnds ==
    /\ stage = "compare"
    /\ stage' = "merge"
    /\ UNCHANGED <<cfg, wave, ex, card, lock, cache, res, passed, outcome>>

-----------------------------------------------------------------------------
\* Merge.

Survivors == {e \in Explorers : passed[e] # {}}

\* The survivors are inserted one after the other.
ProposalSet ==
    LET set[n \in 0..Len(cfg.adapter)] ==
            IF n = 0 THEN <<>>
            ELSE IF n \notin Survivors THEN set[n - 1]
            ELSE InsertScored(set[n - 1], n, wave, CHOOSE x \in passed[n] : TRUE)
    IN  set[Len(cfg.adapter)]

MergeResolves ==
    /\ stage = "merge"
    /\ \E set \in {ProposalSet} : \E order \in Compile(set) \ {<<>>} :
         \E ts \in {Table([i \in DOMAIN order |-> TextOf(order[i])])},
            scores \in {Table([i \in DOMAIN order |-> set[order[i]].score])} :
            \E sel \in Resolve(cfg.osp, cfg.strategy, cfg.embed, ts, scores) :
                outcome' = {[mode |-> sel.mode, index |-> sel.index, texts |-> ts]}
    /\ stage' = "done"
    /\ UNCHANGED <<cfg, wave, ex, card, lock, cache, res, passed>>

\* Nothing valid: the next wave, or the end of the task.
ZeroSurvival ==
    /\ stage = "merge" /\ Compile(ProposalSet) = {<<>>}
    /\ IF wave < MaxWaves
       THEN /\ wave' = wave + 1 /\ stage' = "explore"
            /\ ex' = [e \in Explorers |-> FreshLoop(e)]
            /\ res' = NoResults
            /\ passed' = [e \in Explorers |-> {}]
       ELSE stage' = "done" /\ UNCHANGED <<wave, ex, res, passed>>
    /\ UNCHANGED <<cfg, card, lock, cache, outcome>>

-----------------------------------------------------------------------------
\* A behaviour starts with a task's first wave or, to see merges of as many proposals
\* as Krum needs, with a wave already verified.
InitTask ==
    /\ stage = "explore"
    /\ ex = [e \in Explorers |-> FreshLoop(e)]
    /\ passed = [e \in Explorers |-> {}]

InitMerge ==
    /\ stage = "merge"
    /\ ex \in {[e \in Explorers |-> [FreshLoop(e) EXCEPT !.pc = "proposed", !.out = {t[e]}]]
                : t \in [Explorers -> cfg.texts]}
    /\ passed = [e \in Explorers |-> {cfg.scores[e]}]

Init ==
    /\ cfg \in Configs
    /\ IF cfg.entry = "task" THEN InitTask ELSE InitMerge
    /\ wave = 1 /\ card = "none" /\ lock = {} /\ outcome = {}
    /\ cache = [i \in Docs |-> <<>>]
    /\ res = NoResults

AdapterReturns(e) ==
    \/ CardHit(e) \/ CardLock(e) \/ CardFetched(e) \/ CardUnavailable(e)
    \/ SendTask(e) \/ PollEnds(e) \/ PollRefused(e)
    \/ \E t \in cfg.texts : PollCompleted(e, t) \/ CloudAnswers(e, t)
    \/ CloudBusy(e) \/ CloudFails(e)

JudgeReturns(e, i) ==
    /\ stage = "verify" /\ res[e][i].pc = "asking"
    /\ \E o \in DocOutcomes(Corpus[i], TextOf(e), cfg.passes) : EvalAnswer(e, i, o)

\* An evaluation, alone or by the panel, returns.
EvalReturns(e, i) == JudgeReturns(e, i) \/ PanelEval(e, i)

Lookup(e, i) == EvalHit(e, i) \/ EvalMiss(e, i)

Next ==
    \/ \E e \in Explorers : AdapterReturns(e) \/ TurnTimeout(e) \/ CheckTurn(e)
    \/ CardExpires \/ ExploreEnds \/ GenerationTimeout
    \/ \E e \in Explorers, i \in Docs : Lookup(e, i) \/ EvalReturns(e, i)
    \/ VerifyEnds \/ CompareEnds
    \/ MergeResolves \/ ZeroSurvival

AllExplorers == UNION {DOMAIN c.adapter : c \in Configs}

\* The evaluations under a timeout, and those that end when the evaluator answers.
BoundEval == \E e \in Explorers, i \in Docs :
                TimeBound(Corpus[i].pred) /\ EvalReturns(e, i)
FreeEval  == \/ \E e \in Explorers, i \in Docs :
                   ~TimeBound(Corpus[i].pred) /\ EvalReturns(e, i)
             \/ CompareEnds

\* A turn's timeout fires when its call does not return, and so does a judge's; the
\* rest is the task's own code.  The remote agent, the evaluator where no timeout
\* guards it, and the card's expiry owe nothing; nothing is asked of the phase's
\* timeout, which may be set far beyond what the turns may take together.
Fairness ==
    /\ \A e \in AllExplorers :
          WF_vars(e \in Explorers /\ TurnTimeout(e)) /\ WF_vars(e \in Explorers /\ CheckTurn(e))
    /\ WF_vars(BoundEval)
    /\ WF_vars(\E e \in Explorers, i \in Docs : Lookup(e, i))
    /\ WF_vars(ExploreEnds \/ VerifyEnds \/ MergeResolves \/ ZeroSurvival)

Spec == Init /\ [][Next]_vars /\ Fairness

-----------------------------------------------------------------------------
\* Types.
ProposalTypes ==
    /\ cfg \in Configs
    /\ stage \in {"explore", "verify", "compare", "merge", "done"}
    /\ wave \in 1..MaxWaves
    /\ card \in {"none", "fresh", "expired"}
    /\ lock \subseteq Explorers

\* A proposal is never selected over an unanimous refusal: a survivor has no hard
\* constraint that scored zero without a reported check under the single judge, whether
\* judged on its own text or on the similar one whose score it inherited, or that every
\* judge of the panel failed.
\* The panel's failing score is just under the unscaled threshold, so on a retry, with
\* the threshold relaxed, only the veto holds (verification.rs 374-392, 421-423).
RefusalBlocks ==
    stage \in {"compare", "merge"} =>
        \A e \in Survivors, i \in Hard(Corpus) : ~res[e][i].refused

\* The selected text w is no further than k/(k-f+1) diameters of the honest from one of
\* them, whichever of the texts ts are honest but at most f.
NearHonest(embed, ts, w, f, k) ==
    \A H \in SUBSET (1 .. Len(ts)) : Cardinality(H) >= Len(ts) - f =>
        LET D(i, j)  == Distance(embed, ts[i], ts[j])
            diameter == Max({D(p[1], p[2]) : p \in H \X H})
        IN  \E h \in H : (k - f + 1) * D(w, h) <= k * diameter

\* Whatever f of the n proposals are outliers, the Krum winner is no further than
\* k/(k-f+1) diameters of the others from one of them, with k = n-f-2 neighbours; for
\* Multi-Krum k is that of its last round, and the bound exists while it is at least f
\* (krum.rs, n >= 2f+3).
WinnerNearHonest ==
    \A o \in outcome :
        LET n == Len(o.texts)
            f == cfg.strategy.f
            k == (IF o.mode = "krum" THEN n ELSE n - cfg.strategy.m + 1) - f - 2
        IN  o.mode \in {"krum", "multi_krum"} /\ f > 0 /\ k >= f =>
            NearHonest(cfg.embed, o.texts, o.index, f, k)

\* Every task's proposals come to an end, provided the evaluator answers the calls no
\* timeout guards: no explorer waits for ever on the card lock, a silent agent or its own
\* failing turns, every evaluation is collected, and each wave without a survivor is
\* followed by another or by the end.
ProposalsConclude == WF_vars(FreeEval) => <>(stage = "done")
=============================================================================
