---------------------------- MODULE JudgeScoring ----------------------------
(***************************************************************************)
(* How one constraint is scored on one proposal: the predicates of         *)
(* h2ai-constraints (static ones in eval.rs, model-backed ones in          *)
(* verification.rs), the score drawn from a judge's answer, the hard gate  *)
(* and the soft aggregate, and the vote of a judge panel.                  *)
(*                                                                         *)
(* Scores, thresholds and weights are percentages, and quotients           *)
(* are rounded down.  What a language model or a test runner answers is    *)
(* not determined, so an evaluation is the SET of its possible outcomes    *)
(*   [score, reason, marks]                                                *)
(* reason: the judge gave one; marks: {} when no CHECK line was parsed,    *)
(* {k} when k of the constraint's checks were reported PRESENT.            *)
(***************************************************************************)
EXTENDS Integers, Sequences, FiniteSets, SequencesExt

CONSTANTS
    JudgeScores,    \* the scores a judge may write in its answer
    Words           \* the vocabulary terms each text contains

-----------------------------------------------------------------------------
\* Static predicates.

EvalVocabulary(mode, terms, text) ==
    LET hits == Cardinality(terms \cap Words[text])
    IN  IF terms = {} THEN 100
        ELSE CASE mode = "all_of"  -> (100 * hits) \div Cardinality(terms)
               [] mode = "any_of"  -> IF hits > 0 THEN 100 ELSE 0
               [] mode = "none_of" -> IF hits = 0 THEN 100 ELSE 0

\* A regex, numeric, schema or length predicate holds of a set of texts; one whose
\* pattern does not compile or whose field is missing holds of none.
EvalNumeric(p, text) == IF text \in p.accepts THEN 100 ELSE 0

\* Without an async evaluator a judge counts as passed and an oracle as failed.
EvalLeaf(p, text) ==
    CASE p.kind = "vocabulary" -> EvalVocabulary(p.mode, p.terms, text)
      [] p.kind = "pattern"    -> EvalNumeric(p, text)
      [] p.kind = "oracle"     -> 0
      [] OTHER                 -> 100

EvalSync(p, text) ==
    IF p.kind # "composite" THEN EvalLeaf(p, text)
    ELSE LET scores == {EvalLeaf(p.kids[i], text) : i \in DOMAIN p.kids}
         IN  CASE p.op = "and" -> Min(scores \cup {100})
               [] p.op = "or"  -> Max(scores \cup {0})
               [] p.op = "not" -> 100 - (IF p.kids = <<>> THEN 0
                                         ELSE EvalLeaf(p.kids[1], text))

-----------------------------------------------------------------------------
\* Model-backed predicates.

Plain(s) == [score |-> s, reason |-> FALSE, marks |-> {}]

\* With checks, the raw answer may carry CHECK lines; a check without a line, or
\* with any verdict but PRESENT, counts as missing.
ParseCheckVerdicts(n) ==
    IF n = 0 THEN {{}} ELSE {{}} \cup {{k} : k \in 0..n}

\* One call of the judge: a readable score object (its reason may be empty), an
\* answer without one (neutral 0.7, the raw text kept), or a failed call.
LlmScoreRaw(n) ==
         [score : JudgeScores, reason : BOOLEAN, marks : ParseCheckVerdicts(n)]
    \cup [score : {70}, reason : {FALSE}, marks : ParseCheckVerdicts(n)]
    \cup {Plain(70)}

JudgeTimedOut == Plain(50)

\* A number of passes that is configured as zero means one.
AtLeastOne(passes) == IF passes = 0 THEN 1 ELSE passes

\* The passes are averaged; reason and raw answer are those of the lowest one.
LlmJudge(passes, n) ==
    {LET low == CHOOSE i \in DOMAIN a :
                    /\ \A j \in DOMAIN a : a[i].score <= a[j].score
                    /\ \A j \in 1..(i - 1) : a[j].score > a[i].score
         sum == FoldLeft(LAMBDA x, o : x + o.score, 0, a)
     IN  [a[low] EXCEPT !.score = sum \div Len(a)]
        : a \in [1..AtLeastOne(passes) -> LlmScoreRaw(n) \cup {JudgeTimedOut}]}

\* A test runner that fails, times out or answers garbage scores 0.
EvalOracle == {Plain(0), Plain(100)}

\* YES needs a strict majority of the calls, and a failed call counts as NO.
MajorityBinaryCheck(passes, invert) ==
    LET calls == AtLeastOne(passes)
    IN  {Plain(IF (2 * yes > calls) # invert THEN 100 ELSE 0) : yes \in 0..calls}

AsyncKinds == {"judge", "oracle", "presence", "ordering", "exclusion"}

LeafOutcomes(p, text, passes, n) ==
    CASE p.kind = "judge"                    -> LlmJudge(passes, n)
      [] p.kind = "oracle"                   -> EvalOracle
      [] p.kind \in {"presence", "ordering"} -> MajorityBinaryCheck(p.passes, FALSE)
      [] p.kind = "exclusion"                -> MajorityBinaryCheck(p.passes, TRUE)
      [] OTHER                               -> {Plain(EvalSync(p, text))}

\* One outcome for each predicate of a sequence.
OutcomeChoices(ps, text, passes, n) ==
    {c \in [DOMAIN ps -> UNION {LeafOutcomes(ps[i], text, passes, n) : i \in DOMAIN ps}] :
        \A i \in DOMAIN ps : c[i] \in LeafOutcomes(ps[i], text, passes, n)}

\* The static children decide first, and a zero among them ends the evaluation; the
\* others are then taken in order until one is zero.  The raw answer is dropped.
AndOutcomes(kids, text, passes, n) ==
    LET static   == {i \in DOMAIN kids : kids[i].kind \notin AsyncKinds}
        floor    == Min({100} \cup {EvalSync(kids[i], text) : i \in static})
        deferred == SelectSeq(kids, LAMBDA k : k.kind \in AsyncKinds)
        Lower(acc, o) == IF acc.score > 0 /\ o.score < acc.score
                         THEN [o EXCEPT !.marks = {}] ELSE acc
    IN  IF floor = 0 THEN {Plain(0)}
        ELSE {FoldLeft(Lower, Plain(floor), c) : c \in OutcomeChoices(deferred, text, passes, n)}

OrOutcomes(kids, text, passes, n) ==
    {Plain(Max({0} \cup {c[i].score : i \in DOMAIN c}))
        : c \in OutcomeChoices(kids, text, passes, n)}

NotOutcomes(kids, text, passes, n) ==
    IF kids = <<>> THEN {Plain(100)}
    ELSE {Plain(100 - o.score) : o \in LeafOutcomes(kids[1], text, passes, n)}

EvalPredicate(p, text, passes, n) ==
    CASE p.kind # "composite" -> LeafOutcomes(p, text, passes, n)
      [] p.kind = "composite" /\ p.op = "and" -> AndOutcomes(p.kids, text, passes, n)
      [] p.kind = "composite" /\ p.op = "or"  -> OrOutcomes(p.kids, text, passes, n)
      [] p.kind = "composite" /\ p.op = "not" -> NotOutcomes(p.kids, text, passes, n)

-----------------------------------------------------------------------------
\* From an outcome to a compliance result.

ScoreFromVerdicts(marks, n, float) ==
    IF n = 0 \/ marks = {} THEN float
    ELSE (100 * (CHOOSE k \in marks : TRUE)) \div n

\* Without verdicts and without a reason (a failed judge, and every cached score), a
\* positive score is lifted just above the binary threshold (n-1)/n.
EffectiveScore(o, n) ==
    IF o.marks = {} /\ n > 0 /\ ~o.reason /\ o.score > 0
    THEN Max({o.score, (100 * (n - 1)) \div n + 1})
    ELSE ScoreFromVerdicts(o.marks, n, o.score)

\* A retry wave scales the threshold down, by the fraction num/den.
HardPassesScaled(doc, score, scale) ==
    doc.severity = "hard" => scale.den * score >= scale.num * doc.threshold

Hard(corpus) == {i \in DOMAIN corpus : corpus[i].severity = "hard"}

AggregateComplianceScore(corpus, scores) ==
    LET soft  == SelectSeq([i \in DOMAIN corpus |-> i],
                           LAMBDA i : corpus[i].severity = "soft")
        total == FoldLeft(LAMBDA x, i : x + corpus[i].weight, 0, soft)
    IN  IF total = 0 THEN 100
        ELSE FoldLeft(LAMBDA x, i : x + corpus[i].weight * scores[i], 0, soft) \div total

\* An empty corpus is judged by the rubric, as one hard constraint.
RubricDoc(threshold) ==
    [severity |-> "hard", threshold |-> threshold, weight |-> 0, checks |-> 0,
     pred |-> [kind |-> "rubric"]]

\* Only hard constraints are judged in several passes.
EffectivePasses(doc, passes) ==
    IF doc.severity = "hard" THEN Max({passes, 1}) ELSE 1

\* The rubric call is not under the judge's timeout.
DocOutcomes(doc, text, passes) ==
    IF doc.pred.kind = "rubric" THEN LlmScoreRaw(0)
    ELSE EvalPredicate(doc.pred, text, EffectivePasses(doc, passes), doc.checks)

\* The judge and the test runner are called under a timeout; the rubric and the YES/NO
\* checks are not, and no adapter has one of its own.
TimeBoundKinds == {"vocabulary", "pattern", "judge", "oracle"}
TimeBound(p) ==
    IF p.kind = "composite" THEN \A i \in DOMAIN p.kids : p.kids[i].kind \in TimeBoundKinds
    ELSE p.kind \in TimeBoundKinds

-----------------------------------------------------------------------------
\* The judge panel.

\* The verification adapter, and at most two explorer adapters of other families.
PanelSize(primary, families) == 1 + Min({2, Cardinality(families \ {primary})})

\* A quorum of the votes, in a fraction of the panel, rounded up.
AggregateVotes(pass, fail, fraction) ==
    LET quorum == ((pass + fail) * fraction + 99) \div 100
    IN  CASE pass >= quorum                 -> "pass"
          [] pass < quorum /\ fail >= quorum -> "fail"
          [] OTHER                          -> "uncertain"

\* The panel's result on one constraint, from the scores of its judges.
PanelResult(doc, scores, scale, fraction, weight) ==
    LET n       == Len(scores)
        pass    == Cardinality({v \in 1..n : HardPassesScaled(doc, scores[v], scale)})
        average == FoldLeft(LAMBDA x, s : x + s, 0, scores) \div n
        verdict == AggregateVotes(pass, n - pass, fraction)
        failed  == IF doc.severity = "hard" THEN Max({doc.threshold - 1, 0}) ELSE 0
    IN  [verdict |-> verdict,
         refused |-> pass = 0,
         score   |-> CASE verdict = "pass"      -> average
                       [] verdict = "fail"      -> failed
                       [] verdict = "uncertain" -> (average * weight) \div 100]
=============================================================================
