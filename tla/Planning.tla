------------------------------ MODULE Planning ------------------------------
(***************************************************************************)
(* The pure parts of planning a task: how complex its corpus is, which     *)
(* routing quadrant that gives, how many explorers run, in which topology  *)
(* and how their proposals are merged.                                     *)
(*                                                                         *)
(* Fractions, complexities and weights are integers in hundredths.  A      *)
(* corpus is a sequence of documents [id, domains, severity, kind, tier,   *)
(* cards]; `cards` holds the static ambiguity score of each flagged check. *)
(***************************************************************************)
EXTENDS Integers, Sequences, FiniteSets, SequencesExt, FiniteSetsExt

Least(a, b)    == IF a < b THEN a ELSE b
Greatest(a, b) == IF a > b THEN a ELSE b
Clamp(lo, x, hi) == Greatest(lo, Least(x, hi))
Count(seq, Test(_)) == Len(SelectSeq(seq, Test))

-----------------------------------------------------------------------------
(* Complexity of a corpus *)

\* The number of predicate variants type_diversity is a fraction of.
PredicateVariants == 12

\* The tier of a predicate: an oracle is heavy, anything a model judges is
\* light; a composite is as heavy as its heaviest child.
TierOf(kinds) ==
    IF "oracle" \in kinds THEN "heavy"
    ELSE IF kinds \cap {"judge", "presence", "ordering", "exclusion"} # {} THEN "light"
    ELSE "static"

\* tcc_structural and the tier fractions, from the metadata alone.
CorpusComplexity(corpus, k) ==
    LET n     == Len(corpus)
        soft  == Count(corpus, LAMBDA d : d.severity = "soft")
        kinds == Cardinality({d.kind : d \in ToSet(corpus)})
        Share(tier) == (100 * Count(corpus, LAMBDA d : d.tier = tier)) \div n
    IN  IF n = 0 THEN [tcc |-> 100, static |-> 100, heavy |-> 0]
        ELSE [tcc |-> 100 + (k.soft * soft) \div n
                          + (k.type * kinds) \div PredicateVariants
                          + (k.cross * soft * kinds) \div (n * PredicateVariants),
              static |-> Share("static"),
              heavy  |-> Share("heavy")]

\* A pool of unknown diversity counts as diverse.
ClassifyQuadrant(tcc, neff, k) ==
    LET diverse == \A n \in neff : n >= k.neff
    IN  IF tcc <= k.precision /\ tcc < k.coverage
        THEN IF diverse THEN "Precision" ELSE "Degenerate"
        ELSE IF diverse THEN "Coverage" ELSE "Complex"

\* Participation ratio of the covariance of the rows of `matrix` (0/1 entries),
\* in hundredths: tr(C)^2 / |C|^2, from columns centred by p times their mean.
ParticipationRatio(matrix) ==
    LET p    == Len(matrix)
        cols == IF p = 0 THEN {} ELSE DOMAIN matrix[1]
        Sum(Term(_)) == FoldFunction(LAMBDA x, s : x + s, 0, [i \in 1 .. p |-> Term(i)])
        mean == [j \in cols |-> Sum(LAMBDA i : matrix[i][j])]
        dot(j, l) == Sum(LAMBDA i : (p * matrix[i][j] - mean[j]) * (p * matrix[i][l] - mean[l]))
        trace == FoldSet(LAMBDA j, s : s + dot(j, j), 0, cols)
        frob  == FoldSet(LAMBDA c, s : s + dot(c[1], c[2]) * dot(c[1], c[2]), 0, cols \X cols)
    IN  IF p <= 1 \/ cols = {} \/ trace = 0 \/ frob = 0 THEN 100
        ELSE Clamp(100, (100 * trace * trace) \div frob, 100 * Cardinality(cols))

\* Heavy constraints amplify the structural complexity.
Amplified(meta, k) == (meta.tcc * (100 + (k.heavy * meta.heavy) \div 100)) \div 100

\* run_probe: `matrix` tells which static constraint each answered probe
\* satisfied.  Only columns that tell two probes apart carry information.
RunProbe(matrix, meta, neff, k) ==
    LET p    == Len(matrix)
        cols == IF p = 0 THEN {} ELSE DOMAIN matrix[1]
        informative == {j \in cols : {matrix[i][j] : i \in 1 .. p} = {0, 1}}
        columns == SetToSeq(informative)
        tcc  == ParticipationRatio([i \in 1 .. p |-> [c \in DOMAIN columns |->
                                                         matrix[i][columns[c]]]])
    IN  IF p = 0 THEN ClassifyQuadrant(meta.tcc, neff, k)
        ELSE IF Cardinality(informative) < k.informative
        THEN ClassifyQuadrant(Amplified(meta, k), neff, k)
        ELSE ClassifyQuadrant(Greatest(meta.tcc, tcc)
                                + (IF meta.tcc > tcc + 100 THEN k.mismatch ELSE 0), neff, k)

\* Whether the structural complexity leaves room for a probe to decide.
ProbeDecides(meta, k) ==
    meta.static >= k.minStatic /\ k.precision < meta.tcc /\ meta.tcc < k.coverage

\* assess_task_complexity: the quadrants the assessment may end in, over the
\* probe answers of `matrices`.
AssessComplexity(corpus, bootstrap, neff, k, matrices) ==
    LET meta == CorpusComplexity(corpus, k)
    IN  IF bootstrap THEN {"Coverage"}
        ELSE IF meta.static < k.minStatic
        THEN {ClassifyQuadrant(Amplified(meta, k), neff, k)}
        ELSE IF ~ProbeDecides(meta, k) \/ matrices = {}
        THEN {ClassifyQuadrant(meta.tcc, neff, k)}
        ELSE {RunProbe(m, meta, neff, k) : m \in matrices}

-----------------------------------------------------------------------------
(* Domains of a corpus and their coverage *)

DomainsOf(corpus) == UNION {d.domains : d \in ToSet(corpus)}

\* Share of the corpus's domains the slots declare; all of them if none.
CoverageScore(slots, domains) ==
    IF domains = {} THEN 100
    ELSE (100 * Cardinality(domains \cap UNION {s.declares : s \in ToSet(slots)}))
            \div Cardinality(domains)

-----------------------------------------------------------------------------
(* Provisioning *)

\* TopologyPlanner::provision, the number of agents: a collapsed ensemble runs
\* one; otherwise the information-theoretic target and the eigenvalue pruning
\* cap the scalability limit, which the Complex quadrant restores.
ProvisionedMax(cal, quadrant) ==
    LET quality == IF cal.nIt = {} THEN cal.nMax ELSE Least(Min(cal.nIt), cal.nMax)
        capped  == IF cal.nPruned > 0 THEN Least(quality, cal.nPruned) ELSE quality
    IN  CASE cal.collapsed            -> 1
          [] quadrant = {"Precision"} -> Least(capped, 3)
          [] quadrant = {"Complex"}   -> cal.nMax
          [] OTHER                    -> capped

\* The Pareto candidates and their (throughput, containment, diversity) scores.
Candidates ==
    << [kind |-> "HierarchicalTree", t |-> 96, e |-> 96, d |-> 60],
       [kind |-> "TeamSwarmHybrid",  t |-> 84, e |-> 91, d |-> 95],
       [kind |-> "Ensemble",         t |-> 84, e |-> 84, d |-> 90] >>

\* Review gates force the hybrid; otherwise the best weighted score wins, the
\* last one of equals.
SelectTopology(weights, gates) ==
    LET Score(i) == weights.t * Candidates[i].t + weights.e * Candidates[i].e
                        + weights.d * Candidates[i].d
        best == {i \in DOMAIN Candidates : \A j \in DOMAIN Candidates : Score(i) >= Score(j)}
    IN  IF gates THEN "TeamSwarmHybrid" ELSE Candidates[Max(best)].kind

TopologyKind(weights, gates, force, quadrant) ==
    CASE force # {}             -> CHOOSE kind \in force : TRUE
      [] quadrant = {"Complex"} -> "Ensemble"
      [] OTHER                  -> SelectTopology(weights, gates)

\* MergeStrategy::from_role_costs.
MergeStrategyFor(costs, t) ==
    LET dearest == IF costs = {} THEN -1 ELSE Max(costs)
    IN  IF t.krumF > 0 /\ dearest > t.krum THEN "OutlierResistant"
        ELSE IF dearest > t.bft THEN "ConsensusMedian"
        ELSE "ScoreOrdered"

\* Blanchard et al.: n >= 2f + 3.
MinKrumQuorum(f) == (2 * f) + 3

\* The number of roles a wave plays when the manifest names none.
RoleCount(quadrant, ceiling, nAgents, maxSlots) ==
    IF quadrant = {"Precision"} THEN Clamp(3, ceiling, maxSlots) ELSE Greatest(nAgents, 1)
=============================================================================
