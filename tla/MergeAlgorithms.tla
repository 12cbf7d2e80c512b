-------------------------- MODULE MergeAlgorithms --------------------------
(***************************************************************************)
(* How one proposal is selected: MergeEngine::resolve (merger.rs) and the   *)
(* selections of h2ai-state it dispatches to (krum.rs, bft.rs,              *)
(* weiszfeld.rs, semilattice.rs).                                           *)
(*                                                                         *)
(* Texts are points on an arc: a text is an integer and the distance of two *)
(* embeddings is proportional to their difference.  Distances are           *)
(* percentages.  ts is the sequence of valid texts, best score first.       *)
(***************************************************************************)
EXTENDS Integers, Sequences, FiniteSets, SequencesExt

CONSTANT Step       \* the semantic distance of neighbouring texts, in percent

\* F(v) for a set-valued F; TLC evaluates v once and, for a function, makes it a table.
Bind(v, F(_)) == UNION {F(x) : x \in {v}}
Table(f) == CHOOSE g \in {f} : g = f

AbsDiff(a, b) == IF a < b THEN b - a ELSE a - b

\* The distance of two texts under an embedding model; a model that embeds nothing
\* only knows equality; without a model the distance is that of the token sets.
Distance(embed, a, b) ==
    CASE embed = "empty" -> IF a = b THEN 0 ELSE 100
      [] OTHER           -> Min({100, Step * AbsDiff(a, b)})

-----------------------------------------------------------------------------
\* The proposal set: per explorer the newest generation, then the highest score.

InsertScored(set, e, gen, score) ==
    IF e \in DOMAIN set /\ ~(\/ gen > set[e].gen
                             \/ gen = set[e].gen /\ score > set[e].score)
    THEN set
    ELSE [x \in DOMAIN set \cup {e} |->
             IF x = e THEN [gen |-> gen, score |-> score] ELSE set[x]]

\* The valid explorers, best first; the map has no order, so ties come out anyhow: a
\* place is for whoever has fewer better ones than the place's number and is not yet out.
Compile(set) ==
    LET valid == {e \in DOMAIN set : set[e].score > 0}
        above == [e \in valid |-> Cardinality({d \in valid : set[d].score > set[e].score})]
        level == [e \in valid |-> Cardinality({d \in valid : set[d].score >= set[e].score})]
        Place(i, s) ==
            {Append(s, e) : e \in {x \in valid \ ToSet(s) : above[x] < i /\ i <= level[x]}}
        orders[i \in 0..Cardinality(valid)] ==
            IF i = 0 THEN {<<>>} ELSE UNION {Place(i, s) : s \in orders[i - 1]}
    IN  orders[Cardinality(valid)]

-----------------------------------------------------------------------------
\* Krum.

QuorumSatisfied(n, f) == n >= 2 * f + 3

\* The sum of d over the indices I among 1..n.
SumOver(n, I, d) ==
    LET sum[i \in 0..n] == IF i = 0 THEN 0 ELSE sum[i - 1] + (IF i \in I THEN d[i] ELSE 0)
    IN  sum[n]

\* A row of the distance matrix; the distance to itself is zero.
DistancesFrom(embed, ts, i) == [j \in DOMAIN ts |-> Distance(embed, ts[i], ts[j])]

DistanceSum(embed, ts, i) == SumOver(Len(ts), DOMAIN ts, DistancesFrom(embed, ts, i))

\* The sum over the ordered pairs: twice the one over the pairs.
TotalDistance(embed, ts) ==
    SumOver(Len(ts), DOMAIN ts, [i \in DOMAIN ts |-> DistanceSum(embed, ts, i)])

\* The mean pairwise distance is below the cluster diameter 0.7; never without a model.
ClusterCoherent(embed, ts) ==
    /\ embed # "none"
    /\ \/ Len(ts) < 2
       \/ TotalDistance(embed, ts) < 70 * Len(ts) * (Len(ts) - 1)

\* The first k of others when they are sorted by distance.
Nearest(d, others, k) ==
    {j \in others :
        Cardinality({l \in others : d[l] < d[j] \/ (d[l] = d[j] /\ l < j)}) < k}

\* The sum of the distances to the k nearest of a subset, i itself left out.
KrumScoreSubset(embed, ts, i, subset, k) ==
    LET d == DistancesFrom(embed, ts, i)
    IN  SumOver(Len(ts), Nearest(d, subset \ {i}, k), d)

\* A bug: the largest score is taken.
KrumIndexMost(embed, ts, subset, k) ==
    Bind(Table([i \in subset |-> KrumScoreSubset(embed, ts, i, subset, k)]),
         LAMBDA score : {i \in subset : \A j \in subset :
                            score[i] > score[j] \/ (score[i] = score[j] /\ i <= j)})

\* The first of a subset whose score is the least, as a set of one.
KrumIndex(embed, ts, subset, k) ==
    Bind(Table([i \in subset |-> KrumScoreSubset(embed, ts, i, subset, k)]),
         LAMBDA score : {i \in subset : \A j \in subset :
                            score[i] < score[j] \/ (score[i] = score[j] /\ i <= j)})

KrumSelect(embed, ts, f) ==
    IF f = 0 THEN {1} ELSE KrumIndex(embed, ts, DOMAIN ts, Len(ts) - f - 2)

\* Up to m survivors, one Krum selection after the other, while more than f + 2 remain.
KrumRound(embed, ts, f, remaining) ==
    IF Cardinality(remaining) > f + 2
    THEN remaining \ KrumIndex(embed, ts, remaining, Cardinality(remaining) - f - 2)
    ELSE remaining

MultiKrumSelect(embed, ts, f, m) ==
    LET remaining[j \in 0..m] ==
            IF j = 0 THEN DOMAIN ts
            ELSE Bind(remaining[j - 1], LAMBDA r : KrumRound(embed, ts, f, r))
    IN  IF f = 0 THEN 1..Min({m, Len(ts)}) ELSE (DOMAIN ts) \ remaining[m]

-----------------------------------------------------------------------------
\* The other selections.

\* The largest sum of similarities; of several, the last.  A set of one.
ConsensusMedian(embed, ts) ==
    Bind(Table([i \in DOMAIN ts |-> DistanceSum(embed, ts, i)]),
         LAMBDA far : {i \in DOMAIN ts : \A j \in DOMAIN ts :
                          far[i] < far[j] \/ (far[i] = far[j] /\ j <= i)})

\* Converged Weiszfeld iterations reach a geometric median; on an arc that is any point
\* between the two middle texts, and the nearest proposal is one of the two.
WeiszfeldSelect(embed, ts) ==
    LET half(i) ==
            /\ 2 * Cardinality({j \in DOMAIN ts : ts[j] < ts[i]}) <= Len(ts)
            /\ 2 * Cardinality({j \in DOMAIN ts : ts[j] > ts[i]}) <= Len(ts)
    IN  IF embed = "empty" THEN {1} ELSE {i \in DOMAIN ts : half(i)}

\* The score spread decides between the leader and the median.
ClassifyOspRegime(scores, tv) ==
    CASE Len(scores) <= 1                                          -> "osp_single_survivor"
      [] Len(scores) > 1 /\ scores[1] - scores[2] >= 2 * tv        -> "osp_clear_leader"
      [] OTHER                                                     -> "osp_tight_cluster"

Selected(mode, indices) == {[mode |-> mode, index |-> i] : i \in indices}

\* Without quorum or without a cluster, the median.
FallbackSelection(embed, ts) ==
    IF embed = "none" THEN Selected("consensus_fallback", ConsensusMedian(embed, ts))
    ELSE Selected("weiszfeld", WeiszfeldSelect(embed, ts))

\* The survivors of Multi-Krum are ranked by their verification score: the first wins.
StrategySelection(s, embed, ts) ==
    LET robust == QuorumSatisfied(Len(ts), s.f) /\ ClusterCoherent(embed, ts)
    IN  CASE s.kind = "median"  -> Selected("consensus_median", ConsensusMedian(embed, ts))
          [] s.kind = "ordered" -> Selected("score_ordered", {1})
          [] s.kind \in {"krum", "multi"} /\ ~robust -> FallbackSelection(embed, ts)
          [] s.kind = "krum" /\ robust  -> Selected("krum", KrumSelect(embed, ts, s.f))
          [] s.kind = "multi" /\ robust ->
                Bind(MultiKrumSelect(embed, ts, s.f, s.m),
                     LAMBDA survivors : Selected("multi_krum", {Min(survivors)}))

OspSelection(tv, embed, ts, scores) ==
    LET regime == ClassifyOspRegime(scores, tv)
    IN  Selected(regime, IF regime = "osp_tight_cluster" THEN ConsensusMedian(embed, ts)
                         ELSE {1})

\* The possible selections on valid texts ts with their scores; osp is {} or {T_v}.
Resolve(osp, s, embed, ts, scores) ==
    IF osp # {} THEN UNION {OspSelection(tv, embed, ts, scores) : tv \in osp}
    ELSE StrategySelection(s, embed, ts)
=============================================================================
