-------------------------- MODULE ConstraintCorpus --------------------------
(***************************************************************************)
(* The constraint corpus: YAML files are parsed into constraint documents  *)
(* or into semantic specs, a task's corpus is resolved from them by id,    *)
(* tag or query, and the static scanner looks for checks whose wording     *)
(* contradicts itself.                                                     *)
(*                                                                         *)
(* A text is what these operations tell apart of it: the storage systems   *)
(* it names in order, the systems it negates within five words, whether it *)
(* offers an alternative and whether it claims something universal.        *)
(* Scores and thresholds are percentages.                                  *)
(***************************************************************************)
EXTENDS Naturals, Sequences, FiniteSets, SequencesExt, FiniteSetsExt, Subsequences

CONSTANTS
    Texts,   \* check texts, guidance lines and hints
    Reads    \* what the scanner reads in a text

ASSUME ReadsAssumption ==
    /\ DOMAIN Reads = Texts
    /\ \A x \in Texts : /\ Reads[x].negates \subseteq STRING
                        /\ {Reads[x].escapes, Reads[x].strict} \subseteq BOOLEAN

-----------------------------------------------------------------------------
(* Files and documents *)

\* The threshold of a constraint that gives none: with n binary checks one
\* may be missed, otherwise half a point is needed.
DefaultThreshold(checks) ==
    IF Len(checks) >= 2 THEN ((Len(checks) - 1) * 100) \div Len(checks) ELSE 50

\* Hard thresholds and soft weights; advisory constraints have neither.
Severity(file, default) ==
    [kind |-> file.severity,
     level |-> CASE file.severity = "Advisory" -> 0
                 [] file.threshold # {} -> CHOOSE n \in file.threshold : TRUE
                 [] file.severity = "Hard" -> default
                 [] OTHER -> 100]

\* The gates of the deprecated `predicates:` array whose operands are present.
LegacyGates(predicates) == {p.gate : p \in {q \in predicates : q.complete}}

\* The structural gates of a file: its `semantic:` section, or the gates of
\* the deprecated array when it has none.
StructuralGates(file) ==
    IF file.semantic = {} THEN LegacyGates(file.predicates)
    ELSE UNION file.semantic

\* A file with both keys is skipped, and so is one that does not parse.
Loads(file) == file.parses /\ (file.semantic = {} \/ file.predicates = {})

\* The rubric the judge is given: guidance prose (pass, partial and fail
\* text, failure modes, examples), the hint and the numbered checks.
BuildRubric(guidance, hint, checks, examples) ==
    [lines |-> guidance \cup hint \cup ToSet(checks), examples |-> examples]

\* ConstraintYaml::into_constraint_doc.
FileDoc(file) ==
    [id |-> file.id, severity |-> Severity(file, DefaultThreshold(file.checks)),
     predicate |-> file.numeric \cup StructuralGates(file) \cup {"LlmJudge"},
     rubric |-> BuildRubric(file.guidance, file.hint, file.checks, file.examples),
     hint |-> file.hint, checks |-> file.checks, tags |-> file.tags,
     words |-> file.words, title |-> file.title, version |-> 1]

\* ConstraintYaml::into_semantic_spec: the numeric checks have no place in a
\* spec and the default threshold is another one.
FileSpec(file) ==
    [id |-> file.id, severity |-> Severity(file, 45),
     gates |-> StructuralGates(file), guidance |-> file.guidance,
     examples |-> file.examples, hint |-> file.hint, checks |-> file.checks,
     tags |-> file.tags, words |-> file.words, title |-> file.title, version |-> 1]

\* SemanticSpec::into_constraint_doc.
SpecDoc(spec) ==
    [id |-> spec.id, severity |-> spec.severity,
     predicate |-> spec.gates \cup {"LlmJudge"},
     rubric |-> BuildRubric(spec.guidance, spec.hint, spec.checks, spec.examples),
     hint |-> spec.hint, checks |-> spec.checks, tags |-> spec.tags,
     words |-> spec.words, title |-> spec.title, version |-> spec.version]

\* The files of a directory that are read: in name order, and of those with
\* one id the first (seen_ids).
Readable(dir) ==
    Subsequence(dir, {i \in DOMAIN dir :
                         /\ Loads(dir[i])
                         /\ \A j \in 1..(i - 1) : Loads(dir[j]) => dir[j].id # dir[i].id})

\* load_corpus, the documents the server resolves tasks against.
LoadCorpus(dir) == LET fs == Readable(dir) IN [i \in DOMAIN fs |-> FileDoc(fs[i])]

\* YamlDirSource::load_all, the specs a versioned source wraps.
LoadAll(dir) == LET fs == Readable(dir) IN [i \in DOMAIN fs |-> FileSpec(fs[i])]

-----------------------------------------------------------------------------
(* Resolution *)

DocOf(docs, id) == CHOOSE d \in ToSet(docs) : d.id = id

\* The ids of a request that are in the index, in the request's order and as
\* often as it names them.
FindByIds(docs, ids) ==
    Subsequence(ids, {i \in DOMAIN ids : \E d \in ToSet(docs) : d.id = ids[i]})

\* documents with a domain or a mandatory tag of the task
FindByTags(docs, tags) == {d.id : d \in {e \in ToSet(docs) : e.tags \cap tags # {}}}

\* BM25: documents that share a term with the query; the twenty best, more
\* than a bounded corpus has.
Search(docs, query) == {d.id : d \in {e \in ToSet(docs) : e.words \cap query # {}}}

\* load_many: one document for every id.
LoadMany(docs, ids) == [i \in DOMAIN ids |-> DocOf(docs, ids[i])]

\* ConstraintResolver::resolve: explicit ids override tags and query; tags
\* and query are united; nothing asked for selects nothing.
Resolve(docs, explicit, tags, query) ==
    IF explicit # <<>> THEN LoadMany(docs, FindByIds(docs, explicit))
    ELSE LET ids == FindByTags(docs, tags) \cup Search(docs, query)
         IN  Subsequence(docs, {i \in DOMAIN docs : docs[i].id \in ids})

-----------------------------------------------------------------------------
(* Static ambiguity scan *)

\* The configured weight of a piece of evidence.
Weight(kind) ==
    CASE kind = "MultiStorageConflict"     -> 20
      [] kind = "FmTermNegation"           -> 30
      [] kind = "RemediationContradiction" -> 15
      [] kind = "CrossCheckNegation"       -> 20
      [] kind = "JaccardFreezeWave"        -> 15
      [] kind = "PositiveExampleConflict"  -> 35

\* The systems a text names, in order, and whether it negates one of them.
StorageSystemsIn(text) == Reads[text].systems
TermNegatedIn(text, term) == term \in Reads[text].negates

\* Rubric lines that are not checks themselves.
GuidanceLines(doc) == doc.rubric.lines \ ToSet(doc.checks)

Evidence(kind, found) == IF found THEN {<<kind>>} ELSE {}

\* scan_constraint for one check: the evidence against it.  A negating
\* sibling counts once for every system it negates.
ScanCheck(doc, idx) ==
    LET text    == doc.checks[idx]
        systems == StorageSystemsIn(text)
        named   == ToSet(systems)
    IN  UNION {
          Evidence("MultiStorageConflict", Len(systems) >= 2 /\ ~Reads[text].escapes),
          Evidence("FmTermNegation",
                   \E l \in GuidanceLines(doc), s \in named : TermNegatedIn(l, s)),
          Evidence("RemediationContradiction",
                   \E h \in doc.hint : /\ systems # <<>> /\ StorageSystemsIn(h) # <<>>
                                       /\ Head(systems) # Head(StorageSystemsIn(h))),
          {<<"CrossCheckNegation", p[1], p[2]>> : p \in
               {q \in named \X (DOMAIN doc.checks \ {idx}) :
                    TermNegatedIn(doc.checks[q[2]], q[1])}},
          Evidence("PositiveExampleConflict",
                   Reads[text].strict /\ named \cap doc.rubric.examples # {})}

\* score_evidence: weights add up, capped at 1.0.
AddScore(score, weight) == IF score + weight > 100 THEN 100 ELSE score + weight

ScoreOf(evidence) ==
    AddScore(0, FoldSet(LAMBDA e, n : n + Weight(e[1]), 0, evidence))

\* A scorecard: the score, whether static evidence pinpoints the check, and
\* whether it has fired.
Card(score, static) == [score |-> score, static |-> static, applied |-> FALSE]

\* seed_scorecards: one card per check with evidence; none when detection is
\* disabled.
SeedScorecards(corpus, enabled) ==
    LET flagged == {p \in UNION {{<<d, i>> : i \in DOMAIN d.checks} : d \in ToSet(corpus)} :
                        ScanCheck(p[1], p[2]) # {}}
    IN  IF ~enabled THEN <<>>
        ELSE [k \in {<<p[1].id, p[2]>> : p \in flagged} |->
                 LET p == CHOOSE q \in flagged : q[1].id = k[1] /\ q[2] = k[2]
                 IN  Card(ScoreOf(ScanCheck(p[1], p[2])), TRUE)]
=============================================================================
