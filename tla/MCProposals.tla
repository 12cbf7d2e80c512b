---------------------------- MODULE MCProposals ----------------------------
(***************************************************************************)
(* Instances of Proposals.  Each configuration exercises one part and keeps *)
(* the others small.                                                        *)
(***************************************************************************)
EXTENDS Proposals

MCTexts == {0, 1, 2, 5}
MCWords == [t \in MCTexts |-> IF t = 5 THEN {} ELSE {"w1"} \cup (IF t = 0 THEN {"w2"} ELSE {})]

Judge == [kind |-> "judge"]
Vocabulary(mode, terms) == [kind |-> "vocabulary", mode |-> mode, terms |-> terms]
Composite(op, kids) == [kind |-> "composite", op |-> op, kids |-> kids]

Doc(severity, checks, pred) ==
    [severity |-> severity, threshold |-> 60, weight |-> 100, checks |-> checks, pred |-> pred]

\* A vocabulary gate before a judge with two checks; and one of each other kind.
GatedJudge == Doc("hard", 2, Composite("and", <<Vocabulary("all_of", {"w1", "w2"}), Judge>>))
CheckedJudge == Doc("hard", 2, Judge)
PlainJudge == Doc("hard", 0, Judge)
Either == Doc("soft", 0, Composite("or", <<[kind |-> "oracle"],
                                         [kind |-> "presence", passes |-> 2]>>))
Neither == Doc("advisory", 0, Composite("not", <<[kind |-> "exclusion", passes |-> 0]>>))
Pattern == Doc("hard", 0, [kind |-> "pattern", accepts |-> {0, 1, 5}])

Base ==
    [entry |-> "task", adapter |-> <<"cloud">>, bypass |-> TRUE, maxTurns |-> 1, validPattern |-> TRUE,
     retryOnTimeout |-> FALSE, wellFormed |-> {}, texts |-> {0}, corpus |-> <<>>,
     passes |-> 1, threshold |-> 50, families |-> {}, fraction |-> 67, weight |-> 70,
     strategy |-> [kind |-> "ordered", f |-> 0, m |-> 0], osp |-> {}, embed |-> "model",
     compare |-> FALSE, scores |-> <<90, 80, 70, 60, 55>>]

\* Two explorers of one A2A adapter, several turns, a corpus of the rubric only.
Remote == [Base EXCEPT !.adapter = <<"a2a", "a2a">>, !.bypass = FALSE, !.maxTurns = 3,
                       !.retryOnTimeout = TRUE, !.wellFormed = {1}, !.texts = {0, 1, 2, 5},
                       !.corpus = <<Pattern>>]
Misconfigured == {[Remote EXCEPT !.maxTurns = 0], [Remote EXCEPT !.validPattern = FALSE]}
Cloud  == [Base EXCEPT !.adapter = <<"cloud", "a2a">>, !.texts = {0, 5}]

\* Two texts under one judge, in two waves.
Cache1 == [Base EXCEPT !.adapter = <<"cloud", "cloud">>, !.texts = {0, 1, 5},
                       !.corpus = <<GatedJudge>>, !.compare = TRUE]
Cache2 == [Base EXCEPT !.texts = {0, 5}, !.passes = 2,
                       !.corpus = <<PlainJudge, Either, Neither>>]
Checks == [Base EXCEPT !.corpus = <<CheckedJudge>>, !.texts = {0, 1}]

\* Panels of two and of three families.
Panel2 == [Base EXCEPT !.families = {"judge", "x"}, !.corpus = <<PlainJudge>>]
Panel3 == [Base EXCEPT !.families = {"x", "y", "z"}, !.corpus = <<PlainJudge, Either>>]

\* Five verified proposals anywhere on the arc.
Five == [Base EXCEPT !.entry = "merge", !.adapter = [e \in 1..5 |-> "cloud"], !.texts = MCTexts]

Strategy(kind, f, m, embed) ==
    [Five EXCEPT !.strategy = [kind |-> kind, f |-> f, m |-> m], !.embed = embed]
Merges == {Strategy("krum", 1, 0, "model"), Strategy("krum", 0, 0, "model"),
           Strategy("krum", 1, 0, "none"), Strategy("multi", 1, 2, "model"),
           Strategy("multi", 0, 2, "empty"), Strategy("multi", 2, 2, "empty"),
           Strategy("median", 0, 0, "model"), [Five EXCEPT !.osp = {5}], [Five EXCEPT !.osp = {6}]}

MCConfigs == {Remote, Cloud, Cache1, Cache2, Checks, Panel2, Panel3} \cup Misconfigured \cup Merges
=============================================================================
