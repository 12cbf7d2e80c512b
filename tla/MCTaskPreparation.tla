------------------------- MODULE MCTaskPreparation -------------------------
(* Small tasks for the model checker: one or two constraints, every switch  *)
(* of the preparation on and off in at least one of them.                   *)
EXTENDS TaskPreparation

Doc(id, domain, severity, kind, cards) ==
    [id |-> id, domains |-> {domain}, severity |-> severity, kind |-> kind,
     tier |-> TierOf({kind}), cards |-> cards, spells |-> {}]

Base ==
    [corpus |-> <<Doc("c1", "auth", "hard", "judge", {}), Doc("c2", "latency", "soft", "vocabulary", {})>>,
     domains |-> <<"auth", "latency">>,
     think |-> [enabled |-> TRUE, maxIterations |-> 2, maxArchetypes |-> 4, coverage |-> 75,
                floor |-> 30, oracle |-> FALSE],
     knowledge |-> [plain |-> {"n1"}, refined |-> {"n2"}],
     probe |-> [enabled |-> TRUE, active |-> TRUE],
     ambiguity |-> [enabled |-> TRUE, threshold |-> 50],
     cal |-> [nMax |-> 3, nIt |-> {}, nPruned |-> 0, collapsed |-> FALSE, bootstrap |-> FALSE,
              neff |-> {}],
     count |-> 3, extra |-> <<>>, embedding |-> FALSE,
     diversity |-> <<>>, pool |-> 2, familyMatch |-> TRUE, requireDiverse |-> TRUE,
     complexity |-> [shadow |-> TRUE, soft |-> 100, type |-> 100, cross |-> 250, heavy |-> 80,
                     precision |-> 200, coverage |-> 250, minStatic |-> 30, nProbe |-> 2,
                     neff |-> 130, informative |-> 2, mismatch |-> 50],
     conflictMax |-> {}, coverageThreshold |-> 40, requireBivariate |-> FALSE,
     routing |-> FALSE, tee |-> [enabled |-> FALSE, min |-> 2, max |-> 4],
     suggested |-> 3, precisionSlots |-> 3, costs |-> {10}, weights |-> [t |-> 1, e |-> 1, d |-> 1],
     gates |-> FALSE, safety |-> [krumF |-> 0, krum |-> 30, bft |-> 85]]

OneHard == <<Doc("c1", "auth", "hard", "judge", {})>>

MCConfigs ==
    { Base,
      \* a hard constraint of doubtful wording; a single slot to be had
      [Base EXCEPT !.corpus = <<Doc("c1", "auth", "hard", "judge", {60})>>, !.domains = <<"auth">>,
                   !.cal.nMax = 1, !.count = 0, !.think.maxIterations = 3],
      \* related domains share a persona; the operator adds a slot
      [Base EXCEPT !.corpus = <<Doc("c1", "auth", "hard", "judge", {}),
                                Doc("c2", "security", "soft", "vocabulary", {})>>,
                   !.domains = <<"auth", "security">>, !.embedding = TRUE,
                   !.extra = <<DomainToSlot("auth", {})>>, !.think.enabled = FALSE,
                   !.pool = 1, !.familyMatch = FALSE, !.requireBivariate = TRUE],
      \* an advisory corpus, shadow probe, tiered exit, gates, costly roles
      [Base EXCEPT !.corpus = <<Doc("c1", "auth", "advisory", "oracle", {})>>,
                   !.domains = <<"auth">>, !.think.oracle = TRUE, !.probe.active = FALSE,
                   !.routing = TRUE, !.tee.enabled = TRUE, !.gates = TRUE, !.costs = {50},
                   !.safety.krumF = 1, !.complexity.shadow = FALSE, !.cal.nMax = 5,
                   !.cal.nIt = {4}, !.cal.nPruned = 2, !.count = 2],
      \* an ambiguous complexity, which the probes decide; a shallow pool; a
      \* constraint's id that names a domain
      [Base EXCEPT !.corpus = <<[Doc("auth-latency", "auth", "soft", "vocabulary", {})
                                     EXCEPT !.spells = {"auth", "latency"}],
                                Doc("c2", "latency", "soft", "vocabulary", {})>>,
                   !.complexity.shadow = FALSE, !.cal.neff = {110}, !.conflictMax = {4},
                   !.think.maxIterations = 1, !.probe.active = FALSE, !.costs = {90}],
      \* one judged hard constraint, one adapter for everyone
      [Base EXCEPT !.corpus = OneHard, !.domains = <<"auth">>, !.complexity.shadow = FALSE,
                   !.pool = 1, !.cal.neff = {110}, !.routing = TRUE],
      \* no corpus, a bootstrap calibration, a collapsed ensemble
      [Base EXCEPT !.corpus = <<>>, !.domains = <<>>, !.cal.bootstrap = TRUE,
                   !.cal.collapsed = TRUE, !.tee.enabled = TRUE] }

Block(focus) == [persona |-> TRUE, focus |-> focus]

MCArchetypes ==
    { <<Block({})>>, <<Block({"c1"})>>, <<Block({"c1"}), Block({"c2"})>>,
      <<Block({"c1"}), [persona |-> FALSE, focus |-> {"c2"}]>> }

Slot(frame, mentions, declares) ==
    [frame |-> frame, mentions |-> mentions, declares |-> declares, critic |-> FALSE]

MCSlotAnswers ==
    LET shapes == {Slot("", {"auth"}, {"auth"}), Slot("security engineer", {"auth"}, {}),
                   Slot("reviewer", {"latency"}, {"latency"}), Slot("reviewer", {}, {"auth"})}
    IN  UNION {[1 .. n -> shapes] : n \in 0 .. 3}
=============================================================================
