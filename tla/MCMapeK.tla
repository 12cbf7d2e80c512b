------------------------------ MODULE MCMapeK ------------------------------
(***************************************************************************)
(* Configurations of MapeK for TLC: a plain task, and one per feature or   *)
(* combination of features that meets another one's exit.                  *)
(***************************************************************************)
EXTENDS MapeK, TLC

Plain ==
    [deadline |-> FALSE, oomGuard |-> FALSE, budget |-> 0, gapK1 |-> FALSE,
     repairAdapter |-> TRUE, tee |-> FALSE, probe |-> "none",
     minGraft |-> 1,
     viable |-> TRUE, integration |-> FALSE, intra |-> FALSE, intraMin |-> 1,
     synthesisWave |-> TRUE, nats |-> TRUE, hitl |-> FALSE, window |-> FALSE,
     oracleTask |-> FALSE, requireApproval |-> FALSE, strict |-> FALSE]

Reviewed == [Plain EXCEPT !.hitl = TRUE, !.requireApproval = TRUE, !.deadline = TRUE]

MCConfigs ==
    {Plain, [Plain EXCEPT !.window = TRUE],
     [Plain EXCEPT !.nats = FALSE, !.hitl = TRUE, !.synthesisWave = FALSE],
     Reviewed,
     [Reviewed EXCEPT !.requireApproval = FALSE, !.window = TRUE, !.strict = TRUE],
     [Reviewed EXCEPT !.oracleTask = TRUE],
     [Reviewed EXCEPT !.gapK1 = TRUE, !.tee = TRUE,
                       !.budget = 2],
     [Plain EXCEPT !.gapK1 = TRUE, !.repairAdapter = FALSE, !.window = TRUE],
     [Plain EXCEPT !.gapK1 = TRUE, !.deadline = TRUE, !.oomGuard = TRUE],
     [Plain EXCEPT !.tee = TRUE, !.budget = 1, !.oomGuard = TRUE]}
    \cup {[Plain EXCEPT !.probe = p, !.viable = v, !.integration = i, !.intra = ~i,
                        !.hitl = TRUE] :
              p \in {"none", "low", "decompose", "hitl"}, v \in BOOLEAN, i \in BOOLEAN}
=============================================================================
