-------------------------- MODULE MCWavePipeline --------------------------
(* Model-checking instances of WavePipeline: which configurations to explore. *)
EXTENDS WavePipeline

Base ==
    [retry |-> 0, maxRetries |-> 1, quorumShort |-> FALSE, multiplies |-> TRUE,
     homogeneous |-> FALSE, diversityPct |-> 0, fallback |-> FALSE,
     skipAudit |-> FALSE, failOpen |-> FALSE, shadow |-> "absent",
     oracle |-> "off", onTimeout |-> "pass", onFail |-> "evict", synthesis |-> FALSE,
     synthesisMin |-> 1, bypassed |-> {}]

\* The gates before and around verification, in the first wave and in a retry.
GateSettings ==
    {Base, [Base EXCEPT !.quorumShort = TRUE], [Base EXCEPT !.multiplies = FALSE],
     [Base EXCEPT !.homogeneous = TRUE, !.diversityPct = 15],
     [Base EXCEPT !.diversityPct = 15, !.skipAudit = TRUE],
     [Base EXCEPT !.diversityPct = 15, !.retry = 1, !.skipAudit = TRUE],
     [Base EXCEPT !.diversityPct = 15, !.fallback = TRUE, !.skipAudit = TRUE],
     [Base EXCEPT !.failOpen = TRUE, !.shadow = "voting"],
     [Base EXCEPT !.shadow = "observing", !.synthesis = TRUE, !.synthesisMin = 2],
     [Base EXCEPT !.retry = 1, !.bypassed = Constraint]}

\* The oracle with every combination of its policies.
OracleSettings ==
    {[Base EXCEPT !.skipAudit = TRUE, !.synthesis = TRUE, !.oracle = o, !.onTimeout = t,
                  !.onFail = f] :
        o \in {"no_nats", "armed"}, t \in {"pass", "fail", "skip"},
        f \in {"evict", "clarify", "pass"}}

MCSettings == GateSettings \cup OracleSettings
=============================================================================
