------------------------ MODULE WavePipeline_proofs ------------------------
(***************************************************************************)
(* For any number of explorers and constraints and any configuration: the  *)
(* proposal a wave returns passed verification and audit, an oracle that   *)
(* blocked the gate never sees its wave resolved and is shown every text   *)
(* that is selected, a complete wave reports each of its explorers once,   *)
(* and the phases together implement WaveContract, which MapeK relies on.  *)
(***************************************************************************)
EXTENDS WavePipeline, TLAPS, FiniteSetTheorems

EarlyPhases == {"topology", "multiply", "diversity", "generation", "hallucination",
                "verify"}
LatePhases == {"audit", "oracle", "synthesis", "merge", "post_selection", "done"}

\* The gate let the wave go on.
GateOpen == gate = "none" \/ GatePasses(gate)

\* The audit loop splits the passing proposals into those it has not reached,
\* the approved and the rejected ones.
AuditSplit ==
    /\ approved \subseteq passed /\ unaudited \subseteq passed
    /\ approved \cap pruned = {} /\ approved \cap unaudited = {}
    /\ unaudited \cap pruned = {}

\* The inductive invariant: nothing is alive before verification, the audit
\* split holds, the wave is past the gate only when it is open, and the outcome
\* is set at its end to a proposal of Valid.
IInv ==
    /\ phase \in EarlyPhases \cup LatePhases
    /\ phase \in EarlyPhases =>
         passed = {} /\ unaudited = {} /\ approved = {} /\ pruned = {} /\ gate = "none"
    /\ phase = "audit" => gate = "none"
    /\ phase \notin {"post_selection", "done"} => outcome = NoOutcome
    /\ phase = "post_selection" => outcome.kind = "resolved"
    /\ phase \in {"synthesis", "merge"} => GateOpen
    /\ outcome.kind = "resolved" => GateOpen
    /\ AuditSplit
    /\ outcome.kind = "resolved" /\ outcome.winner \in Explorer => outcome.winner \in Valid

\* No proposal is alive when a wave starts (Pipeline::run builds its locals).
LEMMA InitIInv == Init => IInv
  BY DEF Init, IInv, EarlyPhases, LatePhases, GateOpen, AuditSplit, NoOutcome

\* Every phase keeps the invariant.
LEMMA StepIInv == IInv /\ [Next]_vars => IInv'
<1> SUFFICES ASSUME IInv, [Next]_vars PROVE IInv'
  OBVIOUS
<1>1. CASE Topology
  BY <1>1 DEF Topology, IInv, EarlyPhases, LatePhases, GateOpen, GatePasses, AuditSplit,
     Valid, NoOutcome, Fatal, End, GoTo
<1>2. CASE Multiply
  BY <1>2 DEF Multiply, IInv, EarlyPhases, LatePhases, GateOpen, GatePasses, AuditSplit,
     Valid, NoOutcome, Exit, End, GoTo
<1>3. CASE Diversity
  BY <1>3 DEF Diversity, IInv, EarlyPhases, LatePhases, GateOpen, GatePasses, AuditSplit,
     Valid, NoOutcome, Exit, End, GoTo
<1>4. ASSUME NEW e \in Explorer, ExplorerEnds(e) PROVE IInv'
  BY <1>4 DEF ExplorerEnds, IInv, EarlyPhases, LatePhases, GateOpen, GatePasses,
     AuditSplit, Valid, NoOutcome
<1>5. CASE GenerationJoined
  BY <1>5 DEF GenerationJoined, IInv, EarlyPhases, LatePhases, GateOpen, GatePasses,
     AuditSplit, Valid, NoOutcome, GoTo
<1>6. CASE GenerationTimesOut
  BY <1>6 DEF GenerationTimesOut, IInv, EarlyPhases, LatePhases, GateOpen, GatePasses,
     AuditSplit, Valid, NoOutcome, GoTo
<1>7. CASE Hallucination
  BY <1>7 DEF Hallucination, IInv, EarlyPhases, LatePhases, GateOpen, GatePasses,
     AuditSplit, Valid, NoOutcome, Exit, End, GoTo
<1>8. CASE Verify
  <2>1. PICK ok \in SUBSET Proposed, sc \in [Proposed -> Scores] :
          /\ pruned' = Proposed \ ok
          /\ passed' \subseteq ok /\ unaudited' \subseteq passed'
          /\ \/ phase' = "audit" /\ outcome' = outcome
             \/ phase' = "done" /\ outcome' = Exit("ZeroSurvival")
    BY <1>8 DEF Verify, VerifyResult, GoTo, End, BestOf, Failing
  <2>2. approved' = {} /\ gate' = "none"
    BY <1>8 DEF Verify, IInv, EarlyPhases
  <2>3. phase = "verify" /\ outcome = NoOutcome
    BY <1>8 DEF Verify, IInv
  <2> QED
    BY <2>1, <2>2, <2>3 DEF IInv, EarlyPhases, LatePhases, GateOpen, AuditSplit, Valid,
       NoOutcome, Exit
<1>9. ASSUME NEW e \in Explorer, AuditOne(e) PROVE IInv'
  <2>1. phase = "audit" /\ e \in unaudited /\ unaudited' = unaudited \ {e}
        /\ passed' = passed /\ gate' = gate /\ gate = "none" /\ outcome = NoOutcome
    BY <1>9 DEF AuditOne, Remaining, IInv
  <2>2. \/ phase' = "done" /\ outcome' = Fatal("Adapter") /\ approved' = approved
             /\ pruned' = pruned
        \/ phase' = phase /\ outcome' = outcome /\ approved' = approved \cup {e}
             /\ pruned' = pruned
        \/ phase' = phase /\ outcome' = outcome /\ approved' = approved
             /\ pruned' = pruned \cup {e}
    BY <1>9 DEF AuditOne, End
  <2>3. AuditSplit'
    BY <2>1, <2>2 DEF IInv, AuditSplit
  <2> QED
    BY <2>1, <2>2, <2>3 DEF IInv, EarlyPhases, LatePhases, GateOpen, NoOutcome, Fatal
<1>10. CASE AuditEnds
  BY <1>10 DEF AuditEnds, IInv, EarlyPhases, LatePhases, GateOpen, GatePasses, AuditSplit,
     Valid, NoOutcome, GoTo
<1>11. CASE Oracle
  <2>1. \/ phase' = "synthesis" /\ outcome' = outcome /\ GateOpen'
        \/ phase' = "done" /\ outcome' = Exit("OracleBlocked")
    BY <1>11 DEF Oracle, GoTo, End, GateOpen, GatePasses
  <2>2. phase = "oracle" /\ outcome = NoOutcome
    BY <1>11 DEF Oracle, IInv
  <2>3. AuditSplit'
    BY <1>11 DEF Oracle, IInv, AuditSplit
  <2> QED
    BY <2>1, <2>2, <2>3 DEF IInv, EarlyPhases, LatePhases, NoOutcome, Exit
<1>12. CASE Synthesis
  <2>1. \/ phase' = "merge" /\ outcome' = outcome
        \/ phase' = "done" /\ outcome' = Resolved(Synthesized)
    BY <1>12 DEF Synthesis, GoTo, End
  <2>2. phase = "synthesis" /\ outcome = NoOutcome /\ GateOpen /\ GateOpen'
    BY <1>12 DEF Synthesis, IInv, GateOpen, GatePasses
  <2>3. AuditSplit'
    BY <1>12 DEF Synthesis, IInv, AuditSplit
  <2> QED
    BY <2>1, <2>2, <2>3, SynthesizedAssumption
    DEF IInv, EarlyPhases, LatePhases, NoOutcome, Resolved
<1>13. CASE Merge
  <2>1. \/ phase' = "done" /\ outcome' = Exit("ZeroSurvival")
        \/ \E winner \in Valid : outcome' = Resolved(winner)
                                   /\ phase' \in {"done", "post_selection"}
    BY <1>13 DEF Merge, AfterMerge, End
  <2>2. GateOpen' /\ Valid' = Valid
    BY <1>13 DEF Merge, IInv, GateOpen, GatePasses, Valid
  <2>3. AuditSplit'
    BY <1>13 DEF Merge, IInv, AuditSplit
  <2> QED
    BY <2>1, <2>2, <2>3 DEF IInv, EarlyPhases, LatePhases, Resolved, Exit
<1>14. CASE PostSelection
  <2>1. phase' = "done" /\ (outcome' = outcome
                              \/ outcome' = Exit("OraclePostSelectionBlocked"))
    BY <1>14 DEF PostSelection, End
  <2>2. phase = "post_selection" /\ Valid' = Valid /\ (GateOpen => GateOpen')
    BY <1>14 DEF PostSelection, GateOpen, GatePasses, Valid
  <2>3. AuditSplit'
    BY <1>14 DEF PostSelection, IInv, AuditSplit
  <2> QED
    BY <2>1, <2>2, <2>3 DEF IInv, EarlyPhases, LatePhases, Exit
<1>15. CASE Done \/ UNCHANGED vars
  BY <1>15 DEF Done, vars, IInv, EarlyPhases, LatePhases, GateOpen, GatePasses,
     AuditSplit, Valid
<1> QED
  BY <1>1, <1>2, <1>3, <1>4, <1>5, <1>6, <1>7, <1>8, <1>9, <1>10, <1>11, <1>12, <1>13,
     <1>14, <1>15 DEF Next

\* A proposal returned by a wave passed the verifier and the auditor and scores
\* above zero, whatever the configuration (phases/verify.rs, audit.rs, merge.rs).
THEOREM WinnerGated == Spec => []WinnerPassedEveryGate
<1>1. IInv => WinnerPassedEveryGate
  BY DEF IInv, AuditSplit, Valid, WinnerPassedEveryGate
<1> QED
  BY InitIInv, StepIInv, <1>1, PTL DEF Spec

\* A gate that rejected, or whose silence counts as a rejection, never has its
\* wave resolved: a wave reaches the synthesis and the merge only past an open
\* gate (phases/oracle.rs).
THEOREM GateGuards == Spec => []RejectedGateNeverResolves
<1>1. IInv => RejectedGateNeverResolves
  BY DEF IInv, GateOpen, GatePasses, RejectedGateNeverResolves
<1> QED
  BY InitIInv, StepIInv, <1>1, PTL DEF Spec

-----------------------------------------------------------------------------
(* What the wave reports: its events, its split of the proposals and its    *)
(* verdicts.                                                                *)

PreGeneration == {"topology", "multiply", "diversity"}
Audited == {"oracle", "synthesis", "merge", "post_selection"}

\* Generation is over: every explorer has proposed, failed or been dropped by
\* the timeout, and the failures are events.
GenerationReported ==
    /\ phase \in PreGeneration => gen = [e \in Explorer |-> "idle"]
    /\ phase = "generation" => \A e \in Explorer : gen[e] \in {"running", "proposed", "failed"}
    /\ phase \in {"hallucination", "verify", "audit"} \cup Audited
         \/ outcome.kind = "resolved" =>
         /\ \A e \in Explorer : gen[e] \in {"proposed", "failed", "lost"}
         /\ events.failed = FailedProposals

\* When each of the other events is recorded, and over which proposals.
EventsFollowPhases ==
    /\ phase \in PreGeneration \cup {"generation"} => events.failed = {}
    /\ phase \in PreGeneration \cup {"generation", "hallucination"} => events.charged = {}
    /\ phase \in {"verify", "audit"} \cup Audited \/ outcome.kind = "resolved" =>
         events.charged = Proposed
    /\ phase \notin {"post_selection", "done"} => events.verified = {}
    /\ outcome.kind = "resolved" => events.verified = Proposed /\ Proposed # {}
    /\ phase \in EarlyPhases \cup {"audit", "oracle"} => events.pruned = {}
    /\ phase \in {"synthesis", "merge", "post_selection"} \/ outcome.kind = "resolved" =>
         events.pruned = pruned

\* Without the fallback to the best proposal none is dropped silently: each one
\* is approved, pruned or still to be audited.
NothingDropped ==
    /\ phase \in Audited \/ outcome.kind = "resolved" => unaudited = {}
    /\ phase \in {"audit"} \cup Audited \/ outcome.kind = "resolved" =>
         setting.fallback \/ Proposed = approved \cup unaudited \cup pruned

\* Only a manifest with an oracle has a post-selection phase.
OracleLooksTwice ==
    /\ phase = "post_selection" => setting.oracle \in {"no_nats", "armed"}
    /\ SelectedTextWasJudged

\* The inductive invariant of the reports; it rests on IInv.
RInv == TypeOK /\ GenerationReported /\ EventsFollowPhases /\ NothingDropped
            /\ OracleLooksTwice

LEMMA InitRInv == Init => RInv
<1> SUFFICES ASSUME Init PROVE RInv
  OBVIOUS
<1>1. score \in [Explorer -> Scores] /\ violated \in [Explorer -> SUBSET Constraint]
  BY ScoreAssumption DEF Init, Scores
<1>2. TypeOK
  BY <1>1 DEF Init, TypeOK, Proposed, Replies
<1> QED
  BY <1>2 DEF Init, RInv, GenerationReported, EventsFollowPhases, NothingDropped,
     OracleLooksTwice, SelectedTextWasJudged, PreGeneration, Audited, EarlyPhases, NoOutcome,
     Proposed

\* The lists a phase hands on hold proposals of this wave only.
LEMMA StepType == TypeOK /\ IInv /\ [Next]_vars => TypeOK'
<1> SUFFICES ASSUME TypeOK, IInv, [Next]_vars PROVE TypeOK'
  OBVIOUS
<1> USE DEF TypeOK, Proposed
<1>1. CASE Topology
  BY <1>1 DEF Topology, Fatal, End, GoTo
<1>2. CASE Multiply
  BY <1>2 DEF Multiply, Exit, End, GoTo
<1>3. CASE Diversity
  BY <1>3 DEF Diversity, Exit, End, GoTo, IInv, EarlyPhases
<1>4. ASSUME NEW e \in Explorer, ExplorerEnds(e) PROVE TypeOK'
  BY <1>4 DEF ExplorerEnds, IInv, EarlyPhases
<1>5. CASE GenerationJoined
  BY <1>5 DEF GenerationJoined, GoTo, FailedProposals
<1>6. CASE GenerationTimesOut
  BY <1>6 DEF GenerationTimesOut, GoTo, IInv, EarlyPhases
<1>7. CASE Hallucination
  BY <1>7 DEF Hallucination, Exit, End, GoTo
<1>8. CASE Verify
  <2>1. PICK ok \in SUBSET Proposed, sc \in [Proposed -> Scores] :
          \E fp \in Fingerprints(ok), vi \in [Proposed \ ok -> SUBSET Constraint] :
             VerifyResult(ok, sc, fp, vi)
    BY <1>8 DEF Verify
  <2>2. PICK fp \in Fingerprints(ok), vi \in [Proposed \ ok -> SUBSET Constraint] :
             VerifyResult(ok, sc, fp, vi)
    BY <2>1
  <2> HIDE DEF TypeOK, Proposed
  <2>3. score' \in [Explorer -> Scores] /\ violated' \in [Explorer -> SUBSET Constraint]
    <3>1. score' = [e \in Explorer |-> IF e \in Proposed THEN sc[e] ELSE 0]
          /\ violated' = [e \in Explorer |-> IF e \in Proposed \ ok THEN vi[e] ELSE {}]
      BY <2>2 DEF VerifyResult
    <3>2. 0 \in Scores
      BY ScoreAssumption DEF Scores
    <3> QED
      BY <3>1, <3>2
  <2>4. UNCHANGED <<setting, gen, approved, gate, judged>> /\ approved = {}
    BY <1>8 DEF Verify, IInv, EarlyPhases
  <2>5. /\ pruned' \subseteq Proposed /\ passed' \subseteq ok /\ unaudited' \subseteq passed'
        /\ phase' \in {"audit", "done"}
        /\ events' = events \/ events' = [events EXCEPT !.verified = Proposed]
    BY <2>2 DEF VerifyResult, GoTo, End, BestOf, Failing
  <2>6. events' \in [failed : SUBSET Explorer, verified : SUBSET Explorer,
                     pruned : SUBSET Explorer, charged : SUBSET Explorer]
    BY <2>5 DEF TypeOK, Proposed
  <2> QED
    BY <2>3, <2>4, <2>5, <2>6 DEF TypeOK, Proposed
<1>9. ASSUME NEW e \in Explorer, AuditOne(e) PROVE TypeOK'
  <2>1. e \in unaudited /\ unaudited' = unaudited \ {e}
        /\ UNCHANGED <<setting, gen, score, passed, events, gate, judged>>
    BY <1>9 DEF AuditOne, Remaining
  <2>2. /\ phase' \in {"audit", "done"} /\ approved' \subseteq approved \cup {e}
        /\ pruned' \subseteq pruned \cup {e}
    BY <1>9 DEF AuditOne, End
  <2>3. violated' \in [Explorer -> SUBSET Constraint]
    BY <1>9 DEF AuditOne, End
  <2> QED
    BY <2>1, <2>2, <2>3
<1>10. CASE AuditEnds
  BY <1>10 DEF AuditEnds, GoTo
<1>11. CASE Oracle
  BY <1>11 DEF Oracle, GoTo, End, Replies
<1>12. CASE Synthesis
  BY <1>12 DEF Synthesis, GoTo, End
<1>13. CASE Merge
  BY <1>13 DEF Merge, AfterMerge, End
<1>14. CASE PostSelection
  BY <1>14 DEF PostSelection, End
<1>15. CASE Done \/ UNCHANGED vars
  BY <1>15 DEF Done, vars
<1> QED
  BY <1>1, <1>2, <1>3, <1>4, <1>5, <1>6, <1>7, <1>8, <1>9, <1>10, <1>11, <1>12, <1>13,
     <1>14, <1>15 DEF Next

\* A coherent wave with nothing to reconcile is not synthesised: where synthesis
\* runs, some proposal was made.
LEMMA SynthesisHasProposals ==
  ASSUME TypeOK, NEW hard \in SUBSET Constraint,
         Uncovered(hard) # {} \/ Cardinality(approved) >= 2
  PROVE  Proposed # {}
<1>1. CASE approved # {}
  BY <1>1 DEF TypeOK
<1>2. CASE approved = {}
  <2>1. Cardinality(approved) = 0
    BY <1>2, FS_EmptySet
  <2>2. pruned # {}
    BY <2>1 DEF Uncovered
  <2> QED
    BY <2>2 DEF TypeOK
<1> QED
  BY <1>1, <1>2

\* Every phase keeps what the reports say.
LEMMA StepReports == RInv /\ IInv /\ [Next]_vars =>
    GenerationReported' /\ EventsFollowPhases' /\ NothingDropped' /\ OracleLooksTwice'
<1> DEFINE Goal == GenerationReported /\ EventsFollowPhases /\ NothingDropped
                     /\ OracleLooksTwice
<1> SUFFICES ASSUME RInv, IInv, [Next]_vars PROVE Goal'
  OBVIOUS
<1> USE DEF RInv, GenerationReported, EventsFollowPhases, NothingDropped, OracleLooksTwice,
            SelectedTextWasJudged, PreGeneration, Audited, EarlyPhases, NoOutcome
<1>1. CASE Topology
  BY <1>1 DEF Topology, Fatal, End, GoTo, IInv, TypeOK
<1>2. CASE Multiply
  BY <1>2 DEF Multiply, Exit, End, GoTo, IInv, TypeOK
<1>3. CASE Diversity
  BY <1>3 DEF Diversity, Exit, End, GoTo, IInv, TypeOK
<1>4. ASSUME NEW e \in Explorer, ExplorerEnds(e) PROVE Goal'
  BY <1>4 DEF ExplorerEnds, IInv, TypeOK
<1>5. CASE GenerationJoined
  BY <1>5 DEF GenerationJoined, GoTo, FailedProposals, IInv, TypeOK
<1>6. CASE GenerationTimesOut
  BY <1>6 DEF GenerationTimesOut, GoTo, FailedProposals, IInv, TypeOK
<1>7. CASE Hallucination
  BY <1>7 DEF Hallucination, Exit, End, GoTo, FailedProposals, Proposed, IInv, TypeOK
<1>8. CASE Verify
  <2>1. PICK ok \in SUBSET Proposed, sc \in [Proposed -> Scores] :
          \E fp \in Fingerprints(ok), vi \in [Proposed \ ok -> SUBSET Constraint] :
             VerifyResult(ok, sc, fp, vi)
    BY <1>8 DEF Verify
  <2>2. \/ /\ phase' = "audit" /\ outcome' = outcome /\ events' = events
           /\ setting.fallback \/ Proposed = unaudited' \cup pruned'
        \/ /\ phase' = "done" /\ outcome' = Exit("ZeroSurvival")
    BY <2>1 DEF VerifyResult, GoTo, End, Failing
  <2>3. phase = "verify" /\ UNCHANGED <<setting, gen, approved, gate, judged>>
        /\ approved = {} /\ outcome = NoOutcome
    BY <1>8 DEF Verify, IInv
  <2> QED
    BY <2>2, <2>3 DEF Proposed, FailedProposals, Exit
<1>9. ASSUME NEW e \in Explorer, AuditOne(e) PROVE Goal'
  <2>1. phase = "audit" /\ e \in unaudited /\ unaudited' = unaudited \ {e}
        /\ outcome = NoOutcome
        /\ UNCHANGED <<setting, gen, score, passed, events, gate, judged>>
    BY <1>9 DEF AuditOne, Remaining, IInv
  <2>2. \/ phase' = "done" /\ outcome' = Fatal("Adapter")
        \/ phase' = phase /\ outcome' = outcome
             /\ approved' \cup pruned' = approved \cup pruned \cup {e}
    BY <1>9 DEF AuditOne, End
  <2> QED
    BY <2>1, <2>2 DEF Fatal, Proposed, FailedProposals
<1>10. CASE AuditEnds
  BY <1>10 DEF AuditEnds, GoTo, FailedProposals, Proposed, IInv, TypeOK
<1>11. CASE Oracle
  <2>1. phase = "oracle" /\ outcome = NoOutcome
        /\ UNCHANGED <<setting, gen, approved, pruned, unaudited, judged>>
    BY <1>11 DEF Oracle, IInv
  <2>2. \/ phase' = "synthesis" /\ outcome' = outcome
             /\ events' = [events EXCEPT !.pruned = pruned]
        \/ phase' = "done" /\ outcome' = Exit("OracleBlocked")
    BY <1>11 DEF Oracle, GoTo, End
  <2> QED
    BY <2>1, <2>2 DEF Exit, Proposed, FailedProposals, TypeOK
<1>12. CASE Synthesis
  <2>1. phase = "synthesis" /\ outcome = NoOutcome
        /\ UNCHANGED <<setting, gen, approved, pruned, unaudited, judged>>
    BY <1>12 DEF Synthesis, IInv
  <2>2. \/ phase' = "merge" /\ outcome' = outcome /\ events' = events
        \/ /\ phase' = "done" /\ outcome' = Resolved(Synthesized)
           /\ events' = [events EXCEPT !.verified = Proposed] /\ Proposed # {}
    BY <1>12, SynthesisHasProposals DEF Synthesis, GoTo, End
  <2> QED
    BY <2>1, <2>2, SynthesizedAssumption DEF Resolved, Proposed, FailedProposals, TypeOK
<1>13. CASE Merge
  <2>1. phase = "merge" /\ outcome = NoOutcome
        /\ UNCHANGED <<setting, gen, approved, pruned, unaudited, judged>>
        /\ events' = [events EXCEPT !.verified = Proposed]
    BY <1>13 DEF Merge, IInv
  <2>2. \/ phase' = "done" /\ outcome' = Exit("ZeroSurvival")
        \/ \E winner \in Valid : /\ outcome' = Resolved(winner)
                                 /\ phase' = AfterMerge
    BY <1>13 DEF Merge, End
  <2>3. Valid \subseteq Proposed
    BY DEF Valid, TypeOK
  <2>4. setting.oracle \in {"off", "no_nats", "armed"}
    BY SettingsAssumption DEF TypeOK, SettingFields
  <2> QED
    BY <2>1, <2>2, <2>3, <2>4 DEF AfterMerge, Exit, Resolved, Proposed, FailedProposals, TypeOK
<1>14. CASE PostSelection
  <2>1. phase = "post_selection" /\ phase' = "done"
        /\ UNCHANGED <<setting, gen, events, approved, pruned, unaudited>>
    BY <1>14 DEF PostSelection, End
  <2>2. \/ outcome' = outcome /\ (setting.oracle = "armed" => judged')
        \/ outcome' = Exit("OraclePostSelectionBlocked")
    BY <1>14 DEF PostSelection, End
  <2> QED
    BY <2>1, <2>2 DEF Exit, Proposed, FailedProposals
<1>15. CASE Done \/ UNCHANGED vars
  BY <1>15 DEF Done, vars, Proposed, FailedProposals
<1> QED
  BY <1>1, <1>2, <1>3, <1>4, <1>5, <1>6, <1>7, <1>8, <1>9, <1>10, <1>11, <1>12, <1>13,
     <1>14, <1>15 DEF Next

\* Both invariants hold in every state of a wave.
LEMMA Invariants == Spec => [](IInv /\ RInv)
<1>1. IInv /\ RInv /\ [Next]_vars => (IInv /\ RInv)'
  BY StepIInv, StepType, StepReports DEF RInv
<1> QED
  BY InitIInv, InitRInv, <1>1, PTL DEF Spec

\* A resolved wave without the fallback reports every explorer once, failed or
\* verified, and prunes exactly the verified ones it did not approve
\* (pipeline.rs, phases/generation.rs, verify.rs, audit.rs, merge.rs).
THEOREM EveryExplorerReported == Spec => []CompleteWaveReportsEveryExplorer
<1>1. IInv /\ RInv => CompleteWaveReportsEveryExplorer
  <2> SUFFICES ASSUME IInv, RInv, outcome.kind = "resolved", ~setting.fallback
               PROVE  /\ events.failed \cup events.verified
                           = Explorer \ {e \in Explorer : gen[e] = "lost"}
                      /\ events.failed \cap events.verified = {}
                      /\ events.pruned = events.verified \ approved
    BY DEF CompleteWaveReportsEveryExplorer
  <2>1. /\ \A e \in Explorer : gen[e] \in {"proposed", "failed", "lost"}
        /\ events.failed = FailedProposals /\ events.verified = Proposed
    BY DEF RInv, GenerationReported, EventsFollowPhases
  <2>2. events.pruned = pruned /\ Proposed = approved \cup pruned
    BY DEF RInv, EventsFollowPhases, NothingDropped
  <2>3. approved \cap pruned = {}
    BY DEF IInv, AuditSplit
  <2> QED
    BY <2>1, <2>2, <2>3 DEF FailedProposals, Proposed
<1> QED
  BY Invariants, <1>1, PTL

\* A proposal delivered under a reachable oracle was shown to it after it was
\* selected (phases/oracle.rs run_post_selection).
THEOREM SelectionJudged == Spec => []SelectedTextWasJudged
<1>1. RInv => SelectedTextWasJudged
  BY DEF RInv, OracleLooksTwice
<1> QED
  BY Invariants, <1>1, PTL

-----------------------------------------------------------------------------
(* WavePipeline implements WaveContract.  A step inside the wave maps to a  *)
(* stutter; a step that ends it, one of the ends below, to Contract!Finish. *)

\* The constraints named by the recorded pruned branches.
ReasonsOf(pr, vi) == {c \in Constraint : \E e \in pr : c \in vi[e]}

\* The result of a wave that has ended.
LEMMA EndedResult ==
  ASSUME phase' = "done"
  PROVE  Result' = [outcome |-> IF outcome'.kind = "early_exit" THEN outcome'.reason
                                ELSE outcome'.kind,
                    reasons |-> ReasonsOf(events'.pruned, violated'),
                    charged |-> events'.charged # {}]
  BY DEF Result, ReasonsOf

\* A wave that ends before its pruned branches are recorded names no constraint.
LEMMA UnrecordedEnd ==
  ASSUME phase' = "done", events'.pruned = {}, NEW o,
         \/ outcome' = Exit(o)
         \/ o = "fatal" /\ \E r : outcome' = Fatal(r)
  PROVE  Result' = [outcome |-> o, reasons |-> {}, charged |-> events'.charged # {}]
<1>1. ReasonsOf(events'.pruned, violated') = {}
  BY DEF ReasonsOf
<1> QED
  BY <1>1, EndedResult DEF Exit, Fatal

\* A wave that ends with its pruned branches recorded names constraints of the
\* corpus.
LEMMA RecordedEnd ==
  ASSUME phase' = "done", NEW o, events'.charged # {},
         \/ outcome' = Exit(o)
         \/ o = "resolved" /\ outcome'.kind = "resolved"
  PROVE  \E rs \in SUBSET Constraint :
            Result' = [outcome |-> o, reasons |-> rs, charged |-> TRUE]
<1>1. ReasonsOf(events'.pruned, violated') \in SUBSET Constraint
  BY DEF ReasonsOf
<1>2. (IF outcome'.kind = "early_exit" THEN outcome'.reason ELSE outcome'.kind) = o
  BY DEF Exit
<1>3. (events'.charged # {}) = TRUE
  OBVIOUS
<1>4. Result' = [outcome |-> o, reasons |-> ReasonsOf(events'.pruned, violated'),
                 charged |-> TRUE]
  BY <1>2, <1>3, EndedResult
<1> QED
  BY <1>1, <1>4

\* A phase that does not end the wave leaves its result pending.
LEMMA InsideWave ==
  ASSUME phase # "done", phase' # "done"
  PROVE  UNCHANGED Result
  BY DEF Result

\* The initial states of the wave map to initial states of the contract.
LEMMA InitContract == Init => Contract!Init
<1> SUFFICES ASSUME Init PROVE Contract!Init
  OBVIOUS
<1>1. setting.retry \in Nat /\ setting.maxRetries \in Nat
  BY SettingsAssumption DEF Init, SettingFields
<1>2. (setting.retry < setting.maxRetries) \in BOOLEAN
  BY <1>1
<1>3. Result = Contract!Pending
  BY DEF Init, Result, Contract!Pending
<1> QED
  BY <1>2, <1>3 DEF Contract!Init

\* The step that ends a wave gives one of the results the contract allows.
LEMMA EndContract ==
  ASSUME IInv, RInv, Next, phase # "done", phase' = "done"
  PROVE  Result' \in Contract!WaveResults(setting.retry < setting.maxRetries)
<1> DEFINE Left == setting.retry < setting.maxRetries
<1> USE DEF Contract!WaveResults, Contract!PreGenerationExits, Contract!UnrecordedExits,
            Contract!RecordedEnds
<1>1. /\ phase \in PreGeneration \cup {"generation", "hallucination"} => events.charged = {}
      /\ phase \in EarlyPhases \cup {"audit", "oracle"} => events.pruned = {}
      /\ phase \in {"verify", "audit", "oracle", "synthesis", "merge", "post_selection"}
           => events.charged = Proposed
      /\ phase \in {"synthesis", "merge", "post_selection"} => events.pruned = pruned
      /\ phase = "post_selection" => outcome.kind = "resolved" /\ Proposed # {}
      /\ pruned \subseteq Proposed
      /\ events \in [failed : SUBSET Explorer, verified : SUBSET Explorer,
                     pruned : SUBSET Explorer, charged : SUBSET Explorer]
  BY DEF RInv, EventsFollowPhases, Audited, IInv, TypeOK
<1>2. CASE Topology
  <2>1. outcome' = Fatal("InsufficientQuorum") /\ events' = events /\ phase = "topology"
    BY <1>2 DEF Topology, End, GoTo
  <2>2. Result' = [outcome |-> "fatal", reasons |-> {}, charged |-> events'.charged # {}]
    BY <1>1, <2>1, UnrecordedEnd DEF EarlyPhases
  <2> QED
    BY <2>2
<1>3. CASE Multiply
  <2>1. outcome' = Exit("MultiplicationFailed") /\ events' = events /\ phase = "multiply"
    BY <1>3 DEF Multiply, End, GoTo
  <2>2. Result' = [outcome |-> "MultiplicationFailed", reasons |-> {},
                   charged |-> events'.charged # {}]
    BY <1>1, <2>1, UnrecordedEnd DEF EarlyPhases
  <2> QED
    BY <1>1, <2>1, <2>2 DEF PreGeneration
<1>4. CASE Diversity
  <2>1. outcome' = Exit("DiversityFailed") /\ events' = events /\ phase = "diversity"
    BY <1>4 DEF Diversity, End, GoTo
  <2>2. Result' = [outcome |-> "DiversityFailed", reasons |-> {},
                   charged |-> events'.charged # {}]
    BY <1>1, <2>1, UnrecordedEnd DEF EarlyPhases
  <2> QED
    BY <1>1, <2>1, <2>2 DEF PreGeneration
<1>5. CASE Hallucination
  <2>1. /\ outcome' = Exit("HallucinationDetected") /\ events' = events
        /\ phase = "hallucination" /\ Left
    BY <1>5 DEF Hallucination, MayCluster, End, GoTo
  <2>2. Result' = [outcome |-> "HallucinationDetected", reasons |-> {},
                   charged |-> events'.charged # {}]
    BY <1>1, <2>1, UnrecordedEnd DEF EarlyPhases
  <2> QED
    BY <1>1, <2>1, <2>2 DEF PreGeneration
<1>6. CASE Verify
  <2>1. PICK ok \in SUBSET Proposed, sc \in [Proposed -> Scores] :
          \E fp \in Fingerprints(ok), vi \in [Proposed \ ok -> SUBSET Constraint] :
             VerifyResult(ok, sc, fp, vi)
    BY <1>6 DEF Verify
  <2>2. Cardinality(ok) >= 2 /\ outcome' = Exit("ZeroSurvival")
        /\ events' = [events EXCEPT !.verified = Proposed]
    BY <2>1 DEF VerifyResult, Collapsed, GoTo, End
  <2>3. Proposed # {}
    BY <2>2, FS_EmptySet
  <2>4. phase = "verify"
    BY <1>6 DEF Verify
  <2>5. events'.pruned = {} /\ events'.charged # {}
    BY <1>1, <2>2, <2>3, <2>4 DEF EarlyPhases
  <2>6. \E rs \in SUBSET Constraint :
           Result' = [outcome |-> "ZeroSurvival", reasons |-> rs, charged |-> TRUE]
    BY <2>2, <2>5, RecordedEnd
  <2> QED
    BY <2>6
<1>7. ASSUME NEW e \in Explorer, AuditOne(e) PROVE Result' \in Contract!WaveResults(Left)
  <2>1. outcome' = Fatal("Adapter") /\ events' = events /\ phase = "audit"
    BY <1>7 DEF AuditOne, End
  <2>2. Result' = [outcome |-> "fatal", reasons |-> {}, charged |-> events'.charged # {}]
    BY <1>1, <2>1, UnrecordedEnd
  <2> QED
    BY <2>2
<1>8. CASE Oracle
  <2>1. outcome' = Exit("OracleBlocked") /\ events' = events /\ phase = "oracle"
    BY <1>8 DEF Oracle, End, GoTo
  <2>2. Result' = [outcome |-> "OracleBlocked", reasons |-> {},
                   charged |-> events'.charged # {}]
    BY <1>1, <2>1, UnrecordedEnd
  <2> QED
    BY <2>2
<1>9. CASE Synthesis
  <2>1. PICK hard \in SUBSET Constraint : Uncovered(hard) # {} \/ Cardinality(approved) >= 2
    BY <1>9 DEF Synthesis, GoTo
  <2>2. Proposed # {}
    BY <2>1, SynthesisHasProposals DEF RInv
  <2>3. outcome'.kind = "resolved" /\ events' = [events EXCEPT !.verified = Proposed]
        /\ phase = "synthesis"
    BY <1>9 DEF Synthesis, GoTo, End, Resolved
  <2>4. events'.charged # {}
    BY <1>1, <2>2, <2>3
  <2>5. \E rs \in SUBSET Constraint :
           Result' = [outcome |-> "resolved", reasons |-> rs, charged |-> TRUE]
    BY <2>3, <2>4, RecordedEnd
  <2> QED
    BY <2>5
<1>10. CASE Merge
  <2>1. events' = [events EXCEPT !.verified = Proposed] /\ phase = "merge"
    BY <1>10 DEF Merge
  <2>2. events'.charged = Proposed /\ events'.pruned = pruned
    BY <1>1, <2>1
  <2>3. CASE Proposed = {}
    <3>1. Valid = {}
      BY <2>3 DEF Valid, RInv, TypeOK
    <3>2. outcome' = Exit("ZeroSurvival")
      BY <1>10, <3>1 DEF Merge, End
    <3>3. Result' = [outcome |-> "ZeroSurvival", reasons |-> {},
                     charged |-> events'.charged # {}]
      BY <1>1, <2>2, <2>3, <3>2, UnrecordedEnd
    <3> QED
      BY <2>2, <2>3, <3>3
  <2>4. CASE Proposed # {}
    <3>1. PICK o \in {"ZeroSurvival", "resolved"} :
             outcome' = Exit(o) \/ (o = "resolved" /\ outcome'.kind = "resolved")
      BY <1>10 DEF Merge, End, Resolved
    <3>2. \E rs \in SUBSET Constraint :
             Result' = [outcome |-> o, reasons |-> rs, charged |-> TRUE]
      BY <2>2, <2>4, <3>1, RecordedEnd
    <3> QED
      BY <3>2
  <2> QED
    BY <2>3, <2>4
<1>11. CASE PostSelection
  <2>1. events' = events /\ phase = "post_selection"
    BY <1>11 DEF PostSelection
  <2>2. PICK o \in {"OraclePostSelectionBlocked", "resolved"} :
           outcome' = Exit(o) \/ (o = "resolved" /\ outcome'.kind = "resolved")
    BY <1>1, <1>11 DEF PostSelection, End
  <2>3. \E rs \in SUBSET Constraint :
           Result' = [outcome |-> o, reasons |-> rs, charged |-> TRUE]
    BY <1>1, <2>1, <2>2, RecordedEnd
  <2> QED
    BY <2>3
<1>12. \/ Topology \/ Multiply \/ Diversity \/ Hallucination \/ Verify
       \/ (\E e \in Explorer : AuditOne(e)) \/ Oracle \/ Synthesis \/ Merge \/ PostSelection
  BY DEF Next, ExplorerEnds, GenerationJoined, GenerationTimesOut, AuditEnds, Done, GoTo
<1> QED
  BY <1>2, <1>3, <1>4, <1>5, <1>6, <1>7, <1>8, <1>9, <1>10, <1>11, <1>12

\* Every step of the wave maps to a step of the contract or to a stutter.
LEMMA StepContract == IInv /\ RInv /\ [Next]_vars => [Contract!Finish]_(Contract!contractVars)
<1> SUFFICES ASSUME IInv, RInv, [Next]_vars
             PROVE  Contract!Finish \/ UNCHANGED Contract!contractVars
  OBVIOUS
<1>1. CASE UNCHANGED vars
  BY <1>1 DEF vars, Contract!contractVars, Result
<1>2. CASE Next /\ phase = "done"
  <2>1. UNCHANGED vars
    BY <1>2 DEF Next, Topology, Multiply, Diversity, ExplorerEnds, GenerationJoined,
       GenerationTimesOut, Hallucination, Verify, AuditOne, AuditEnds, Oracle, Synthesis,
       Merge, PostSelection, Done
  <2> QED
    BY <2>1, <1>1
<1>3. ASSUME Next, phase # "done"
      PROVE  Contract!Finish \/ UNCHANGED Contract!contractVars
  <2>1. setting' = setting
    BY <1>3 DEF Next, Topology, Multiply, Diversity, ExplorerEnds, GenerationJoined,
       GenerationTimesOut, Hallucination, Verify, AuditOne, AuditEnds, Oracle, Synthesis,
       Merge, PostSelection, Done
  <2>2. CASE phase' = "done"
    BY <1>3, <2>1, <2>2, EndContract DEF Contract!Finish, Contract!Pending, Result
  <2>3. CASE phase' # "done"
    BY <1>3, <2>1, <2>3, InsideWave DEF Contract!contractVars
  <2> QED
    BY <2>2, <2>3
<1> QED
  BY <1>1, <1>2, <1>3

\* The phases together implement the contract the MAPE-K loop relies on: however
\* a wave ends, it carries only the pruned branches and the token charge that
\* end may carry (pipeline.rs Pipeline::run, mape_k.rs).
THEOREM WaveImplementsContract == Spec => ImplementsContract
  BY Invariants, InitContract, StepContract, PTL
  DEF ImplementsContract, Spec, Contract!Spec
=============================================================================
