---------------------------- MODULE WaveContract ----------------------------
(***************************************************************************)
(* What the MAPE-K loop may assume of one wave: the abstract specification *)
(* of Pipeline::run (h2ai-orchestrator/src/pipeline.rs), reduced to what   *)
(* MapeKController and run_offline read of a PipelineWaveResult.           *)
(*                                                                         *)
(*   outcome  how the wave ended: "resolved", "fatal" or an ExitReason     *)
(*   reasons  constraints named by the wave's BranchPruned events          *)
(*   charged  whether events.wave_token_cost counts any proposal           *)
(*                                                                         *)
(* WavePipeline implements this specification and MapeK uses it.           *)
(***************************************************************************)
EXTENDS Naturals

CONSTANT Constraint

VARIABLES
    retryLeft,  \* retry_count < max_autonomic_retries
    result      \* the PipelineWaveResult, Pending while the wave runs

contractVars == <<retryLeft, result>>

Pending == [outcome |-> "pending", reasons |-> {}, charged |-> FALSE]

\* Exits before generation: nothing was spent, nothing pruned.
PreGenerationExits == {"MultiplicationFailed", "DiversityFailed"}
\* Exits that leave the wave before its pruned branches are recorded.
UnrecordedExits == {"fatal", "OracleBlocked"}
RecordedEnds == {"ZeroSurvival", "OraclePostSelectionBlocked", "resolved"}

WaveResults(left) ==
    [outcome : PreGenerationExits, reasons : {{}}, charged : {FALSE}]
    \cup [outcome : IF left THEN {"HallucinationDetected"} ELSE {}, reasons : {{}},
          charged : {FALSE}]
    \cup [outcome : UnrecordedExits, reasons : {{}}, charged : BOOLEAN]
    \cup [outcome : {"ZeroSurvival"}, reasons : {{}}, charged : {FALSE}]
    \cup [outcome : RecordedEnds, reasons : SUBSET Constraint, charged : {TRUE}]

Init == retryLeft \in BOOLEAN /\ result = Pending

Finish ==
    /\ result = Pending
    /\ result' \in WaveResults(retryLeft)
    /\ UNCHANGED retryLeft

Spec == Init /\ [][Finish]_contractVars
=============================================================================
