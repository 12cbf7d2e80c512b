---------------------------- MODULE MapeK_proofs ----------------------------
(***************************************************************************)
(* For every corpus, retry limit and configuration, and however often the  *)
(* spec is repaired: the waves of a task are bounded by its restarts on    *)
(* both sides, a rejected task is never delivered, and a delivered task    *)
(* has released its signal consumer.                                       *)
(***************************************************************************)
EXTENDS MapeK, TLAPS

PassLength == MaxRetries + 1

\* Waves of the current pass that left pruned constraints behind.
Remembered == (IF ctl.last # {} THEN 1 ELSE 0) + (IF ctl.prev # {} THEN 1 ELSE 0)

Controller ==
    [tokens : Nat, exhausted : BOOLEAN, overdue : BOOLEAN, prev : SUBSET Constraint,
     last : SUBSET Constraint, scored : Nat, partials : BOOLEAN]

\* The wave counter against the loop counters, at every step of the loop.
Accounting ==
    /\ ctl \in Controller
    /\ retry \in 0..MaxRetries /\ restarts \in Nat /\ waves \in Nat
    /\ waves <= restarts * PassLength + retry
                  + (IF pc \in {"prepare", "loop"} THEN 0 ELSE 1)
    /\ 2 * restarts + Remembered <= waves
    /\ pc = "repair" => ctl.last # {} /\ ctl.prev # {}

\* A verdict is given once, on the way to the end.
Verdict ==
    /\ pc \notin {"returned", "reported"} => result = "none"
    /\ verdict = "rejected" =>
         pc \in {"returned", "reported"} /\ result = "rejected" /\ status = "failed"

\* The consumer is released before anything is delivered.
Released ==
    /\ sub => cfg.nats
    /\ pc = "synthesis" /\ sub => consumer # "live"
    /\ result = "ok" => pc \in {"returned", "reported"}
    /\ result = "ok" /\ sub => consumer # "live"

IInv == Accounting /\ Verdict /\ Released

-----------------------------------------------------------------------------
\* A task starts without waves, verdict or consumer.
LEMMA InitIInv == Init => IInv
  BY BoundsAssumption DEF Init, IInv, Accounting, Verdict, Released, Remembered, PassLength,
     Controller, FreshController

\* Whatever a wave returns, its pruned branches name constraints of the corpus.
LEMMA WaveResultType ==
    ASSUME NEW left \in BOOLEAN, NEW w \in Wave!WaveResults(left)
    PROVE  w.reasons \in SUBSET Constraint /\ w.charged \in BOOLEAN
  BY DEF Wave!WaveResults, Wave!PreGenerationExits, Wave!UnrecordedExits, Wave!RecordedEnds

\* The loop and the restart loop keep the counters in step.
LEMMA StepAccounting == Accounting /\ [Next]_vars => Accounting'
<1> SUFFICES ASSUME Accounting, [Next]_vars PROVE Accounting'
  OBVIOUS
<1> USE BoundsAssumption
<1>0. PassLength \in Nat /\ restarts * PassLength \in Nat /\ Remembered \in 0..2
  BY DEF Accounting, PassLength, Remembered
<1>1. CASE Prepare
  BY <1>0, <1>1 DEF Prepare, Accounting, Remembered, Return, WriteFails
<1>2. CASE DeadlinePasses
  BY <1>0, <1>2 DEF DeadlinePasses, Accounting, Remembered, Controller
<1>3. CASE RunWave
  <2>1. wave' \in Wave!WaveResults(retry < MaxRetries)
    BY <1>3 DEF RunWave
  <2>2. wave'.reasons \in SUBSET Constraint /\ wave'.charged \in BOOLEAN
    BY <2>1, WaveResultType, (retry < MaxRetries) \in BOOLEAN
  <2>3. PICK oom \in BOOLEAN :
          ctl' = [ctl EXCEPT
             !.prev = Rotated(wave').prev, !.last = Rotated(wave').last,
             !.exhausted = @ \/ oom,
             !.tokens = IF wave'.charged THEN @ + 1 ELSE @,
             !.scored = IF wave'.charged THEN @ + 1 ELSE @,
             !.partials = @ \/ (wave'.charged /\ wave'.outcome \in Wave!RecordedEnds)]
    BY <1>3 DEF RunWave
  <2>4. ctl' \in Controller
    <3>1. ctl \in Controller
      BY DEF Accounting
    <3>2. /\ (IF wave'.charged THEN ctl.tokens + 1 ELSE ctl.tokens) \in Nat
          /\ (IF wave'.charged THEN ctl.scored + 1 ELSE ctl.scored) \in Nat
      BY <3>1 DEF Controller
    <3>3. /\ (ctl.exhausted \/ oom) \in BOOLEAN
          /\ (ctl.partials \/ (wave'.charged /\ wave'.outcome \in Wave!RecordedEnds))
               \in BOOLEAN
      OBVIOUS
    <3>4. Rotated(wave').prev \in SUBSET Constraint
          /\ Rotated(wave').last \in SUBSET Constraint
      BY <2>2, <3>1 DEF Rotated, Controller
    <3>. HIDE DEF Rotated
    <3> QED
      BY <2>3, <3>1, <3>2, <3>3, <3>4 DEF Controller
  <2>5. ctl'.prev = ctl.last
    BY <2>3 DEF Accounting, Controller, Rotated
  <2>6. Remembered' <= Remembered + 1
    BY <2>5 DEF Remembered
  <2>7. Remembered' \in 0..2
    BY DEF Remembered
  <2>8. /\ pc = "loop" /\ pc' = "boundary" /\ waves' = waves + 1
        /\ retry' = retry /\ restarts' = restarts
    BY <1>3 DEF RunWave
  <2> QED
    <3>1. waves' <= restarts' * PassLength + retry' + 1
      BY <1>0, <2>8 DEF Accounting
    <3>2. 2 * restarts' + Remembered' <= waves'
      <4>1. 2 * restarts + Remembered <= waves /\ restarts \in Nat /\ waves \in Nat
        BY DEF Accounting
      <4>2. Remembered \in 0..2
        BY <1>0
      <4>3. ASSUME NEW m \in 0..2, NEW n \in 0..2, n <= m + 1,
                   2 * restarts + m <= waves
            PROVE  2 * restarts + n <= waves + 1
        BY <4>1, <4>3
      <4>4. 2 * restarts + Remembered' <= waves + 1
        BY <2>6, <2>7, <4>1, <4>2, <4>3
      <4> QED
        BY <2>8, <4>4
    <3> QED
      <4>1. PassLength' = PassLength
        BY DEF PassLength
      <4>2. retry' \in 0..MaxRetries /\ restarts' \in Nat /\ waves' \in Nat
        BY <2>8 DEF Accounting
      <4>3. pc' # "repair" /\ pc' \notin {"prepare", "loop"}
        BY <2>8
      <4> QED
        BY <2>4, <3>1, <3>2, <4>1, <4>2, <4>3 DEF Accounting
<1>4. CASE Decide
  <2>1. PICK d \in Decisions :
          /\ ctl' = [ctl EXCEPT !.exhausted =
                       IF wave.outcome = "resolved" /\ d # "ambiguous" THEN BudgetExhausted
                       ELSE @]
          /\ retry' = IF d = "retry" THEN NextRetry ELSE retry
          /\ d = "retry" => pc' = AfterRetry
          /\ d # "retry" => pc' \in {"gate", "resolve", "fail", "overflow", "exhaust",
                                    "repair"}
          /\ pc' = "repair" => d = "ambiguous"
    BY <1>4 DEF Decide, AfterRetry
  <2>2. pc = "decide" /\ waves' = waves /\ restarts' = restarts
    BY <1>4 DEF Decide
  <2>3. ctl' \in Controller /\ ctl'.last = ctl.last /\ ctl'.prev = ctl.prev
    BY <2>1, BudgetExhausted \in BOOLEAN DEF Accounting, Controller, BudgetExhausted
  <2>4. Remembered' = Remembered
    BY <2>3 DEF Remembered
  <2>5. d = "ambiguous" => ctl.last # {} /\ ctl.prev # {}
    BY DEF Decisions, Unstable, ResolvedDecisions, ExitDecisions, ZeroSurvivalDecisions
  <2>6. CASE d = "retry"
    BY <1>0, <2>1, <2>2, <2>3, <2>4, <2>6 DEF Accounting, PassLength, NextRetry, AfterRetry
  <2>7. CASE d # "retry"
    BY <1>0, <2>1, <2>2, <2>3, <2>4, <2>5, <2>7 DEF Accounting, PassLength
  <2> QED
    BY <2>6, <2>7
<1>5. CASE Repair
  <2>1. CASE restarts' = restarts + 1
    <3>1. /\ retry' = 0 /\ ctl' = FreshController /\ pc' = "loop"
          /\ waves' = waves /\ pc = "repair"
      BY <1>5, <2>1 DEF Repair, Return, Accounting
    <3>2. Remembered = 2
      BY <3>1 DEF Accounting, Remembered
    <3>3. Remembered' = 0 /\ ctl' \in Controller
      BY <3>1 DEF Remembered, FreshController, Controller
    <3>4. waves <= restarts * PassLength + PassLength
      BY <1>0, <3>1 DEF Accounting, PassLength
    <3>5. (restarts + 1) * PassLength = restarts * PassLength + PassLength
      BY <1>0 DEF Accounting
    <3> QED
      BY <1>0, <2>1, <3>1, <3>2, <3>3, <3>4, <3>5 DEF Accounting, PassLength
  <2>2. CASE restarts' # restarts + 1
    <3>1. /\ restarts' = restarts /\ retry' = retry /\ ctl' = ctl /\ waves' = waves
          /\ pc' \in {"returned", "exhaust"} /\ pc = "repair"
      BY <1>5, <2>2 DEF Repair, Return
    <3> QED
      BY <1>0, <3>1 DEF Accounting, Remembered, PassLength
  <2> QED
    BY <2>1, <2>2
<1>6. CASE /\ UNCHANGED <<retry, restarts, ctl, waves>>
           /\ pc \notin {"prepare", "loop"} \/ pc' = pc
           /\ pc' \notin {"prepare", "loop", "repair"} \/ pc' = pc
  BY <1>0, <1>6 DEF Accounting, Remembered, PassLength
<1>7. CASE DeadlineStops
  BY <1>0, <1>7 DEF DeadlineStops, Return, Accounting, Remembered, PassLength
<1>8. CASE Boundary \/ OpenGate \/ CloseGate \/ Resolve \/ Fail \/ Overflow
  BY <1>6, <1>8 DEF Boundary, AfterWindow, OpenGate, CloseGate, Resolve, Fail,
     Overflow, Return,
     WriteFails
<1>9. CASE Exhaust \/ SynthesisWave \/ Report \/ UNCHANGED vars
  BY <1>6, <1>9 DEF Exhaust, SynthesisWave, Report, Return, vars
<1> QED
  BY <1>1, <1>2, <1>3, <1>4, <1>5, <1>7, <1>8, <1>9 DEF Next, OwnStep, ModelStep, Done

\* No step delivers a task after its rejection.
LEMMA StepVerdict == Verdict /\ [Next]_vars => Verdict'
<1> SUFFICES ASSUME Verdict, [Next]_vars PROVE Verdict'
  OBVIOUS
<1>1. CASE Prepare \/ DeadlinePasses \/ DeadlineStops \/ RunWave
  BY <1>1 DEF Prepare, DeadlinePasses, DeadlineStops, RunWave, Return, WriteFails, Verdict
<1>2. CASE Boundary \/ Decide \/ OpenGate
  BY <1>2 DEF Boundary, AfterWindow, Decide, OpenGate, Return, WriteFails, Verdict,
     AfterRetry
<1>3. CASE CloseGate
  BY <1>3 DEF CloseGate, Return, Verdict, Approves
<1>4. CASE Resolve \/ Fail \/ Overflow \/ Repair \/ Exhaust \/ SynthesisWave
  BY <1>4 DEF Resolve, Fail, Overflow, Repair, Exhaust, SynthesisWave, Return,
     WriteFails, Verdict
<1>5. CASE Report \/ UNCHANGED vars
  BY <1>5 DEF Report, FinalStatus, Verdict, vars
<1> QED
  BY <1>1, <1>2, <1>3, <1>4, <1>5 DEF Next, OwnStep, ModelStep, Done

\* The clean-up precedes every delivery.
LEMMA StepReleased == Verdict /\ Released /\ [Next]_vars => Released'
<1> SUFFICES ASSUME Verdict, Released, [Next]_vars PROVE Released'
  OBVIOUS
<1>1. CASE Prepare
  BY <1>1 DEF Prepare, Subscribe, Return, WriteFails, Verdict, Released
<1>2. CASE DeadlinePasses \/ DeadlineStops
  BY <1>2 DEF DeadlinePasses, DeadlineStops, Return, Verdict, Released
<1>12. CASE RunWave
  <2>1. /\ pc = "loop" /\ pc' = "boundary"
        /\ UNCHANGED <<cfg, consumer, sub, result>>
    BY <1>12 DEF RunWave
  <2> QED
    BY <2>1 DEF Verdict, Released
<1>3. CASE Boundary
  BY <1>3 DEF Boundary, AfterWindow, Subscribe, Return, WriteFails, Verdict, Released
<1>4. CASE Decide
  BY <1>4 DEF Decide, AfterRetry, Verdict, Released
<1>5. CASE OpenGate
  BY <1>5 DEF OpenGate, Subscribe, Verdict, Released
<1>6. CASE CloseGate
  BY <1>6 DEF CloseGate, Return, Verdict, Released
<1>7. CASE Resolve
  BY <1>7 DEF Resolve, ResolveCleanUp, CleanUp, Return, WriteFails, Verdict, Released
<1>8. CASE Fail \/ Overflow \/ Repair
  BY <1>8 DEF Fail, Overflow, Repair, Return, Verdict, Released
<1>9. CASE Exhaust
  BY <1>9 DEF Exhaust, CleanUp, Verdict, Released
<1>10. CASE SynthesisWave
  BY <1>10 DEF SynthesisWave, Return, Verdict, Released
<1>11. CASE Report \/ UNCHANGED vars
  BY <1>11 DEF Report, Verdict, Released, vars
<1> QED
  BY <1>1, <1>2, <1>3, <1>4, <1>5, <1>6, <1>7, <1>8, <1>9, <1>10, <1>11, <1>12
     DEF Next, OwnStep, ModelStep, Done

LEMMA IInvHolds == Spec => []IInv
<1>1. IInv /\ [Next]_vars => IInv'
  BY StepAccounting, StepVerdict, StepReleased DEF IInv
<1> QED
  BY InitIInv, <1>1, PTL DEF Spec

\* Every pass of the restart loop runs between two and MaxRetries + 1 waves
\* (engine.rs 'wave and 'restart loops, mape_k.rs find_instability).
THEOREM WavesAccounted == Spec => []WaveAccounting
<1>1. IInv => WaveAccounting
  <2> SUFFICES ASSUME IInv PROVE WaveAccounting
    OBVIOUS
  <2>1. PassLength \in Nat /\ restarts * PassLength \in Nat /\ Remembered \in 0..2
    BY BoundsAssumption DEF IInv, Accounting, PassLength, Remembered
  <2>2. (restarts + 1) * PassLength = restarts * PassLength + PassLength
    BY <2>1 DEF IInv, Accounting
  <2> QED
    BY <2>1, <2>2, BoundsAssumption DEF IInv, Accounting, WaveAccounting, PassLength
<1> QED
  BY IInvHolds, <1>1, PTL

\* A reviewer's rejection ends the task as failed (engine.rs HITL gate).
THEOREM RejectionFinal == Spec => []RejectionIsFinal
<1>1. IInv => RejectionIsFinal
  BY DEF IInv, Verdict, RejectionIsFinal
<1> QED
  BY IInvHolds, <1>1, PTL

\* Delivery comes after the deletion of the signal consumer (engine.rs resolve
\* and exhaustion paths).
THEOREM ConsumerReleased == Spec => []DeliveredReleasesConsumer
<1>1. IInv => DeliveredReleasesConsumer
  BY DEF IInv, Released, DeliveredReleasesConsumer
<1> QED
  BY IInvHolds, <1>1, PTL
=============================================================================
