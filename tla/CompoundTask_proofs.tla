------------------------ MODULE CompoundTask_proofs ------------------------
(***************************************************************************)
(* Proofs about CompoundTask: whatever plan the planning model returns,     *)
(* topo_waves emits independent waves, execute starts a subtask only with   *)
(* the output of every one of its dependencies and none after a failure,    *)
(* and a plan the reviewer's depth-first search found acyclic is scheduled. *)
(***************************************************************************)
EXTENDS CompoundTask, TLAPS, FiniteSetTheorems, WellFoundedInduction,
        SequenceTheorems

\* What every step keeps about the plan and the waves.
PlanShape ==
    /\ Subtasks \subseteq Nat
    /\ \A i \in Subtasks : plan[i] \in Seq(Subtasks)
    /\ ready \subseteq Subtasks
    /\ waves \in Seq(SUBSET Subtasks)
    /\ WavesAreIndependent

\* While Kahn's loop runs, in_degree counts the entries not yet covered by a
\* wave, and nothing has been executed.
KahnCounts ==
    pc = "topo" =>
        /\ inDegree \in [Subtasks -> Nat]
        /\ \A i \in Subtasks :
             inDegree[i] = Cardinality({j \in DOMAIN plan[i] : plan[i][j] \notin WavesRange})
        /\ \A i \in ready : inDegree[i] = 0 /\ i \notin WavesRange
        /\ \A i \in WavesRange : inDegree[i] = 0

\* Before Kahn's loop there is no wave, before execution no outcome.
Untouched ==
    /\ pc \in {"decompose", "review", "dfs", "approved"} => waves = << >> /\ ready = {}
    /\ pc \in {"decompose", "review", "dfs", "approved", "topo"} =>
           outcome = << >> /\ current = 0 /\ completed = {}
    /\ pc = "decompose" => plan = << >>

\* During execution, completed holds exactly the waves before the running one.
ExecShape ==
    /\ pc \in {"next_wave", "joining"} =>
        /\ DOMAIN outcome = Subtasks /\ DOMAIN injected = Subtasks
        /\ current \in 0..Len(waves)
    /\ pc = "next_wave" =>
        \A d : d \in completed <=> \E k \in 1..current : d \in waves[k]
    /\ pc = "joining" =>
        /\ current \in 1..Len(waves)
        /\ \A d : d \in completed <=> \E k \in 1..(current - 1) : d \in waves[k]

IInv == PlanShape /\ KahnCounts /\ Untouched /\ ExecShape
            /\ StartsWithEveryDependency

LEMMA InitIInv == Init => IInv
  BY DEF Init, IInv, PlanShape, KahnCounts, Untouched, ExecShape, Subtasks,
         WavesAreIndependent, StartsWithEveryDependency, Started, WavesRange

\* Positions of a depends_on list form a finite set.
LEMMA PositionsFinite ==
  ASSUME NEW s, NEW S, s \in Seq(S), NEW T, T \subseteq DOMAIN s
  PROVE  IsFiniteSet(T) /\ Cardinality(T) \in Nat
  <1>1. DOMAIN s = 1..Len(s) /\ Len(s) \in Nat
    OBVIOUS
  <1>2. IsFiniteSet(1..Len(s))
    BY <1>1, FS_Interval
  <1>. QED  BY <1>1, <1>2, FS_Subset, FS_CardinalityType

\* A subtask whose uncovered count is zero has every dependency in some wave.
LEMMA ZeroCountCovered ==
  ASSUME PlanShape, NEW i \in Subtasks,
         Cardinality({j \in DOMAIN plan[i] : plan[i][j] \notin WavesRange}) = 0
  PROVE  RangeOf(plan[i]) \subseteq WavesRange
  <1>. DEFINE T == {j \in DOMAIN plan[i] : plan[i][j] \notin WavesRange}
  <1>1. IsFiniteSet(T)
    BY PositionsFinite DEF PlanShape
  <1>2. T = {}
    BY <1>1, FS_EmptySet
  <1>. QED  BY <1>2 DEF RangeOf

\* Emitting the wave `ready` lowers the uncovered count of every subtask by the
\* number of its edges from that wave.
LEMMA CountAfterWave ==
  ASSUME PlanShape, NEW i \in Subtasks, ready \cap WavesRange = {}
  PROVE  Cardinality({j \in DOMAIN plan[i] : plan[i][j] \notin WavesRange \cup ready})
           = Cardinality({j \in DOMAIN plan[i] : plan[i][j] \notin WavesRange})
               - EdgesInto(i, ready)
  <1>. DEFINE A == {j \in DOMAIN plan[i] : plan[i][j] \notin WavesRange}
              B == {j \in DOMAIN plan[i] : plan[i][j] \in ready}
              D == {j \in DOMAIN plan[i] : plan[i][j] \notin WavesRange \cup ready}
  <1>1. IsFiniteSet(A) /\ IsFiniteSet(B)
    BY PositionsFinite DEF PlanShape
  <1>2. B \subseteq A /\ D = A \ B
    OBVIOUS
  <1>3. Cardinality(A \ B) = Cardinality(A) - Cardinality(A \cap B)
    BY <1>1, FS_Difference
  <1>4. A \cap B = B
    BY <1>2
  <1>. QED  BY <1>2, <1>3, <1>4 DEF EdgesInto

LEMMA WavesRangeAppend ==
  ASSUME PlanShape, waves' = Append(waves, ready)
  PROVE  WavesRange' = WavesRange \cup ready
  <1>1. /\ DOMAIN waves' = 1..(Len(waves) + 1) /\ waves'[Len(waves) + 1] = ready
        /\ \A k \in 1..Len(waves) : waves'[k] = waves[k]
        /\ DOMAIN waves = 1..Len(waves) /\ Len(waves) \in Nat
    BY DEF PlanShape
  <1>. QED  BY <1>1 DEF WavesRange

LEMMA TopoWaveIInv == IInv /\ TopoWave => IInv'
  <1>. SUFFICES ASSUME IInv, TopoWave PROVE IInv'
    OBVIOUS
  <1>. USE DEF IInv
  <1>0. pc = "topo" /\ pc' = "topo" /\ UNCHANGED <<plan, outcome, injected, current, completed>>
    BY DEF TopoWave, execVars
  <1>1. ready \cap WavesRange = {} /\ inDegree \in [Subtasks -> Nat] /\ ready \subseteq Subtasks
    BY <1>0 DEF KahnCounts, PlanShape
  <1>2. waves' = Append(waves, ready)
    BY DEF TopoWave
  <1>3. WavesRange' = WavesRange \cup ready
    BY <1>2, WavesRangeAppend
  <1>4. \A i \in Subtasks :
          inDegree'[i] = Cardinality({j \in DOMAIN plan[i] : plan[i][j] \notin WavesRange'})
    <2>. SUFFICES ASSUME NEW i \in Subtasks
                  PROVE inDegree'[i] =
                    Cardinality({j \in DOMAIN plan[i] : plan[i][j] \notin WavesRange'})
      OBVIOUS
    <2>1. inDegree'[i] = inDegree[i] - EdgesInto(i, ready)
      BY DEF TopoWave
    <2>2. inDegree[i] = Cardinality({j \in DOMAIN plan[i] : plan[i][j] \notin WavesRange})
      BY <1>0 DEF KahnCounts
    <2>. QED  BY <2>1, <2>2, <1>1, <1>3, CountAfterWave
  <1>5. inDegree' \in [Subtasks -> Nat]
    <2>1. \A i \in Subtasks : inDegree'[i] \in Nat
      BY <1>4, PositionsFinite DEF PlanShape
    <2>2. inDegree' = [i \in Subtasks |-> inDegree[i] - EdgesInto(i, ready)]
      BY DEF TopoWave
    <2>. QED  BY <2>1, <2>2
  <1>6. ready' \subseteq Subtasks
        /\ \A i \in ready' : inDegree[i] > 0 /\ inDegree'[i] = 0
    BY DEF TopoWave, Unlocked
  <1>7. \A i \in ready' : i \notin WavesRange'
    BY <1>6, <1>0, <1>3 DEF KahnCounts
  <1>8. \A i \in WavesRange' : inDegree'[i] = 0
    <2>. SUFFICES ASSUME NEW i \in WavesRange' PROVE inDegree'[i] = 0
      OBVIOUS
    <2>0. WavesRange \subseteq Subtasks
      BY DEF PlanShape, WavesRange
    <2>1. i \in Subtasks /\ inDegree[i] = 0
      BY <1>0, <1>1, <1>3, <2>0 DEF KahnCounts
    <2>2. inDegree'[i] = inDegree[i] - EdgesInto(i, ready)
      BY <2>1 DEF TopoWave
    <2>3. EdgesInto(i, ready) \in Nat /\ inDegree'[i] \in Nat
      BY <2>1, <1>5, PositionsFinite DEF EdgesInto, PlanShape
    <2>. QED  BY <2>1, <2>2, <2>3
  <1>9. KahnCounts'
    BY <1>0, <1>4, <1>5, <1>6, <1>7, <1>8 DEF KahnCounts, Subtasks
  <1>10. \A i \in ready : RangeOf(plan[i]) \subseteq WavesRange
    BY <1>0, <1>1, ZeroCountCovered DEF KahnCounts
  <1>11. /\ DOMAIN waves' = 1..(Len(waves) + 1) /\ waves'[Len(waves) + 1] = ready
         /\ \A k \in 1..Len(waves) : waves'[k] = waves[k]
         /\ DOMAIN waves = 1..Len(waves) /\ Len(waves) \in Nat
    BY <1>2 DEF PlanShape
  <1>12. WavesAreIndependent'
    <2>1. ASSUME NEW w \in DOMAIN waves', NEW i \in waves'[w]
          PROVE  \A d \in RangeOf(plan[i]) : \E k \in 1..(w - 1) : d \in waves'[k]
      <3>1. CASE w = Len(waves) + 1
        BY <3>1, <1>10, <1>11 DEF WavesRange
      <3>2. CASE w \in DOMAIN waves
        <4>1. \A d \in RangeOf(plan[i]) : \E k \in 1..(w - 1) : d \in waves[k]
          BY <3>2, <1>11 DEF PlanShape, WavesAreIndependent
        <4>2. \A k \in 1..(w - 1) : waves'[k] = waves[k]
          BY <3>2, <1>11
        <4>. QED  BY <4>1, <4>2
      <3>. QED  BY <3>1, <3>2, <1>11
    <2>2. ASSUME NEW w \in DOMAIN waves', NEW x \in DOMAIN waves', w # x
          PROVE  waves'[w] \cap waves'[x] = {}
      <3>1. \A k \in 1..Len(waves) : waves[k] \cap ready = {}
        BY <1>1, <1>11 DEF WavesRange
      <3>. QED  BY <2>2, <3>1, <1>11 DEF PlanShape, WavesAreIndependent
    <2>. QED  BY <2>1, <2>2, <1>0 DEF WavesAreIndependent
  <1>13. PlanShape'
    BY <1>0, <1>1, <1>2, <1>6, <1>12 DEF PlanShape, Subtasks
  <1>14. Untouched' /\ ExecShape' /\ StartsWithEveryDependency'
    BY <1>0 DEF Untouched, ExecShape, StartsWithEveryDependency, Started
  <1>. QED  BY <1>9, <1>13, <1>14

\* The steps before Kahn's loop change neither waves nor outcomes.
LEMMA PlanningIInv ==
  IInv /\ (DecomposeFails \/ Decompose \/ ReviewEmpty \/ ReviewStart \/ DfsRoot
             \/ DfsEdge \/ DfsReturn \/ Review) => IInv'
  <1>. SUFFICES ASSUME IInv, DecomposeFails \/ Decompose \/ ReviewEmpty \/ ReviewStart
                          \/ DfsRoot \/ DfsEdge \/ DfsReturn \/ Review
                PROVE IInv'
    OBVIOUS
  <1>. USE DEF IInv
  <1>1. /\ waves = << >> /\ ready = {} /\ outcome = << >> /\ current = 0 /\ completed = {}
        /\ UNCHANGED <<waves, ready, outcome, injected, current, completed>>
        /\ pc' \in {"review", "dfs", "approved"} \cup Failures
    BY DEF DecomposeFails, Decompose, ReviewEmpty, ReviewStart, DfsRoot, DfsEdge,
           DfsReturn, Review, Untouched, kahnVars, execVars, Failures
  <1>2. (Subtasks \subseteq Nat /\ \A i \in Subtasks : plan[i] \in Seq(Subtasks))'
    <2>1. CASE UNCHANGED plan
      BY <2>1 DEF PlanShape, Subtasks
    <2>2. CASE Decompose /\ pc' = "review"
      <3>1. PICK n \in 0..MaxSubtasks :
              \E raw \in [1..n -> SeqsUpTo(1..(n + 1), MaxDeps)] :
                 /\ ~ \E i \in 1..n : n + 1 \in RangeOf(raw[i])
                 /\ plan' = raw
        BY <2>2 DEF Decompose
      <3>2. plan' \in [1..n -> SeqsUpTo(1..(n + 1), MaxDeps)] /\ n \in Nat
            /\ \A i \in 1..n : n + 1 \notin RangeOf(plan'[i])
        BY <3>1, BoundsAssumption
      <3>3. ASSUME NEW i \in 1..n PROVE plan'[i] \in Seq(1..n)
        <4>1. PICK k \in 0..MaxDeps : plan'[i] \in [1..k -> 1..(n + 1)]
          <5>1. plan'[i] \in UNION {[1..k -> 1..(n + 1)] : k \in 0..MaxDeps}
            BY <3>2 DEF SeqsUpTo
          <5>. QED  BY <5>1
        <4>2. \A j \in 1..k : plan'[i][j] \in 1..n
          BY <4>1, <3>2 DEF RangeOf
        <4>3. plan'[i] \in [1..k -> 1..n] /\ k \in Nat
          BY <4>1, <4>2, BoundsAssumption
        <4>. QED  BY <4>3
      <3>. QED  BY <3>2, <3>3 DEF Subtasks
    <2>. QED
      BY <2>1, <2>2 DEF DecomposeFails, Decompose, ReviewEmpty, ReviewStart, DfsRoot,
                         DfsEdge, DfsReturn, Review
  <1>3. PlanShape'
    BY <1>1, <1>2 DEF PlanShape, WavesAreIndependent, Subtasks
  <1>4. KahnCounts' /\ Untouched' /\ ExecShape' /\ StartsWithEveryDependency'
    BY <1>1 DEF KahnCounts, Untouched, ExecShape, StartsWithEveryDependency, Failures
  <1>. QED  BY <1>3, <1>4

LEMMA TopoStartIInv == IInv /\ TopoStart => IInv'
  <1>. SUFFICES ASSUME IInv, TopoStart PROVE IInv'
    OBVIOUS
  <1>. USE DEF IInv
  <1>1. /\ pc = "approved" /\ pc' = "topo" /\ waves = << >> /\ waves' = << >>
        /\ outcome = << >> /\ current = 0 /\ completed = {}
        /\ UNCHANGED <<plan, outcome, injected, current, completed>>
        /\ WavesRange = {} /\ WavesRange' = {}
    BY DEF TopoStart, Untouched, execVars, WavesRange
  <1>2. ASSUME NEW i \in Subtasks
        PROVE  /\ Len(plan[i]) \in Nat
               /\ Len(plan[i]) = Cardinality({j \in DOMAIN plan[i] : plan[i][j] \notin WavesRange'})
    <2>1. plan[i] \in Seq(Subtasks)
      BY DEF PlanShape
    <2>2. Len(plan[i]) \in Nat /\ DOMAIN plan[i] = 1..Len(plan[i])
      BY <2>1
    <2>3. {j \in DOMAIN plan[i] : plan[i][j] \notin WavesRange'} = 1..Len(plan[i])
      BY <2>2, <1>1
    <2>4. Cardinality(1..Len(plan[i])) = Len(plan[i])
      <3>1. Cardinality(1..Len(plan[i])) =
              IF 1 > Len(plan[i]) THEN 0 ELSE Len(plan[i]) - 1 + 1
        BY <2>2, FS_Interval, SMTT(30)
      <3>. QED  BY <3>1, <2>2
    <2>. QED  BY <2>2, <2>3, <2>4
  <1>3. inDegree' = [i \in Subtasks |-> Len(plan[i])]
        /\ ready' = {i \in Subtasks : Len(plan[i]) = 0}
    BY DEF TopoStart, DepCount
  <1>4. KahnCounts'
    BY <1>1, <1>2, <1>3 DEF KahnCounts, Subtasks
  <1>5. PlanShape'
    BY <1>1, <1>3 DEF PlanShape, Subtasks, WavesAreIndependent
  <1>6. Untouched' /\ ExecShape' /\ StartsWithEveryDependency'
    BY <1>1 DEF Untouched, ExecShape, StartsWithEveryDependency
  <1>. QED  BY <1>4, <1>5, <1>6

LEMMA TopoEndIInv == IInv /\ TopoEnd => IInv'
  <1>. SUFFICES ASSUME IInv, TopoEnd PROVE IInv'
    OBVIOUS
  <1>. USE DEF IInv
  <1>1. /\ pc = "topo" /\ pc' \in {"cyclic_dependency", "next_wave"}
        /\ UNCHANGED <<plan, ready, waves>>
        /\ current = 0 /\ current' = 0 /\ completed = {} /\ completed' = {}
        /\ outcome = << >>
    BY DEF TopoEnd, Untouched, kahnVars, execVars
  <1>2. \/ pc' = "cyclic_dependency" /\ outcome' = << >>
        \/ /\ pc' = "next_wave" /\ outcome' = [i \in Subtasks |-> "idle"]
           /\ injected' = [i \in Subtasks |-> {}]
    BY <1>1 DEF TopoEnd, execVars
  <1>3. PlanShape'
    BY <1>1 DEF PlanShape, Subtasks, WavesAreIndependent
  <1>4. KahnCounts' /\ Untouched' /\ StartsWithEveryDependency'
    BY <1>1, <1>2 DEF KahnCounts, Untouched, StartsWithEveryDependency, Started
  <1>5. Len(waves) \in Nat
    BY DEF PlanShape
  <1>6. ExecShape'
    BY <1>1, <1>2, <1>5 DEF ExecShape, Subtasks
  <1>. QED  BY <1>3, <1>4, <1>6

LEMMA StartWaveIInv == IInv /\ StartWave => IInv'
  <1>. SUFFICES ASSUME IInv, StartWave PROVE IInv'
    OBVIOUS
  <1>. USE DEF IInv
  <1>1. /\ pc = "next_wave" /\ pc' = "joining" /\ current < Len(waves)
        /\ current' = current + 1 /\ current \in 0..Len(waves) /\ Len(waves) \in Nat
        /\ UNCHANGED <<plan, ready, waves, completed>>
        /\ \A d : d \in completed <=> \E k \in 1..current : d \in waves[k]
    BY DEF StartWave, kahnVars, ExecShape, PlanShape
  <1>2. /\ outcome' = [i \in Subtasks |->
                         IF i \in waves[current + 1] THEN "running" ELSE outcome[i]]
        /\ injected' = [i \in Subtasks |->
                         IF i \in waves[current + 1] THEN DepContext(i) ELSE injected[i]]
    BY DEF StartWave
  <1>3. \A i \in waves[current + 1] : DepContext(i) = RangeOf(plan[i])
    <2>1. current + 1 \in DOMAIN waves /\ (current + 1) - 1 = current
      BY <1>1 DEF PlanShape
    <2>2. \A i \in waves[current + 1] : \A d \in RangeOf(plan[i]) :
             \E k \in 1..current : d \in waves[k]
      BY <2>1 DEF PlanShape, WavesAreIndependent
    <2>. QED  BY <1>1, <2>2 DEF DepContext
  <1>4. StartsWithEveryDependency'
    BY <1>1, <1>2, <1>3 DEF StartsWithEveryDependency, Started, ExecShape
  <1>5. PlanShape'
    BY <1>1 DEF PlanShape, Subtasks, WavesAreIndependent
  <1>6. ExecShape' /\ KahnCounts' /\ Untouched'
    BY <1>1, <1>2 DEF ExecShape, KahnCounts, Untouched, Subtasks
  <1>. QED  BY <1>4, <1>5, <1>6

LEMMA SubtaskEndsIInv ==
  ASSUME IInv, NEW i \in DOMAIN outcome, SubtaskEnds(i)
  PROVE  IInv'
  <1>. USE DEF IInv
  <1>1. /\ pc = "joining" /\ pc' = "joining" /\ outcome[i] = "running"
        /\ UNCHANGED <<plan, ready, waves, current, injected, completed>>
        /\ DOMAIN outcome' = DOMAIN outcome
        /\ \A k \in DOMAIN outcome : k # i => outcome'[k] = outcome[k]
    BY DEF SubtaskEnds, kahnVars
  <1>2. StartsWithEveryDependency'
    BY <1>1 DEF StartsWithEveryDependency, Started
  <1>3. PlanShape'
    BY <1>1 DEF PlanShape, Subtasks, WavesAreIndependent
  <1>4. ExecShape' /\ KahnCounts' /\ Untouched'
    BY <1>1 DEF ExecShape, KahnCounts, Untouched, Subtasks
  <1>. QED  BY <1>2, <1>3, <1>4

LEMMA JoinWaveIInv == IInv /\ JoinWave => IInv'
  <1>. SUFFICES ASSUME IInv, JoinWave PROVE IInv'
    OBVIOUS
  <1>. USE DEF IInv
  <1>1. /\ pc = "joining" /\ UNCHANGED <<plan, ready, waves, current, outcome, injected>>
        /\ current \in 1..Len(waves) /\ Len(waves) \in Nat
        /\ \A d : d \in completed <=> \E k \in 1..(current - 1) : d \in waves[k]
    BY DEF JoinWave, kahnVars, ExecShape, PlanShape
  <1>2. \/ pc' = "execution_failed"
        \/ pc' = "next_wave" /\ completed' = completed \cup waves[current]
    BY DEF JoinWave
  <1>4. PlanShape'
    BY <1>1 DEF PlanShape, Subtasks, WavesAreIndependent
  <1>5. StartsWithEveryDependency' /\ KahnCounts' /\ Untouched'
    BY <1>1, <1>2 DEF StartsWithEveryDependency, Started, KahnCounts, Untouched
  <1>6. ExecShape'
    BY <1>1, <1>2 DEF ExecShape, Subtasks
  <1>. QED  BY <1>4, <1>5, <1>6

LEMMA IdleIInv == IInv /\ (Finish \/ UNCHANGED vars) => IInv'
  <1>. SUFFICES ASSUME IInv, Finish \/ UNCHANGED vars PROVE IInv'
    OBVIOUS
  <1>. USE DEF IInv
  <1>1. /\ UNCHANGED <<plan, inDegree, ready, waves, current, outcome, injected, completed>>
        /\ pc' = pc \/ pc' = "resolved"
    BY DEF Finish, vars, kahnVars, execVars
  <1>2. PlanShape' /\ StartsWithEveryDependency'
    BY <1>1 DEF PlanShape, Subtasks, WavesAreIndependent, StartsWithEveryDependency, Started
  <1>3. KahnCounts' /\ Untouched' /\ ExecShape'
    BY <1>1 DEF KahnCounts, Untouched, ExecShape, Subtasks, WavesRange
  <1>. QED  BY <1>2, <1>3

\* Every step of the engine keeps the invariant.
LEMMA StepIInv == IInv /\ [Next]_vars => IInv'
  BY PlanningIInv, TopoStartIInv, TopoWaveIInv, TopoEndIInv, StartWaveIInv,
     SubtaskEndsIInv, JoinWaveIInv, IdleIInv DEF Next, Terminated

\* For every plan the waves topo_waves computes are pairwise disjoint, and a
\* subtask comes in a later wave than each of its dependencies.
THEOREM WavesOrdered == Spec => []WavesAreIndependent
  <1>1. IInv => WavesAreIndependent
    BY DEF IInv, PlanShape
  <1>. QED  BY InitIInv, StepIInv, <1>1, PTL DEF Spec

\* For every plan, a started subtask was given the output of every one of its
\* dependencies (execute injects the results of earlier waves).
THEOREM DependencyOrder == Spec => []StartsWithEveryDependency
  <1>1. IInv => StartsWithEveryDependency
    BY DEF IInv
  <1>. QED  BY InitIInv, StepIInv, <1>1, PTL DEF Spec

-----------------------------------------------------------------------------
(* The reviewer and the scheduler agree: detect_cycle lets a plan through   *)
(* only when the subtasks have a finishing order that puts each of them     *)
(* after its dependencies, and then Kahn's loop covers every subtask.       *)

\* A frame of dfs: its subtask and the position it has reached in depends_on.
Frame == [v : Subtasks, next : Nat \ {0}]

\* The depth-first search: the calls on the stack are distinct gray subtasks,
\* and each one has left behind black dependencies, or the one it has called.
DfsShape ==
    /\ pc \in {"decompose", "review"} => stack = << >>
    /\ pc = "dfs" =>
        /\ color \in [Subtasks -> {"white", "gray", "black"}]
        /\ stack \in Seq(Frame)
        /\ \A k \in 1..Len(stack) :
              /\ color[stack[k].v] = "gray"
              /\ \A l \in 1..Len(stack) : k # l => stack[k].v # stack[l].v
              /\ \A j \in DOMAIN plan[stack[k].v] : j < stack[k].next =>
                    \/ color[plan[stack[k].v][j]] = "black"
                    \/ k < Len(stack) /\ plan[stack[k].v][j] = stack[k + 1].v

\* rank numbers the black subtasks below n in an order in which dfs can have
\* left them: after everything they depend on.
OrderedBy(rank, n) ==
    \A i \in Subtasks : color[i] = "black" =>
        /\ rank[i] < n
        /\ \A d \in RangeOf(plan[i]) : color[d] = "black" /\ rank[d] < rank[i]

FinishOrder ==
    pc \in {"dfs", "approved", "topo"} =>
        \E rank \in [Subtasks -> Nat], n \in Nat : OrderedBy(rank, n)

\* Review approves once every subtask is black.
AllBlack == pc \in {"approved", "topo"} => \A i \in Subtasks : color[i] = "black"

\* Kahn's loop has taken, or takes next, every subtask whose count is zero.
KahnComplete ==
    pc = "topo" => \A i \in Subtasks : inDegree[i] = 0 => i \in WavesRange \cup ready

AInv == DfsShape /\ FinishOrder /\ AllBlack /\ KahnComplete /\ ApprovedPlansSchedule

\* A set of naturals has a least element.
LEMMA LeastNatural ==
  ASSUME NEW T, T \subseteq Nat, T # {}
  PROVE  \E x \in T : \A y \in T : x <= y
  <1>. DEFINE R == {ss \in Nat \X Nat : ss[1] < ss[2]}
  <1>1. IsWellFoundedOn(R, Nat)
    BY NatLessThanWellFounded, Zenon DEF OpToRel
  <1>2. PICK x \in T : \A y \in T : ~(<<y, x>> \in R)
    BY <1>1, WFMin, Zenon
  <1>3. ASSUME NEW y \in T PROVE x <= y
    <2>1. <<y, x>> \notin R
      BY <1>2
    <2>2. <<y, x>> \in Nat \X Nat /\ <<y, x>>[1] = y /\ <<y, x>>[2] = x
      OBVIOUS
    <2>3. ~(y < x)
      BY <2>1, <2>2
    <2>. QED  BY <2>3
  <1>. QED  BY <1>3

\* What the changes of the stack leave in place.
LEMMA SeqReplace ==
  ASSUME NEW S, NEW s \in Seq(S), NEW k \in 1..Len(s), NEW e \in S
  PROVE  /\ [s EXCEPT ![k] = e] \in Seq(S) /\ Len([s EXCEPT ![k] = e]) = Len(s)
         /\ [s EXCEPT ![k] = e][k] = e
         /\ \A l \in 1..Len(s) : l # k => [s EXCEPT ![k] = e][l] = s[l]
  OBVIOUS

\* The search's stack: push, pop and top.
LEMMA SeqPush ==
  ASSUME NEW S, NEW s \in Seq(S), NEW e \in S
  PROVE  /\ Append(s, e) \in Seq(S) /\ Len(Append(s, e)) = Len(s) + 1
         /\ Append(s, e)[Len(s) + 1] = e
         /\ \A l \in 1..Len(s) : Append(s, e)[l] = s[l]
  OBVIOUS

LEMMA SeqPop ==
  ASSUME NEW S, NEW s \in Seq(S), s # << >>
  PROVE  /\ SubSeq(s, 1, Len(s) - 1) \in Seq(S)
         /\ Len(SubSeq(s, 1, Len(s) - 1)) = Len(s) - 1
         /\ \A l \in 1..(Len(s) - 1) : SubSeq(s, 1, Len(s) - 1)[l] = s[l]
  <1>1. Len(s) \in Nat /\ Len(s) >= 1 /\ \A k \in 1..Len(s) : s[k] \in S
    OBVIOUS
  <1>2. \A k \in 1..(Len(s) - 1) : s[k] \in S
    BY <1>1
  <1>3. 1 \in Int /\ Len(s) - 1 \in Int /\ (Len(s) - 1) - 1 + 1 = Len(s) - 1
    BY <1>1
  <1>. DEFINE p == SubSeq(s, 1, Len(s) - 1)
  <1>4. /\ p \in Seq(S)
        /\ Len(p) = IF 1 <= Len(s) - 1 THEN (Len(s) - 1) - 1 + 1 ELSE 0
        /\ \A i \in 1..((Len(s) - 1) - 1 + 1) : p[i] = s[1 + i - 1]
    BY <1>2, <1>3, SubSeqProperties
  <1>. HIDE DEF p
  <1>5. Len(p) = Len(s) - 1
    <2>1. Len(p) = IF 1 <= Len(s) - 1 THEN (Len(s) - 1) - 1 + 1 ELSE 0
      BY <1>4
    <2>. DEFINE a == Len(s)
                b == Len(p)
    <2>2. a \in Nat /\ a >= 1 /\ b = IF 1 <= a - 1 THEN (a - 1) - 1 + 1 ELSE 0
      BY <1>1, <2>1
    <2>. HIDE DEF a, b
    <2>3. b = a - 1
      BY <2>2
    <2>. QED  BY <2>3 DEF a, b
  <1>6. ASSUME NEW l \in 1..(Len(s) - 1) PROVE p[l] = s[l]
    <2>1. l \in 1..((Len(s) - 1) - 1 + 1) /\ 1 + l - 1 = l
      BY <1>1
    <2>. QED  BY <1>4, <2>1
  <1>. QED  BY <1>4, <1>5, <1>6 DEF p

LEMMA SeqTop ==
  ASSUME NEW S, NEW s \in Seq(S), s # << >>
  PROVE  Len(s) \in Nat /\ Len(s) >= 1 /\ \A k \in 1..Len(s) : s[k] \in S
  OBVIOUS

\* Before the review nothing is coloured.
LEMMA InitAInv == Init => AInv
  BY DEF Init, AInv, DfsShape, FinishOrder, AllBlack, KahnComplete, ApprovedPlansSchedule

\* The search starts with every subtask white.
LEMMA ReviewStartAInv == IInv /\ AInv /\ ReviewStart => AInv'
  <1>. SUFFICES ASSUME IInv, AInv, ReviewStart PROVE AInv'
    OBVIOUS
  <1>1. /\ pc' = "dfs" /\ stack' = << >> /\ plan' = plan
        /\ color' = [i \in Subtasks |-> "white"] /\ Subtasks' = Subtasks
    BY DEF ReviewStart, AInv, DfsShape, Subtasks
  <1>2. DfsShape'
    BY <1>1 DEF DfsShape
  <1>3. FinishOrder'
    <2>1. [i \in Subtasks |-> 0] \in [Subtasks -> Nat] /\ 0 \in Nat
      OBVIOUS
    <2>2. OrderedBy([i \in Subtasks |-> 0], 0)'
      BY <1>1 DEF OrderedBy
    <2>. QED  BY <1>1, <2>1, <2>2 DEF FinishOrder
  <1>. QED  BY <1>1, <1>2, <1>3 DEF AInv, AllBlack, KahnComplete, ApprovedPlansSchedule

\* A step that keeps the black subtasks black and makes no other one black
\* keeps a finishing order.
LEMMA SameBlack ==
  ASSUME IInv, FinishOrder, pc \in {"dfs", "approved", "topo"}, plan' = plan,
         \A i \in Subtasks : color'[i] = "black" <=> color[i] = "black"
  PROVE  FinishOrder'
  <1>1. PICK rank \in [Subtasks -> Nat], n \in Nat : OrderedBy(rank, n)
    BY DEF FinishOrder
  <1>2. \A i \in Subtasks : RangeOf(plan[i]) \subseteq Subtasks
    BY DEF IInv, PlanShape, RangeOf
  <1>3. Subtasks' = Subtasks
    BY DEF Subtasks
  <1>4. OrderedBy(rank, n)'
    BY <1>1, <1>2, <1>3 DEF OrderedBy
  <1>. QED  BY <1>1, <1>3, <1>4 DEF FinishOrder

\* A call of dfs from the outer loop.
LEMMA DfsRootAInv == IInv /\ AInv /\ DfsRoot => AInv'
  <1>. SUFFICES ASSUME IInv, AInv, DfsRoot PROVE AInv'
    OBVIOUS
  <1>1. PICK i \in Subtasks :
          /\ color[i] = "white" /\ color' = [color EXCEPT ![i] = "gray"]
          /\ stack' = <<[v |-> i, next |-> 1]>>
    BY DEF DfsRoot
  <1>2. /\ pc = "dfs" /\ pc' = "dfs" /\ plan' = plan /\ Subtasks' = Subtasks
        /\ color \in [Subtasks -> {"white", "gray", "black"}]
    BY DEF DfsRoot, AInv, DfsShape, Subtasks
  <1>3. plan[i] \in Seq(Subtasks)
    BY DEF IInv, PlanShape
  <1>4. /\ Len(stack') = 1 /\ stack'[1] = [v |-> i, next |-> 1]
        /\ stack' \in Seq(Frame)
    <2>1. [v |-> i, next |-> 1] \in Frame
      BY DEF Frame
    <2>. QED  BY <1>1, <2>1
  <1>5. DfsShape'
    <2>1. Frame' = Frame
      BY <1>2 DEF Frame
    <2>2. stack'[1].v = i /\ stack'[1].next = 1 /\ color'[i] = "gray"
      BY <1>1, <1>2, <1>4
    <2>3. \A j \in DOMAIN plan[i] : ~(j < 1)
      BY <1>3
    <2>. QED  BY <1>1, <1>2, <1>4, <2>1, <2>2, <2>3 DEF DfsShape
  <1>6. FinishOrder'
    BY <1>1, <1>2, SameBlack DEF AInv
  <1>. QED  BY <1>2, <1>5, <1>6 DEF AInv, AllBlack, KahnComplete, ApprovedPlansSchedule

\* A turn of the loop over depends_on rejects, calls or steps over.
LEMMA DfsEdgeAInv == IInv /\ AInv /\ DfsEdge => AInv'
  <1>. SUFFICES ASSUME IInv, AInv, DfsEdge PROVE AInv'
    OBVIOUS
  <1>. DEFINE m == Len(stack)
              top == stack[m]
              u == plan[top.v][top.next]
              stepped == [stack EXCEPT ![m].next = @ + 1]
  <1>1. /\ pc = "dfs" /\ plan' = plan /\ Subtasks' = Subtasks
        /\ color \in [Subtasks -> {"white", "gray", "black"}]
        /\ stack \in Seq(Frame) /\ stack # << >>
        /\ top.next <= Len(plan[top.v])
    BY DEF DfsEdge, AInv, DfsShape, Subtasks
  <1>2. m \in Nat /\ m >= 1 /\ top.v \in Subtasks /\ top.next \in Nat \ {0}
    <2>1. m \in Nat /\ m >= 1 /\ \A k \in 1..m : stack[k] \in Frame
      BY <1>1, SeqTop
    <2>2. stack[m] \in Frame
      BY <2>1
    <2>. QED  BY <2>1, <2>2 DEF Frame
  <1>3. plan[top.v] \in Seq(Subtasks)
    BY <1>2 DEF IInv, PlanShape
  <1>4. /\ stepped \in Seq(Frame) /\ Len(stepped) = m
        /\ stepped[m] = [v |-> top.v, next |-> top.next + 1]
        /\ \A k \in 1..(m - 1) : stepped[k] = stack[k]
    <2>. DEFINE e == [v |-> top.v, next |-> top.next + 1]
    <2>1. e \in Frame
      BY <1>2 DEF Frame
    <2>2. stack[m] \in Frame /\ m \in 1..m
      BY <1>1, <1>2, SeqTop
    <2>3. [top EXCEPT !.next = @ + 1] = e
      BY <2>2 DEF Frame
    <2>4. stepped = [stack EXCEPT ![m] = [top EXCEPT !.next = @ + 1]]
      OBVIOUS
    <2>5. stepped = [stack EXCEPT ![m] = e]
      BY <2>3, <2>4
    <2>. HIDE DEF e
    <2>6. /\ [stack EXCEPT ![m] = e] \in Seq(Frame) /\ Len([stack EXCEPT ![m] = e]) = m
          /\ [stack EXCEPT ![m] = e][m] = e
          /\ \A l \in 1..m : l # m => [stack EXCEPT ![m] = e][l] = stack[l]
      BY <1>1, <2>1, <2>2, SeqReplace
    <2>7. stepped[m] = e /\ \A k \in 1..(m - 1) : stepped[k] = stack[k]
      BY <2>5, <2>6, <1>2
    <2>. QED  BY <2>5, <2>6, <2>7 DEF e
  <1>5. \A k \in 1..m :
          /\ color[stack[k].v] = "gray"
          /\ \A l \in 1..m : k # l => stack[k].v # stack[l].v
          /\ \A j \in DOMAIN plan[stack[k].v] : j < stack[k].next =>
                \/ color[plan[stack[k].v][j]] = "black"
                \/ k < m /\ plan[stack[k].v][j] = stack[k + 1].v
    BY <1>1 DEF AInv, DfsShape
  <1>9. \A k \in 1..m : stack[k].v \in Subtasks /\ plan[stack[k].v] \in Seq(Subtasks)
    <2>1. \A k \in 1..m : stack[k] \in Frame
      BY <1>1, SeqTop
    <2>. QED  BY <2>1 DEF Frame, IInv, PlanShape
  <1>10. Frame' = Frame
    BY <1>1 DEF Frame
  <1>6. CASE pc' = "plan_rejected"
    BY <1>6 DEF AInv, DfsShape, FinishOrder, AllBlack, KahnComplete, ApprovedPlansSchedule
  <1>7. CASE /\ color[u] = "white" /\ color' = [color EXCEPT ![u] = "gray"]
             /\ stack' = Append(stepped, [v |-> u, next |-> 1]) /\ pc' = pc
    <2>1. u \in Subtasks /\ top.next \in DOMAIN plan[top.v]
      BY <1>1, <1>2, <1>3
    <2>2. /\ stack' \in Seq(Frame) /\ Len(stack') = m + 1
          /\ stack'[m + 1] = [v |-> u, next |-> 1]
          /\ \A k \in 1..m : stack'[k] = stepped[k]
      <3>1. [v |-> u, next |-> 1] \in Frame
        BY <2>1 DEF Frame
      <3>. HIDE DEF stepped, m, u
      <3>. QED  BY <1>4, <1>7, <3>1, SeqPush
    <2>3. /\ stack'[m + 1].v = u /\ stack'[m + 1].next = 1
          /\ stack'[m].v = top.v /\ stack'[m].next = top.next + 1
          /\ \A k \in 1..m : stack'[k].v = stack[k].v
          /\ \A k \in 1..(m - 1) : stack'[k].next = stack[k].next
      <3>1. stack'[m] = [v |-> top.v, next |-> top.next + 1]
            /\ \A k \in 1..(m - 1) : stack'[k] = stack[k]
        BY <2>2, <1>4, <1>2
      <3>2. \A k \in 1..m : k = m \/ k \in 1..(m - 1)
        BY <1>2
      <3>. QED  BY <2>2, <3>1, <3>2
    <2>4. \A k \in 1..m : stack[k].v \in Subtasks /\ plan[stack[k].v] \in Seq(Subtasks)
      BY <1>9
    <2>5. \A i \in Subtasks : color'[i] = IF i = u THEN "gray" ELSE color[i]
      BY <1>1, <1>7
    <2>6. ASSUME NEW k \in 1..Len(stack')
          PROVE  /\ color'[stack'[k].v] = "gray"
                 /\ \A l \in 1..Len(stack') : k # l => stack'[k].v # stack'[l].v
      <3>1. \A l \in 1..m : stack[l].v # u
        BY <1>5, <1>7
      <3>2. \A l \in 1..Len(stack') : l = m + 1 \/ l \in 1..m
        BY <1>2, <2>2
      <3>3. CASE k = m + 1
        <4>1. stack'[k].v = u
          BY <2>3, <3>3
        <4>2. \A l \in 1..Len(stack') : l # m + 1 => stack'[l].v = stack[l].v /\ l \in 1..m
          BY <2>3, <3>2
        <4>. QED  BY <2>1, <2>5, <3>1, <3>3, <4>1, <4>2
      <3>4. CASE k \in 1..m
        <4>1. stack'[k].v = stack[k].v /\ stack[k].v # u /\ color[stack[k].v] = "gray"
          BY <1>5, <2>3, <3>1, <3>4
        <4>2. color'[stack'[k].v] = "gray"
          BY <2>4, <2>5, <3>4, <4>1
        <4>3. ASSUME NEW l \in 1..Len(stack'), k # l PROVE stack'[k].v # stack'[l].v
          <5>1. CASE l = m + 1
            BY <2>3, <4>1, <5>1
          <5>2. CASE l \in 1..m
            BY <1>5, <2>3, <3>4, <4>1, <4>3, <5>2
          <5>. QED  BY <3>2, <5>1, <5>2
        <4>. QED  BY <4>2, <4>3
      <3>. QED  BY <3>2, <3>3, <3>4
    <2>7. ASSUME NEW k \in 1..Len(stack'), NEW j \in DOMAIN plan[stack'[k].v],
                 j < stack'[k].next
          PROVE  \/ color'[plan[stack'[k].v][j]] = "black"
                 \/ k < Len(stack') /\ plan[stack'[k].v][j] = stack'[k + 1].v
      <3>1. CASE k = m + 1
        <4>1. plan[u] \in Seq(Subtasks) /\ j \in DOMAIN plan[u] /\ j < 1
          BY <2>1, <2>3, <2>7, <3>1 DEF IInv, PlanShape
        <4>. QED  BY <4>1
      <3>2. CASE k = m
        <4>1. j \in Nat /\ (j < top.next \/ j = top.next)
          BY <1>2, <1>3, <2>3, <2>7, <3>2
        <4>2. CASE j = top.next
          <5>1. m < Len(stack') /\ stack'[m + 1].v = u
            BY <1>2, <2>2, <2>3
          <5>2. plan[stack'[k].v][j] = u
            BY <2>3, <3>2, <4>2
          <5>. QED  BY <3>2, <5>1, <5>2
        <4>3. CASE j < top.next
          <5>1. color[plan[top.v][j]] = "black" /\ plan[top.v][j] \in Subtasks
            <6>1. j \in DOMAIN plan[top.v] /\ plan[top.v][j] \in Subtasks /\ m \in 1..m
              BY <3>2, <2>3, <2>7, <1>2, <1>3
            <6>2. color[plan[top.v][j]] = "black" \/ m < m
              BY <1>5, <4>3, <6>1
            <6>. QED  BY <1>2, <6>1, <6>2
          <5>. QED  BY <5>1, <3>2, <2>3, <2>5, <1>7
        <4>. QED  BY <4>1, <4>2, <4>3
      <3>3. CASE k \in 1..(m - 1)
        <4>1. /\ stack'[k].v = stack[k].v /\ stack'[k].next = stack[k].next
              /\ stack'[k + 1].v = stack[k + 1].v
          BY <3>3, <2>3, <1>2
        <4>2. plan[stack[k].v][j] \in Subtasks
          BY <3>3, <4>1, <2>4, <2>7, <1>2
        <4>3. \/ color[plan[stack[k].v][j]] = "black"
              \/ k < m /\ plan[stack[k].v][j] = stack[k + 1].v
          BY <3>3, <4>1, <2>7, <1>5, <1>2
        <4>4. CASE color[plan[stack[k].v][j]] = "black"
          BY <1>7, <2>5, <4>1, <4>2, <4>4
        <4>5. CASE plan[stack[k].v][j] = stack[k + 1].v
          <5>1. k < Len(stack')
            BY <1>2, <2>2, <3>3
          <5>. QED  BY <4>1, <4>5, <5>1
        <4>. QED  BY <4>3, <4>4, <4>5
      <3>. QED  BY <3>1, <3>2, <3>3, <2>2, <1>2
    <2>8. DfsShape'
      <3>1. color' \in [Subtasks -> {"white", "gray", "black"}]
        BY <1>1, <1>7
      <3>. HIDE DEF m, u, stepped
      <3>2. \A k \in 1..Len(stack') :
              /\ color'[stack'[k].v] = "gray"
              /\ \A l \in 1..Len(stack') : k # l => stack'[k].v # stack'[l].v
              /\ \A j \in DOMAIN plan[stack'[k].v] : j < stack'[k].next =>
                    \/ color'[plan[stack'[k].v][j]] = "black"
                    \/ k < Len(stack') /\ plan[stack'[k].v][j] = stack'[k + 1].v
        BY <2>6, <2>7
      <3>3. pc' = "dfs" /\ plan' = plan /\ Subtasks' = Subtasks /\ stack' \in Seq(Frame)
        BY <1>1, <1>7, <2>2
      <3>. QED  BY <1>10, <3>1, <3>2, <3>3 DEF DfsShape
    <2>9. FinishOrder'
      BY <1>1, <1>7, <2>5, SameBlack DEF AInv
    <2>. QED
      BY <1>1, <1>7, <2>8, <2>9 DEF AInv, AllBlack, KahnComplete, ApprovedPlansSchedule
  <1>8. CASE color[u] = "black" /\ stack' = stepped /\ pc' = pc /\ color' = color
    <2>1. /\ Len(stack') = m /\ stack'[m].v = top.v /\ stack'[m].next = top.next + 1
          /\ \A k \in 1..m : stack'[k].v = stack[k].v
          /\ \A k \in 1..(m - 1) : stack'[k].next = stack[k].next
      <3>1. \A k \in 1..m : k = m \/ k \in 1..(m - 1)
        BY <1>2
      <3>2. stack'[m] = [v |-> top.v, next |-> top.next + 1]
            /\ \A k \in 1..(m - 1) : stack'[k] = stack[k]
        BY <1>8, <1>4
      <3>3. Len(stack') = m
        BY <1>8, <1>4
      <3>. HIDE DEF m, u, stepped
      <3>4. stack'[m].v = top.v /\ stack'[m].next = top.next + 1
        BY <3>2
      <3>. QED  BY <3>1, <3>2, <3>3, <3>4
    <2>2. ASSUME NEW k \in 1..m, NEW j \in DOMAIN plan[stack[k].v], j < stack'[k].next
          PROVE  \/ color[plan[stack[k].v][j]] = "black"
                 \/ k < m /\ plan[stack[k].v][j] = stack[k + 1].v
      <3>1. CASE k = m
        <4>1. j < top.next \/ j = top.next
          BY <3>1, <2>1, <2>2, <1>2, <1>3
        <4>. QED  BY <4>1, <3>1, <2>2, <1>5, <1>8
      <3>2. CASE k \in 1..(m - 1)
        BY <3>2, <2>1, <2>2, <1>5
      <3>. QED  BY <3>1, <3>2, <1>2
    <2>3. \A k \in 1..m : k < m => stack'[k + 1].v = stack[k + 1].v
      BY <2>1, <1>2
    <2>4. DfsShape'
      <3>1. stack' \in Seq(Frame)
        BY <1>4, <1>8
      <3>. HIDE DEF m, u, stepped
      <3>2. \A k \in 1..m :
              /\ color[stack'[k].v] = "gray"
              /\ \A l \in 1..m : k # l => stack'[k].v # stack'[l].v
              /\ \A j \in DOMAIN plan[stack'[k].v] : j < stack'[k].next =>
                    \/ color[plan[stack'[k].v][j]] = "black"
                    \/ k < m /\ plan[stack'[k].v][j] = stack'[k + 1].v
        BY <1>5, <2>1, <2>2, <2>3
      <3>. QED  BY <1>1, <1>8, <1>10, <2>1, <3>1, <3>2 DEF DfsShape
    <2>5. FinishOrder'
      BY <1>1, <1>8, SameBlack DEF AInv
    <2>. QED
      BY <1>1, <1>8, <2>4, <2>5 DEF AInv, AllBlack, KahnComplete, ApprovedPlansSchedule
  <1>. QED  BY <1>1, <1>6, <1>7, <1>8 DEF DfsEdge

\* A call returns: its subtask comes after everything that is black already.
LEMMA DfsReturnAInv == IInv /\ AInv /\ DfsReturn => AInv'
  <1>. SUFFICES ASSUME IInv, AInv, DfsReturn PROVE AInv'
    OBVIOUS
  <1>. DEFINE m == Len(stack)
              w == stack[m].v
  <1>1. /\ pc = "dfs" /\ pc' = "dfs" /\ plan' = plan /\ Subtasks' = Subtasks
        /\ color \in [Subtasks -> {"white", "gray", "black"}]
        /\ stack \in Seq(Frame) /\ stack # << >>
        /\ stack[m].next > Len(plan[w])
        /\ color' = [color EXCEPT ![w] = "black"]
        /\ stack' = SubSeq(stack, 1, m - 1)
    BY DEF DfsReturn, MarkDone, AInv, DfsShape, Subtasks
  <1>2. m \in Nat /\ m >= 1 /\ \A k \in 1..m : stack[k] \in Frame
    BY <1>1, SeqTop
  <1>3. \A k \in 1..m : /\ stack[k].v \in Subtasks /\ stack[k].next \in Nat
                        /\ plan[stack[k].v] \in Seq(Subtasks)
    BY <1>2 DEF Frame, IInv, PlanShape
  <1>4. \A k \in 1..m :
          /\ color[stack[k].v] = "gray"
          /\ \A l \in 1..m : k # l => stack[k].v # stack[l].v
          /\ \A j \in DOMAIN plan[stack[k].v] : j < stack[k].next =>
                \/ color[plan[stack[k].v][j]] = "black"
                \/ k < m /\ plan[stack[k].v][j] = stack[k + 1].v
    BY <1>1 DEF AInv, DfsShape
  <1>5. /\ stack' \in Seq(Frame) /\ Len(stack') = m - 1
        /\ \A k \in 1..(m - 1) : stack'[k] = stack[k]
    BY <1>1, SeqPop
  <1>6. m \in 1..m /\ w \in Subtasks /\ color[w] = "gray"
    BY <1>2, <1>3, <1>4
  <1>7. \A d \in RangeOf(plan[w]) : color[d] = "black" /\ d \in Subtasks
    <2>. SUFFICES ASSUME NEW j \in DOMAIN plan[w]
                  PROVE  color[plan[w][j]] = "black" /\ plan[w][j] \in Subtasks
      BY DEF RangeOf
    <2>1. plan[w] \in Seq(Subtasks) /\ stack[m].next \in Nat
      BY <1>3, <1>6
    <2>2. j < stack[m].next
      BY <1>1, <2>1
    <2>. QED  BY <1>2, <1>4, <1>6, <2>1, <2>2
  <1>8. \A i \in Subtasks : color'[i] = IF i = w THEN "black" ELSE color[i]
    BY <1>1, <1>6
  <1>. HIDE DEF w
  <1>9. DfsShape'
    <2>1. ASSUME NEW k \in 1..(m - 1)
          PROVE  /\ color'[stack[k].v] = "gray"
                 /\ \A l \in 1..(m - 1) : k # l => stack[k].v # stack[l].v
      <3>1. k \in 1..m /\ k # m
        BY <1>2
      <3>2. stack[k].v # w
        BY <1>4, <1>6, <3>1 DEF w
      <3>. QED  BY <1>2, <1>3, <1>4, <1>8, <3>1, <3>2
    <2>2. ASSUME NEW k \in 1..(m - 1), NEW j \in DOMAIN plan[stack[k].v], j < stack[k].next
          PROVE  \/ color'[plan[stack[k].v][j]] = "black"
                 \/ k < m - 1 /\ plan[stack[k].v][j] = stack[k + 1].v
      <3>1. k \in 1..m /\ plan[stack[k].v][j] \in Subtasks
        BY <1>2, <1>3
      <3>2. CASE color[plan[stack[k].v][j]] = "black"
        BY <3>1, <3>2, <1>8
      <3>3. CASE k < m /\ plan[stack[k].v][j] = stack[k + 1].v
        <4>1. CASE k = m - 1
          <5>1. k + 1 = m
            BY <4>1, <1>2
          <5>2. plan[stack[k].v][j] = w
            BY <3>3, <5>1 DEF w
          <5>. QED  BY <5>2, <1>6, <1>8
        <4>2. CASE k < m - 1
          BY <3>3, <4>2
        <4>. QED  BY <4>1, <4>2, <1>2
      <3>. QED  BY <1>4, <2>2, <3>1, <3>2, <3>3
    <2>3. color' \in [Subtasks -> {"white", "gray", "black"}]
      BY <1>1
    <2>4. Frame' = Frame
      BY <1>1 DEF Frame
    <2>. DEFINE n == m - 1
    <2>5. \A k \in 1..n :
            /\ color'[stack'[k].v] = "gray"
            /\ \A l \in 1..n : k # l => stack'[k].v # stack'[l].v
            /\ \A j \in DOMAIN plan[stack'[k].v] : j < stack'[k].next =>
                  \/ color'[plan[stack'[k].v][j]] = "black"
                  \/ k < n /\ plan[stack'[k].v][j] = stack[k + 1].v
      <3>. SUFFICES ASSUME NEW k \in 1..n
                    PROVE  /\ color'[stack'[k].v] = "gray"
                           /\ \A l \in 1..n : k # l => stack'[k].v # stack'[l].v
                           /\ \A j \in DOMAIN plan[stack'[k].v] : j < stack'[k].next =>
                                 \/ color'[plan[stack'[k].v][j]] = "black"
                                 \/ k < n /\ plan[stack'[k].v][j] = stack[k + 1].v
        OBVIOUS
      <3>1. \A l \in 1..n : stack'[l] = stack[l]
        BY <1>5
      <3>2. color'[stack'[k].v] = "gray"
            /\ \A l \in 1..n : k # l => stack'[k].v # stack'[l].v
        BY <2>1, <3>1
      <3>3. \A j \in DOMAIN plan[stack[k].v] : j < stack[k].next =>
              \/ color'[plan[stack[k].v][j]] = "black"
              \/ k < n /\ plan[stack[k].v][j] = stack[k + 1].v
        BY <2>2
      <3>4. stack'[k] = stack[k]
        BY <3>1
      <3>. QED  BY <3>2, <3>3, <3>4
    <2>6. \A k \in 1..n : k < n => stack'[k + 1] = stack[k + 1]
      BY <1>2, <1>5
    <2>. HIDE DEF n
    <2>7. Len(stack') = n
      BY <1>5 DEF n
    <2>8. \A k \in 1..Len(stack') :
            /\ color'[stack'[k].v] = "gray"
            /\ \A l \in 1..Len(stack') : k # l => stack'[k].v # stack'[l].v
            /\ \A j \in DOMAIN plan[stack'[k].v] : j < stack'[k].next =>
                  \/ color'[plan[stack'[k].v][j]] = "black"
                  \/ k < Len(stack') /\ plan[stack'[k].v][j] = stack'[k + 1].v
      BY <2>5, <2>6, <2>7
    <2>9. pc' = "dfs" /\ plan' = plan /\ Subtasks' = Subtasks /\ stack' \in Seq(Frame)
      BY <1>1, <1>5
    <2>. QED  BY <2>3, <2>4, <2>8, <2>9 DEF DfsShape
  <1>10. FinishOrder'
    <2>1. PICK rank \in [Subtasks -> Nat], n \in Nat : OrderedBy(rank, n)
      BY <1>1 DEF AInv, FinishOrder
    <2>2. [i \in Subtasks |-> IF i = w THEN n ELSE rank[i]] \in [Subtasks -> Nat]
      BY <2>1
    <2>3. PICK next \in [Subtasks -> Nat] :
            \A i \in Subtasks : next[i] = IF i = w THEN n ELSE rank[i]
      BY <2>2
    <2>4. ASSUME NEW i \in Subtasks, color'[i] = "black"
          PROVE  /\ next[i] < n + 1
                 /\ \A d \in RangeOf(plan[i]) : color'[d] = "black" /\ next[d] < next[i]
      <3>1. CASE i = w
        <4>1. next[i] = n
          BY <2>3, <3>1
        <4>2. ASSUME NEW d \in RangeOf(plan[w]) PROVE color'[d] = "black" /\ next[d] < n
          <5>1. color[d] = "black" /\ d \in Subtasks /\ d # w
            BY <1>6, <1>7
          <5>2. rank[d] < n
            BY <2>1, <5>1 DEF OrderedBy
          <5>. QED  BY <1>8, <2>3, <5>1, <5>2
        <4>. QED  BY <3>1, <4>1, <4>2
      <3>2. CASE i # w
        <4>1. color[i] = "black"
          BY <1>8, <2>4, <3>2
        <4>2. rank[i] < n /\ rank[i] \in Nat
              /\ \A d \in RangeOf(plan[i]) : color[d] = "black" /\ rank[d] < rank[i]
          BY <2>1, <4>1 DEF OrderedBy
        <4>3. RangeOf(plan[i]) \subseteq Subtasks
          BY DEF IInv, PlanShape, RangeOf
        <4>4. \A d \in RangeOf(plan[i]) : d # w
          BY <1>6, <4>2
        <4>. QED  BY <1>8, <2>1, <2>3, <3>2, <4>2, <4>3, <4>4
      <3>. QED  BY <3>1, <3>2
    <2>5. OrderedBy(next, n + 1)'
      BY <1>1, <2>4 DEF OrderedBy
    <2>6. next \in [Subtasks' -> Nat] /\ n + 1 \in Nat
      BY <1>1, <2>1, <2>3
    <2>7. \E r \in [Subtasks' -> Nat], k \in Nat : OrderedBy(r, k)'
      BY <2>5, <2>6
    <2>. QED  BY <2>7 DEF FinishOrder
  <1>. QED  BY <1>1, <1>9, <1>10 DEF AInv, AllBlack, KahnComplete, ApprovedPlansSchedule

\* The adapter's verdict on a plan without a cycle.
LEMMA ReviewAInv == IInv /\ AInv /\ Review => AInv'
  <1>. SUFFICES ASSUME IInv, AInv, Review PROVE AInv'
    OBVIOUS
  <1>1. /\ pc = "dfs" /\ pc' \in {"approved", "plan_rejected", "review_error"}
        /\ UNCHANGED <<plan, color, stack>> /\ \A i \in Subtasks : color[i] = "black"
    BY DEF Review, dfsVars
  <1>2. FinishOrder'
    <2>1. CASE pc' = "approved"
      BY <1>1, <2>1, SameBlack DEF AInv
    <2>. QED  BY <1>1, <2>1 DEF FinishOrder
  <1>. QED
    BY <1>1, <1>2 DEF AInv, DfsShape, AllBlack, KahnComplete, ApprovedPlansSchedule, Subtasks

\* Kahn's loop starts with every subtask that has no dependency.
LEMMA TopoStartAInv == IInv /\ AInv /\ TopoStart => AInv'
  <1>. SUFFICES ASSUME IInv, AInv, TopoStart PROVE AInv'
    OBVIOUS
  <1>1. /\ pc = "approved" /\ pc' = "topo" /\ UNCHANGED <<plan, color, stack, waves>>
        /\ inDegree' = [i \in Subtasks |-> DepCount(i)]
        /\ ready' = {i \in Subtasks : DepCount(i) = 0}
    BY DEF TopoStart, dfsVars
  <1>2. Subtasks' = Subtasks
    BY <1>1 DEF Subtasks
  <1>3. FinishOrder'
    BY <1>1, SameBlack DEF AInv
  <1>4. KahnComplete'
    BY <1>1, <1>2 DEF KahnComplete
  <1>. QED
    BY <1>1, <1>2, <1>3, <1>4 DEF AInv, DfsShape, AllBlack, ApprovedPlansSchedule

\* A wave: a count that reaches zero puts its subtask in the next wave.
LEMMA TopoWaveAInv == IInv /\ AInv /\ TopoWave => AInv'
  <1>. SUFFICES ASSUME IInv, AInv, TopoWave PROVE AInv'
    OBVIOUS
  <1>1. /\ pc = "topo" /\ pc' = "topo" /\ UNCHANGED <<plan, color, stack>>
        /\ waves' = Append(waves, ready) /\ ready' = Unlocked(inDegree, inDegree')
    BY DEF TopoWave, dfsVars
  <1>2. Subtasks' = Subtasks
    BY <1>1 DEF Subtasks
  <1>3. WavesRange' = WavesRange \cup ready
    BY <1>1, WavesRangeAppend DEF IInv
  <1>4. inDegree \in [Subtasks -> Nat]
    BY <1>1 DEF IInv, KahnCounts
  <1>5. KahnComplete'
    <2>. SUFFICES ASSUME NEW i \in Subtasks, inDegree'[i] = 0
                  PROVE  i \in WavesRange' \cup ready'
      BY <1>2 DEF KahnComplete
    <2>1. CASE inDegree[i] = 0
      BY <2>1, <1>1, <1>3 DEF AInv, KahnComplete
    <2>2. CASE inDegree[i] > 0
      BY <2>2, <1>1 DEF Unlocked
    <2>. QED  BY <2>1, <2>2, <1>4
  <1>6. FinishOrder'
    BY <1>1, SameBlack DEF AInv
  <1>. QED
    BY <1>1, <1>2, <1>5, <1>6 DEF AInv, DfsShape, AllBlack, ApprovedPlansSchedule

\* Kahn's loop stops: a subtask left out, first in the finishing order, would
\* have all its dependencies in the waves, so its count would be zero.
LEMMA KahnCoversAll ==
  ASSUME IInv, AInv, pc = "topo", ready = {}
  PROVE  WavesRange = Subtasks
  <1>1. WavesRange \subseteq Subtasks
    BY DEF IInv, PlanShape, WavesRange
  <1>2. SUFFICES ASSUME Subtasks \ WavesRange # {} PROVE FALSE
    BY <1>1
  <1>3. PICK rank \in [Subtasks -> Nat], n \in Nat : OrderedBy(rank, n)
    BY DEF AInv, FinishOrder
  <1>. DEFINE T == {rank[i] : i \in Subtasks \ WavesRange}
  <1>4. T \subseteq Nat /\ T # {}
    BY <1>2, <1>3
  <1>5. PICK least \in T : \A y \in T : least <= y
    BY <1>4, LeastNatural
  <1>6. PICK i \in Subtasks \ WavesRange : rank[i] = least
    BY <1>5
  <1>7. \A d \in RangeOf(plan[i]) : d \in Subtasks /\ rank[d] < rank[i]
    <2>1. color[i] = "black"
      BY <1>6 DEF AInv, AllBlack
    <2>2. RangeOf(plan[i]) \subseteq Subtasks
      BY <1>6 DEF IInv, PlanShape, RangeOf
    <2>. QED  BY <1>3, <1>6, <2>1, <2>2 DEF OrderedBy
  <1>8. RangeOf(plan[i]) \subseteq WavesRange
    <2>. SUFFICES ASSUME NEW d \in RangeOf(plan[i]), d \notin WavesRange PROVE FALSE
      OBVIOUS
    <2>1. d \in Subtasks /\ rank[d] < rank[i] /\ rank[d] \in T
      BY <1>7
    <2>2. rank[i] <= rank[d] /\ rank[i] \in Nat /\ rank[d] \in Nat
      BY <1>3, <1>5, <1>6, <2>1
    <2>. QED  BY <2>1, <2>2
  <1>9. {j \in DOMAIN plan[i] : plan[i][j] \notin WavesRange} = {}
    BY <1>8 DEF RangeOf
  <1>10. inDegree[i] = 0
    BY <1>6, <1>9, FS_EmptySet DEF IInv, KahnCounts
  <1>. QED  BY <1>6, <1>10 DEF AInv, KahnComplete

LEMMA TopoEndAInv == IInv /\ AInv /\ TopoEnd => AInv'
  <1>. SUFFICES ASSUME IInv, AInv, TopoEnd PROVE AInv'
    OBVIOUS
  <1>1. pc = "topo" /\ ready = {}
    BY DEF TopoEnd
  <1>2. pc' = "next_wave"
    BY <1>1, KahnCoversAll DEF TopoEnd
  <1>. QED
    BY <1>2 DEF AInv, DfsShape, FinishOrder, AllBlack, KahnComplete, ApprovedPlansSchedule

\* The other steps: before the search there is no stack, after Kahn's loop
\* nothing is left to say.
LEMMA OtherAInv ==
  ASSUME IInv, AInv,
         \/ DecomposeFails \/ Decompose \/ ReviewEmpty \/ StartWave
         \/ (\E i \in DOMAIN outcome : SubtaskEnds(i)) \/ JoinWave \/ Finish
  PROVE  AInv'
  <1>1. /\ pc' \notin {"dfs", "approved", "topo", "cyclic_dependency"}
        /\ pc' \in {"decompose", "review"} =>
              pc \in {"decompose", "review"} /\ stack' = stack
    BY DEF DecomposeFails, Decompose, ReviewEmpty, StartWave, SubtaskEnds, JoinWave, Finish,
           dfsVars
  <1>. QED
    BY <1>1 DEF AInv, DfsShape, FinishOrder, AllBlack, KahnComplete, ApprovedPlansSchedule

LEMMA StepAInv == IInv /\ AInv /\ [Next]_vars => AInv'
  <1>. SUFFICES ASSUME IInv, AInv, [Next]_vars PROVE AInv'
    OBVIOUS
  <1>1. CASE UNCHANGED vars
    <2>1. /\ UNCHANGED <<pc, plan, color, stack, inDegree, ready, waves>>
          /\ Subtasks' = Subtasks /\ WavesRange' = WavesRange /\ Frame' = Frame
      BY <1>1 DEF vars, Subtasks, WavesRange, Frame
    <2>2. FinishOrder'
      <3>1. CASE pc \in {"dfs", "approved", "topo"}
        BY <2>1, <3>1, SameBlack DEF AInv
      <3>. QED  BY <2>1, <3>1 DEF FinishOrder
    <2>3. DfsShape'
      BY <2>1 DEF AInv, DfsShape
    <2>. QED
      BY <2>1, <2>2, <2>3 DEF AInv, AllBlack, KahnComplete, ApprovedPlansSchedule
  <1>. QED
    BY <1>1, ReviewStartAInv, DfsRootAInv, DfsEdgeAInv, DfsReturnAInv, ReviewAInv,
       TopoStartAInv, TopoWaveAInv, TopoEndAInv, OtherAInv DEF Next, Terminated

\* A plan that passed the reviewer's depth-first search is never refused as
\* cyclic by topo_waves: detect_cycle (reviewer.rs) and the in_degree count
\* (scheduler.rs) agree on every plan, repeated entries included.
THEOREM ApprovedNeverCyclic == Spec => []ApprovedPlansSchedule
  <1>1. AInv => ApprovedPlansSchedule
    BY DEF AInv
  <1>. QED  BY InitIInv, InitAInv, StepIInv, StepAInv, <1>1, PTL DEF Spec

-----------------------------------------------------------------------------
(* A failure ends the execution. *)

\* Between two waves no subtask runs or has failed; while a wave is joined
\* only its own subtasks do.
FailureShape ==
    /\ pc = "next_wave" => \A k \in DOMAIN outcome : outcome[k] \notin {"running", "err"}
    /\ pc = "joining" =>
         \A k \in DOMAIN outcome : outcome[k] \in {"running", "err"} => k \in waves[current]

LEMMA StepFailureShape == IInv /\ FailureShape /\ [Next]_vars => FailureShape'
  <1>. SUFFICES ASSUME IInv, FailureShape, [Next]_vars PROVE FailureShape'
    OBVIOUS
  <1>1. CASE TopoEnd
    <2>1. \/ pc' = "cyclic_dependency"
          \/ pc' = "next_wave" /\ outcome' = [i \in Subtasks |-> "idle"]
      BY <1>1 DEF TopoEnd
    <2>. QED  BY <2>1 DEF FailureShape
  <1>2. CASE StartWave
    <2>1. /\ pc = "next_wave" /\ pc' = "joining" /\ current' = current + 1 /\ waves' = waves
          /\ outcome' = [i \in Subtasks |->
                           IF i \in waves[current + 1] THEN "running" ELSE outcome[i]]
          /\ DOMAIN outcome = Subtasks
      BY <1>2 DEF StartWave, kahnVars, IInv, ExecShape
    <2>. QED  BY <2>1 DEF FailureShape
  <1>3. ASSUME NEW i \in DOMAIN outcome, SubtaskEnds(i) PROVE FailureShape'
    <2>1. /\ pc = "joining" /\ pc' = "joining" /\ UNCHANGED <<waves, current>>
          /\ outcome[i] = "running" /\ DOMAIN outcome' = DOMAIN outcome
          /\ \A k \in DOMAIN outcome : k # i => outcome'[k] = outcome[k]
      BY <1>3 DEF SubtaskEnds, kahnVars
    <2>. QED  BY <2>1 DEF FailureShape
  <1>4. CASE JoinWave
    <2>1. /\ pc = "joining" /\ outcome' = outcome
          /\ \A i \in waves[current] : outcome[i] # "running"
          /\ \/ pc' = "execution_failed"
             \/ pc' = "next_wave" /\ \A i \in waves[current] : outcome[i] # "err"
      BY <1>4 DEF JoinWave, WaveFailed
    <2>. QED  BY <2>1 DEF FailureShape
  <1>5. CASE \/ DecomposeFails \/ Decompose \/ ReviewEmpty \/ ReviewStart \/ DfsRoot
             \/ DfsEdge \/ DfsReturn \/ Review \/ TopoStart \/ TopoWave \/ Finish
    <2>1. pc' \notin {"next_wave", "joining"}
      BY <1>5 DEF DecomposeFails, Decompose, ReviewEmpty, ReviewStart, DfsRoot, DfsEdge,
                  DfsReturn, Review, TopoStart, TopoWave, Finish
    <2>. QED  BY <2>1 DEF FailureShape
  <1>6. CASE UNCHANGED vars
    BY <1>6 DEF vars, FailureShape
  <1>. QED  BY <1>1, <1>2, <1>3, <1>4, <1>5, <1>6 DEF Next, Terminated

\* What one step does to a subtask that has not started: the wave it is in may
\* start, and then nothing has failed.
LEMMA StepNoStart ==
  ASSUME IInv, FailureShape, [Next]_vars,
         NEW i \in DOMAIN outcome, NEW k \in DOMAIN outcome,
         outcome[k] = "err", outcome[i] = "idle"
  PROVE  outcome'[i] = "idle"
  <1>1. CASE StartWave
    BY <1>1 DEF StartWave, FailureShape
  <1>2. CASE TopoEnd
    <2>1. outcome = << >>
      BY <1>2 DEF TopoEnd, IInv, Untouched
    <2>. QED  BY <2>1
  <1>3. ASSUME NEW e \in DOMAIN outcome, SubtaskEnds(e) PROVE outcome'[i] = "idle"
    BY <1>3 DEF SubtaskEnds
  <1>4. CASE \/ DecomposeFails \/ Decompose \/ ReviewEmpty \/ ReviewStart \/ DfsRoot
             \/ DfsEdge \/ DfsReturn \/ Review \/ TopoStart \/ TopoWave \/ JoinWave
             \/ Finish \/ UNCHANGED vars
    <2>1. outcome' = outcome
      BY <1>4 DEF DecomposeFails, Decompose, ReviewEmpty, ReviewStart, DfsRoot, DfsEdge,
                  DfsReturn, Review, TopoStart, TopoWave, JoinWave, Finish, execVars, vars
    <2>. QED  BY <2>1
  <1>. QED  BY <1>1, <1>2, <1>3, <1>4 DEF Next, Terminated

\* No subtask is started once one has failed (scheduler.rs execute: join_all
\* waits for the rest of the wave and the first error leaves the loop).
THEOREM FailureStopsExecution == Spec => NoStartAfterFailure
  <1>1. Init => FailureShape
    BY DEF Init, FailureShape
  <1>2. IInv /\ FailureShape /\ [Next]_vars =>
          [\A i \in DOMAIN outcome :
             (\E k \in DOMAIN outcome : outcome[k] = "err") /\ outcome[i] = "idle"
                => outcome'[i] = "idle"]_vars
    BY StepNoStart
  <1>. QED
    BY InitIInv, StepIInv, StepFailureShape, <1>1, <1>2, PTL DEF Spec, NoStartAfterFailure
=============================================================================
