---------------------------- MODULE CompoundTask ----------------------------
(***************************************************************************)
(* CompoundTaskEngine::run: decompose a manifest into a subtask plan,       *)
(* review the plan, then execute its subtasks in topological waves.         *)
(*                                                                          *)
(*   h2ai-planner/src/decomposer.rs     build_plan                          *)
(*   h2ai-planner/src/reviewer.rs       PlanReviewer::evaluate, detect_cycle*)
(*   h2ai-orchestrator/src/scheduler.rs topo_waves, SchedulingEngine        *)
(*   h2ai-orchestrator/src/compound.rs  CompoundTaskEngine::run             *)
(*                                                                          *)
(* Subtasks are the indices 1..MaxSubtasks.  A depends_on list is a         *)
(* sequence: the planning model may repeat an index or name one that is out *)
(* of range, and the scheduler counts duplicates in in_degree.              *)
(***************************************************************************)
EXTENDS Integers, Sequences, FiniteSets

CONSTANTS
    MaxSubtasks,    \* bound on the length of a decomposition
    MaxDeps         \* bound on the length of one depends_on list

ASSUME BoundsAssumption == MaxSubtasks \in Nat /\ MaxDeps \in Nat

VARIABLES
    pc,         \* where CompoundTaskEngine::run is
    plan,       \* plan.subtasks: index -> depends_on list
    color,      \* detect_cycle: DFS colour of every subtask
    stack,      \* detect_cycle: frames [v, next] of the recursive dfs
    inDegree,   \* topo_waves: in_degree
    ready,      \* topo_waves: the next wave
    waves,      \* topo_waves: the waves emitted so far
    current,    \* execute: the index of the wave that is running
    outcome,    \* execute: what each subtask's future has produced
    injected,   \* the dependency outputs put into a started subtask's manifest
    completed   \* execute: the results collected from finished waves

vars == <<pc, plan, color, stack, inDegree, ready, waves, current, outcome,
          injected, completed>>

dfsVars == <<color, stack>>
kahnVars == <<inDegree, ready, waves>>
execVars == <<current, outcome, injected, completed>>

SeqsUpTo(S, n) == UNION {[1..k -> S] : k \in 0..n}
RangeOf(s) == {s[j] : j \in DOMAIN s}

Subtasks == DOMAIN plan
WavesRange == UNION {waves[w] : w \in DOMAIN waves}

Failures == {"invalid_dependency", "planner_error", "plan_rejected",
             "review_error", "cyclic_dependency", "execution_failed"}
Ended == Failures \cup {"resolved"}

Init ==
    /\ pc = "decompose"
    /\ plan = << >>
    /\ color = << >> /\ stack = << >>
    /\ inDegree = << >> /\ ready = {} /\ waves = << >>
    /\ current = 0 /\ outcome = << >> /\ injected = << >> /\ completed = {}

-----------------------------------------------------------------------------
(* Decomposition *)

\* The planning adapter fails, or its answer does not parse.
DecomposeFails ==
    /\ pc = "decompose"
    /\ pc' = "planner_error"
    /\ UNCHANGED <<plan, dfsVars, kahnVars, execVars>>

\* PlanningEngine::decompose and build_plan: every index of every depends_on
\* list must be in range, duplicates and self references are kept.
Decompose ==
    /\ pc = "decompose"
    /\ \E n \in 0..MaxSubtasks :
         \E raw \in [1..n -> SeqsUpTo(1..(n + 1), MaxDeps)] :
            IF \E i \in 1..n : n + 1 \in RangeOf(raw[i])
            THEN /\ pc' = "invalid_dependency"
                 /\ UNCHANGED plan
            ELSE /\ pc' = "review"
                 /\ plan' = raw
    /\ UNCHANGED <<dfsVars, kahnVars, execVars>>

-----------------------------------------------------------------------------
(* Review: detect_cycle is a depth-first search with three colours *)

ReviewEmpty ==
    /\ pc = "review" /\ Subtasks = {}
    /\ pc' = "plan_rejected"
    /\ UNCHANGED <<plan, dfsVars, kahnVars, execVars>>

ReviewStart ==
    /\ pc = "review" /\ Subtasks # {}
    /\ pc' = "dfs"
    /\ color' = [i \in Subtasks |-> "white"]
    /\ UNCHANGED <<plan, stack, kahnVars, execVars>>

\* The outer loop calls dfs on the first white subtask.
DfsRoot ==
    /\ pc = "dfs" /\ stack = << >>
    /\ \E i \in Subtasks :
         /\ color[i] = "white"
         /\ \A k \in 1..(i - 1) : color[k] # "white"
         /\ color' = [color EXCEPT ![i] = "gray"]
         /\ stack' = <<[v |-> i, next |-> 1]>>
    /\ UNCHANGED <<pc, plan, kahnVars, execVars>>

\* Meeting a gray subtask again is a back edge; a black one is finished.
BackEdge(u) == color[u] = "gray"

\* One turn of the loop over depends_on in the topmost call of dfs.
DfsEdge ==
    /\ pc = "dfs" /\ stack # << >>
    /\ LET top == stack[Len(stack)]
           u == plan[top.v][top.next]
           stepped == [stack EXCEPT ![Len(stack)].next = @ + 1]
       IN /\ top.next <= Len(plan[top.v])
          /\ \/ /\ BackEdge(u)                \* Some(reason)
                /\ pc' = "plan_rejected"
                /\ UNCHANGED <<color, stack>>
             \/ /\ color[u] = "white"
                /\ color' = [color EXCEPT ![u] = "gray"]
                /\ stack' = Append(stepped, [v |-> u, next |-> 1])
                /\ UNCHANGED pc
             \/ /\ color[u] = "black" /\ ~BackEdge(u)
                /\ stack' = stepped
                /\ UNCHANGED <<pc, color>>
    /\ UNCHANGED <<plan, kahnVars, execVars>>

\* What dfs leaves on the subtask it returns from.
Unmark(v) == [color EXCEPT ![v] = "white"]
MarkDone(v) == [color EXCEPT ![v] = "black"]

DfsReturn ==
    /\ pc = "dfs" /\ stack # << >>
    /\ LET top == stack[Len(stack)]
       IN /\ top.next > Len(plan[top.v])
          /\ color' = MarkDone(top.v)
          /\ stack' = SubSeq(stack, 1, Len(stack) - 1)
    /\ UNCHANGED <<pc, plan, kahnVars, execVars>>

\* No cycle: the reviewing adapter approves, rejects or fails.
Review ==
    /\ pc = "dfs" /\ stack = << >>
    /\ \A i \in Subtasks : color[i] = "black"
    /\ pc' \in {"approved", "plan_rejected", "review_error"}
    /\ UNCHANGED <<plan, dfsVars, kahnVars, execVars>>

-----------------------------------------------------------------------------
(* topo_waves: Kahn's algorithm, one wave at a time *)

\* in_degree counts the entries of depends_on, repeated ones included.
DepCount(i) == Len(plan[i])

TopoStart ==
    /\ pc = "approved"
    /\ pc' = "topo"
    /\ inDegree' = [i \in Subtasks |-> DepCount(i)]
    /\ ready' = {i \in Subtasks : DepCount(i) = 0}
    /\ UNCHANGED <<plan, dfsVars, waves, execVars>>

\* How often the wave S is named in depends_on of i: adj holds one edge each.
DepsInto(i, S) == Cardinality(RangeOf(plan[i]) \cap S)
EdgesInto(i, S) == Cardinality({j \in DOMAIN plan[i] : plan[i][j] \in S})

\* Which subtasks a wave unlocks, from the counts before and after it.
Touched(before, after) == {i \in Subtasks : after[i] < before[i]}
Unlocked(before, after) == {i \in Subtasks : before[i] > 0 /\ after[i] = 0}

TopoWave ==
    /\ pc = "topo" /\ ready # {}
    /\ inDegree' = [i \in Subtasks |-> inDegree[i] - EdgesInto(i, ready)]
    /\ ready' = Unlocked(inDegree, inDegree')
    /\ waves' = Append(waves, ready)
    /\ UNCHANGED <<pc, plan, dfsVars, execVars>>

\* visited != n is a CyclicDependency, otherwise execution starts.
TopoEnd ==
    /\ pc = "topo" /\ ready = {}
    /\ IF WavesRange # Subtasks
       THEN /\ pc' = "cyclic_dependency"
            /\ UNCHANGED execVars
       ELSE /\ pc' = "next_wave"
            /\ outcome' = [i \in Subtasks |-> "idle"]
            /\ injected' = [i \in Subtasks |-> {}]
            /\ UNCHANGED <<current, completed>>
    /\ UNCHANGED <<plan, dfsVars, kahnVars>>

-----------------------------------------------------------------------------
(* SchedulingEngine::execute *)

\* build_subtask_manifest: the outputs of the dependencies found in completed.
DepContext(i) == RangeOf(plan[i]) \cap completed

\* The manifests of a whole wave are built, then its futures are joined.
StartWave ==
    /\ pc = "next_wave" /\ current < Len(waves)
    /\ pc' = "joining"
    /\ current' = current + 1
    /\ outcome' = [i \in Subtasks |->
                     IF i \in waves[current + 1] THEN "running" ELSE outcome[i]]
    /\ injected' = [i \in Subtasks |->
                     IF i \in waves[current + 1] THEN DepContext(i) ELSE injected[i]]
    /\ UNCHANGED <<plan, dfsVars, kahnVars, completed>>

\* External: SubtaskExecutor::execute of one subtask returns.
SubtaskEnds(i) ==
    /\ pc = "joining" /\ outcome[i] = "running"
    /\ outcome' \in {[outcome EXCEPT ![i] = "ok"], [outcome EXCEPT ![i] = "err"]}
    /\ UNCHANGED <<pc, plan, dfsVars, kahnVars, current, injected, completed>>

WaveAllFailed == \A i \in waves[current] : outcome[i] = "err"
WaveFailed == \E i \in waves[current] : outcome[i] = "err"

\* join_all returns once every future of the wave has ended; the first Err
\* leaves execute and drops what was collected.
JoinWave ==
    /\ pc = "joining"
    /\ \A i \in waves[current] : outcome[i] # "running"
    /\ IF WaveFailed
       THEN /\ pc' = "execution_failed"
            /\ completed' = {}
       ELSE /\ pc' = "next_wave"
            /\ completed' = completed \cup waves[current]
    /\ UNCHANGED <<plan, dfsVars, kahnVars, current, outcome, injected>>

Finish ==
    /\ pc = "next_wave" /\ current = Len(waves)
    /\ pc' = "resolved"
    /\ UNCHANGED <<plan, dfsVars, kahnVars, execVars>>

Terminated == pc \in Ended /\ UNCHANGED vars

Next ==
    \/ DecomposeFails \/ Decompose
    \/ ReviewEmpty \/ ReviewStart \/ DfsRoot \/ DfsEdge \/ DfsReturn \/ Review
    \/ TopoStart \/ TopoWave \/ TopoEnd
    \/ StartWave \/ (\E i \in DOMAIN outcome : SubtaskEnds(i)) \/ JoinWave \/ Finish
    \/ Terminated

Spec == Init /\ [][Next]_vars

\* The engine's own code awaits nothing but the steps below.
OwnStep ==
    \/ ReviewEmpty \/ ReviewStart \/ DfsRoot \/ DfsEdge \/ DfsReturn
    \/ TopoStart \/ TopoWave \/ TopoEnd \/ StartWave \/ JoinWave \/ Finish

\* The planning and the reviewing adapter answer, or fail; no caller gives them
\* a timeout, and the clients of cloud.rs, openai.rs, ollama.rs and anthropic.rs
\* have none.
ModelStep == Decompose \/ DecomposeFails \/ Review

\* join_all waits for each future of a wave, without a timeout either.
SubtaskReturns == \A i \in 1..MaxSubtasks : WF_vars(i \in DOMAIN outcome /\ SubtaskEnds(i))

FairSpec == Spec /\ WF_vars(OwnStep)

-----------------------------------------------------------------------------
(* Properties *)

Started(i) == outcome[i] # "idle"

\* The variables hold what the planner, the reviewer and the scheduler keep in
\* their locals; a wave index never passes the waves there are (scheduler.rs).
TypeOK ==
    /\ pc \in Ended \cup {"decompose", "review", "dfs", "approved", "topo",
                          "next_wave", "joining"}
    /\ \E n \in 0..MaxSubtasks : plan \in [1..n -> Seq(1..n)]
    /\ color = << >> \/ color \in [Subtasks -> {"white", "gray", "black"}]
    /\ stack \in Seq([v : Subtasks, next : Nat])
    /\ inDegree = << >> \/ inDegree \in [Subtasks -> Nat]
    /\ ready \subseteq Subtasks
    /\ waves \in Seq(SUBSET Subtasks)
    /\ current \in 0..Len(waves)
    /\ outcome = << >> \/ outcome \in [Subtasks -> {"idle", "running", "ok", "err"}]
    /\ injected = << >> \/ injected \in [Subtasks -> SUBSET Subtasks]
    /\ completed \subseteq Subtasks

\* A subtask runs with the output of every one of its dependencies in its
\* manifest (scheduler.rs execute: "respecting dependency order", results
\* "are injected as context into the manifests of their dependents").
StartsWithEveryDependency ==
    \A i \in DOMAIN outcome :
        Started(i) => injected[i] = RangeOf(plan[i])

\* No two subtasks of one wave depend on each other, and no subtask is
\* scheduled twice: the waves partition what they cover.
WavesAreIndependent ==
    /\ \A w \in DOMAIN waves : \A i \in waves[w] :
         \A d \in RangeOf(plan[i]) : \E k \in 1..(w - 1) : d \in waves[k]
    /\ \A w, x \in DOMAIN waves : w # x => waves[w] \cap waves[x] = {}

\* The reviewer's depth-first search and the scheduler's in-degree count agree:
\* a plan that passed review is never refused as cyclic by topo_waves.
ApprovedPlansSchedule == pc # "cyclic_dependency"

\* Once a subtask has failed no further subtask is started: join_all waits for
\* the rest of the wave, and the error leaves execute before the next wave.
NoStartAfterFailure ==
    [][\A i \in DOMAIN outcome :
         (\E k \in DOMAIN outcome : outcome[k] = "err") /\ outcome[i] = "idle"
            => outcome'[i] = "idle"]_vars

\* As long as the adapters and every started subtask return, each run of the
\* engine ends, whatever plan it was given: cyclic, empty or with repeated
\* entries, none keeps the review or the scheduler going.
Terminates == WF_vars(ModelStep) /\ SubtaskReturns => <>(pc \in Ended)

=============================================================================
