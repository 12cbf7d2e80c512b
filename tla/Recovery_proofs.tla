--------------------------- MODULE Recovery_proofs ---------------------------
(***************************************************************************)
(* Proofs about Recovery, for any number of hosts, process ids, tasks,     *)
(* crashes and merges.                                                     *)
(*                                                                         *)
(* The inductive invariant IInv is TypeOK and ReportsAgree with three      *)
(* parts.  Concluded ties every copy of a task's output to what the engine *)
(* concluded; Backed says who may delete a checkpoint; Owned says that a   *)
(* checkpoint in the bucket names the only process that works on its task. *)
(* The last section adds Entered, about the entries of the task stores.    *)
(***************************************************************************)
EXTENDS Recovery, SequenceTheorems, TLAPS

Undecided == {"none", "pending"}
Deciding  == {"prepare", "engine"}
Failing   == {"failing", "failing_early"}
Holding   == {"checkpoint", "publish", "collect", "claim", "found", "guard", "resume"}

\* A future with an output holds the one the engine concluded.
HoldersAgree ==
    \A n \in Nodes, t \in Tasks : job[n][t] \in Holding =>
        copy[n][t] \in Checkpoint /\ copy[n][t].output = verdict[t]

DecidersPending ==
    \A n \in Nodes, t \in Tasks : job[n][t] \in Deciding => verdict[t] = "pending"

OneDecider ==
    \A m, n \in Nodes, t \in Tasks :
        job[m][t] \in Deciding /\ job[n][t] \in Deciding => m = n

FailersFailed ==
    \A n \in Nodes, t \in Tasks : job[n][t] \in Failing => verdict[t] = "failed"

\* Before the engine returns there is no trace of the task but its own future.
UndecidedIdle ==
    \A n \in Nodes, t \in Tasks :
        verdict[t] \in Undecided => job[n][t] \in Deciding \cup {"none", "read"}

UndecidedClean ==
    \A t \in Tasks : verdict[t] \in Undecided =>
        bucket[t] = NoCheckpoint /\ \A i \in DOMAIN log[t] : log[t][i] = "manual"

BucketAgrees ==
    \A t \in Tasks : bucket[t] # NoCheckpoint => bucket[t].output = verdict[t]

Concluded ==
    /\ HoldersAgree /\ DecidersPending /\ OneDecider /\ FailersFailed
    /\ UndecidedIdle /\ UndecidedClean /\ BucketAgrees

Attempted(t) == log[t] # <<>> \/ t \in faults

\* Whoever deletes a checkpoint, or shows a task as resolved, has tried to
\* report it.
CollectorsTried ==
    \A n \in Nodes, t \in Tasks :
        job[n][t] \in {"collect", "collect_failed"} => Attempted(t)

MergersTried == \A n \in Nodes, t \in Tasks : merge[n][t] = "published" => Attempted(t)

Backed == CheckpointOrReport /\ CollectorsTried /\ MergersTried

DownIdle == \A n \in Nodes : proc[n] = "down" => \A t \in Tasks : job[n][t] = "none"

\* A key in the bucket has a revision, so a claim that expects none fails.
BucketRevised == \A t \in Tasks : bucket[t] # NoCheckpoint => rev[t] # 0

ClaimsRevised ==
    \A n \in Nodes, t \in Tasks \ expired : job[n][t] = "claim" => rev[t] # 0

WriterOwns ==
    \A n \in Nodes, t \in Tasks :
        job[n][t] = "checkpoint" => copy[n][t].owner = <<n, pid[n]>>

\* A checkpoint in the bucket belongs to the process that works on the task.
WorkerOwns ==
    \A n \in Nodes, t \in Tasks \ expired :
        bucket[t] # NoCheckpoint /\ Working(n, t) => bucket[t].owner = <<n, pid[n]>>

Owned == SoleWorker /\ DownIdle /\ BucketRevised /\ ClaimsRevised /\ WriterOwns /\ WorkerOwns

IInv == TypeOK /\ Concluded /\ ReportsAgree /\ Backed /\ Owned

-----------------------------------------------------------------------------
(* What the calls of NATS do *)

Writes(t, cp) ==
    /\ bucket' \in [Tasks -> Checkpoint \cup {NoCheckpoint}]
    /\ rev' \in [Tasks -> Nat]
    /\ \A u \in Tasks : bucket'[u] = IF u = t THEN cp ELSE bucket[u]
    /\ \A u \in Tasks : rev[u] # 0 \/ u = t => rev'[u] # 0

\* A write replaces one entry and raises its revision.
LEMMA WriteEffect ==
    ASSUME TypeOK, NEW t \in Tasks, NEW cp \in Checkpoint \cup {NoCheckpoint}, Write(t, cp)
    PROVE  Writes(t, cp)
<1>1. \A u \in Tasks : rev'[u] = IF u = t THEN rev[u] + 1 ELSE rev[u] BY DEF TypeOK, Write
<1>2. rev' \in [Tasks -> Nat] BY DEF TypeOK, Write
<1>3. bucket' \in [Tasks -> Checkpoint \cup {NoCheckpoint}] BY DEF TypeOK, Write
<1>4. \A u \in Tasks : rev[u] # 0 \/ u = t => rev'[u] # 0 BY <1>1 DEF TypeOK
<1> QED BY <1>2, <1>3, <1>4 DEF Writes, Write, TypeOK

Deletes(t) ==
    /\ bucket' \in [Tasks -> Checkpoint \cup {NoCheckpoint}]
    /\ rev' \in [Tasks -> Nat]
    /\ \A u \in Tasks : bucket'[u] = bucket[u] \/ (u = t /\ bucket'[u] = NoCheckpoint)
    /\ \A u \in Tasks : rev[u] # 0 => rev'[u] # 0

\* A deletion removes one entry, or nothing when it fails, and never a revision.
LEMMA DeleteEffect ==
    ASSUME TypeOK, NEW t \in Tasks, DeleteCheckpoint(t) PROVE Deletes(t)
<1>1. CASE Write(t, NoCheckpoint) BY <1>1, WriteEffect DEF Writes, Deletes
<1>2. CASE UNCHANGED kv BY <1>2 DEF Deletes, kv, TypeOK
<1> QED BY <1>1, <1>2 DEF DeleteCheckpoint

Publishes(t, e) ==
    /\ log' \in [Tasks -> Seq(Outputs \cup {"failed", "manual"})]
    /\ faults' \in SUBSET Tasks /\ faults \subseteq faults'
    /\ log'[t] # <<>> \/ t \in faults'
    /\ \A u \in Tasks : log[u] # <<>> => log'[u] # <<>>
    /\ \A u \in Tasks : \A i \in DOMAIN log'[u] :
         \/ u = t /\ log'[u][i] = e
         \/ i \in DOMAIN log[u] /\ log'[u][i] = log[u][i]

\* An event is appended to one task's log, or the task is among the faults.
LEMMA PublishEffect ==
    ASSUME TypeOK, NEW t \in Tasks, NEW e \in Outputs \cup {"failed", "manual"},
           PublishEvent(t, e)
    PROVE  Publishes(t, e)
<1> DEFINE E == Outputs \cup {"failed", "manual"}
<1>1. CASE log' = [log EXCEPT ![t] = Append(log[t], e)] /\ UNCHANGED faults
  <2>1. log[t] \in Seq(E) BY DEF TypeOK
  <2>2. /\ Append(log[t], e) \in Seq(E)
        /\ Len(Append(log[t], e)) = Len(log[t]) + 1
        /\ \A i \in 1..Len(log[t]) : Append(log[t], e)[i] = log[t][i]
        /\ Append(log[t], e)[Len(log[t]) + 1] = e
    BY <2>1, AppendProperties
  <2> HIDE DEF E
  <2>3. DOMAIN log[t] = 1..Len(log[t]) /\ Len(log[t]) \in Nat BY <2>1
  <2>4. DOMAIN Append(log[t], e) = 1..(Len(log[t]) + 1) BY <2>2, <2>3
  <2>5. \A i \in DOMAIN Append(log[t], e) :
          \/ Append(log[t], e)[i] = e
          \/ i \in DOMAIN log[t] /\ Append(log[t], e)[i] = log[t][i]
    BY <2>2, <2>3, <2>4
  <2>6. Append(log[t], e) # <<>> BY <2>3, <2>4
  <2>7. log \in [Tasks -> Seq(E)] BY DEF TypeOK, E
  <2>8. log' \in [Tasks -> Seq(E)] BY <1>1, <2>2, <2>7
  <2>9. log'[t] = Append(log[t], e) /\ \A u \in Tasks \ {t} : log'[u] = log[u]
    BY <1>1, <2>7
  <2> QED BY <1>1, <2>5, <2>6, <2>8, <2>9 DEF Publishes, TypeOK, E
<1>2. CASE faults' = faults \cup {t} /\ UNCHANGED log BY <1>2 DEF Publishes, TypeOK
<1> QED BY <1>1, <1>2 DEF PublishEvent

\* A claimed copy differs from the one that was read in its owner only.
LEMMA ClaimedCopy ==
    ASSUME TypeOK, HoldersAgree, NEW n \in Nodes, NEW t \in Tasks, job[n][t] = "claim"
    PROVE  /\ Claimed(n, t) \in Checkpoint
           /\ Claimed(n, t).output = verdict[t]
           /\ Claimed(n, t).owner = <<n, pid[n]>>
           /\ copy[n][t].lease = 0
<1>1. copy[n][t] \in Checkpoint /\ copy[n][t].output = verdict[t]
  BY DEF HoldersAgree, Holding
<1>2. <<n, pid[n]>> \in Nodes \X Pids BY DEF TypeOK
<1> QED BY <1>1, <1>2 DEF Checkpoint, Claimed, Id

\* What a future writes or publishes is a checkpoint with the engine's output.
LEMMA HeldCopy ==
    ASSUME TypeOK, HoldersAgree, NEW n \in Nodes, NEW t \in Tasks,
           job[n][t] \in {"checkpoint", "publish"}
    PROVE  /\ copy[n][t] \in Checkpoint
           /\ copy[n][t].output = verdict[t]
           /\ verdict[t] \in Outputs
BY DEF HoldersAgree, Holding, Checkpoint

-----------------------------------------------------------------------------
\* Types hold because a future that publishes holds a checkpoint with an output.
LEMMA TypeStep == IInv /\ [Next]_vars => TypeOK'
<1> SUFFICES ASSUME IInv, [Next]_vars PROVE TypeOK' OBVIOUS
<1> USE RecoveryAssumption DEF IInv, TypeOK
<1>1. ASSUME NEW n \in Nodes, NEW t \in Tasks, EngineResolves(n, t) PROVE TypeOK'
  <2>1. store' \in [Nodes -> [Tasks -> Status]]
    <3>1. PICK status \in {store[n][t], "active", "resolved"} : store' = Set(store, n, t, status)
      BY <1>1 DEF EngineResolves
    <3>2. store[n][t] \in Status OBVIOUS
    <3>3. status \in Status BY <3>1, <3>2 DEF Status
    <3> QED BY <3>1, <3>3 DEF Set
  <2> QED
    BY <1>1, <2>1 DEF EngineResolves, Id, Set, JobState, Status, Checkpoint,
      NoCheckpoint, Concluded, HoldersAgree, Holding, kv, local, ghosts, counts
<1>2. ASSUME NEW n \in Nodes, NEW t \in Tasks, EngineFails(n, t) PROVE TypeOK'
  <2>1. store' \in [Nodes -> [Tasks -> Status]]
    <3>1. PICK status \in {store[n][t], "active", "failed"} : store' = Set(store, n, t, status)
      BY <1>2 DEF EngineFails
    <3>2. store[n][t] \in Status OBVIOUS
    <3>3. status \in Status BY <3>1, <3>2 DEF Status
    <3> QED BY <3>1, <3>3 DEF Set
  <2> QED
    BY <1>2, <2>1 DEF EngineFails, Set, JobState, Status, Checkpoint,
      NoCheckpoint, Concluded, HoldersAgree, Holding, kv, local, ghosts, counts
<1> USE DEF JobState, Status, Checkpoint, NoCheckpoint, Concluded, HoldersAgree, Holding,
      kv, local, ghosts, counts
<1>3. ASSUME NEW n \in Nodes, Start(n) PROVE TypeOK'
  BY <1>3 DEF Start
<1>4. ASSUME NEW n \in Nodes, Bind(n) PROVE TypeOK'
  BY <1>4 DEF Bind
<1>5. ASSUME NEW n \in Nodes, Crash(n) PROVE TypeOK'
  BY <1>5 DEF Crash
<1>6. ASSUME NEW n \in Nodes, NEW t \in Tasks, EngineStarts(n, t) PROVE TypeOK'
  BY <1>6 DEF EngineStarts, Set
<1>7. ASSUME NEW n \in Nodes, NEW t \in Tasks, DecompositionFails(n, t) PROVE TypeOK'
  BY <1>7 DEF DecompositionFails, Set
<1>8. ASSUME NEW n \in Nodes, NEW t \in Tasks, PutCheckpoint(n, t) PROVE TypeOK'
  BY <1>8, WriteEffect, HeldCopy DEF PutCheckpoint, Set, Writes
<1>9. ASSUME NEW n \in Nodes, NEW t \in Tasks, CheckpointUnwritten(n, t) PROVE TypeOK'
  BY <1>9 DEF CheckpointUnwritten, Set
<1>10. ASSUME NEW n \in Nodes, NEW t \in Tasks, Publish(n, t) PROVE TypeOK'
  BY <1>10, PublishEffect, HeldCopy DEF Publish, Set, Mark, Publishes
<1>11. ASSUME NEW n \in Nodes, NEW t \in Tasks, Collect(n, t) PROVE TypeOK'
  BY <1>11, DeleteEffect DEF Collect, End, Set, Deletes
<1>12. ASSUME NEW n \in Nodes, NEW t \in Tasks, PublishFailed(n, t) PROVE TypeOK'
  BY <1>12, PublishEffect DEF PublishFailed, Set, Publishes
<1>13. ASSUME NEW n \in Nodes, NEW t \in Tasks, PublishEarlyFailure(n, t) PROVE TypeOK'
  BY <1>13, PublishEffect DEF PublishEarlyFailure, Mark, End, Set, Publishes
<1>14. ASSUME NEW n \in Nodes, NEW t \in Tasks, CollectFailed(n, t) PROVE TypeOK'
  BY <1>14, DeleteEffect DEF CollectFailed, Mark, End, Set, Deletes
<1>15. ASSUME NEW n \in Nodes, NEW t \in Tasks, Read(n, t) PROVE TypeOK'
  BY <1>15 DEF Read, Id, Set
<1>16. ASSUME NEW n \in Nodes, NEW t \in Tasks, SkipEntry(n, t) PROVE TypeOK'
  BY <1>16 DEF SkipEntry, End, Set
<1>17. ASSUME NEW n \in Nodes, NEW t \in Tasks, WinClaim(n, t) PROVE TypeOK'
  BY <1>17, WriteEffect, ClaimedCopy DEF WinClaim, Set, RevisionMatches, Id, Writes
<1>18. ASSUME NEW n \in Nodes, NEW t \in Tasks, LoseClaim(n, t) PROVE TypeOK'
  BY <1>18 DEF LoseClaim, End, RevisionMatches, Set
<1>19. ASSUME NEW n \in Nodes, NEW t \in Tasks, ClaimError(n, t) PROVE TypeOK'
  BY <1>19 DEF ClaimError, End, Set
<1>20. ASSUME NEW n \in Nodes, NEW t \in Tasks, ParseManifest(n, t) PROVE TypeOK'
  BY <1>20 DEF ParseManifest, Set
<1>21. ASSUME NEW n \in Nodes, NEW t \in Tasks, DropUnreadable(n, t) PROVE TypeOK'
  BY <1>21, DeleteEffect DEF DropUnreadable, End, Set, Deletes
<1>22. ASSUME NEW n \in Nodes, NEW t \in Tasks, TerminalGuard(n, t) PROVE TypeOK'
  BY <1>22, DeleteEffect DEF TerminalGuard, End, Set, Deletes
<1>23. ASSUME NEW n \in Nodes, NEW t \in Tasks, Resume(n, t) PROVE TypeOK'
  BY <1>23 DEF Resume, Set, Mark, Restored
<1>24. ASSUME NEW n \in Nodes, NEW t \in Tasks, Submit(n, t) PROVE TypeOK'
  BY <1>24 DEF Submit, Set
<1>25. ASSUME NEW n \in Nodes, NEW t \in Tasks, TailBreaks(n, t) PROVE TypeOK'
  BY <1>25 DEF TailBreaks, Set
<1>26. ASSUME NEW n \in Nodes, NEW t \in Tasks, Uncalibrated(n, t) PROVE TypeOK'
  BY <1>26 DEF Uncalibrated, Set, End
<1>27. ASSUME NEW n \in Nodes, NEW t \in Tasks, MergeCheck(n, t) PROVE TypeOK'
  BY <1>27 DEF MergeCheck, Set
<1>28. ASSUME NEW n \in Nodes, NEW t \in Tasks, MergePublish(n, t) PROVE TypeOK'
  BY <1>28, PublishEffect DEF MergePublish, Set, Publishes
<1>29. ASSUME NEW n \in Nodes, NEW t \in Tasks, MergeUnavailable(n, t) PROVE TypeOK'
  BY <1>29 DEF MergeUnavailable, Set
<1>30. ASSUME NEW n \in Nodes, NEW t \in Tasks, MergeMark(n, t) PROVE TypeOK'
  BY <1>30 DEF MergeMark, Set, Mark
<1>31. ASSUME NEW n \in Nodes, NEW t \in Tasks, Follow(n, t) PROVE TypeOK'
  BY <1>31 DEF Follow, Mark, Set
<1>32. ASSUME NEW t \in Tasks, Expire(t) PROVE TypeOK'
  BY <1>32 DEF Expire
<1>33. CASE UNCHANGED vars
  BY <1>33 DEF vars
<1> HIDE DEF JobState, Status, Checkpoint, NoCheckpoint, Concluded, HoldersAgree, Holding,
      kv, local, ghosts, counts
<1> QED
  BY <1>1, <1>2, <1>3, <1>4, <1>5, <1>6, <1>7, <1>8, <1>9, <1>10, <1>11, <1>12, <1>13,
      <1>14, <1>15, <1>16, <1>17, <1>18, <1>19, <1>20, <1>21, <1>22, <1>23, <1>24, <1>25,
      <1>26, <1>27, <1>28, <1>29, <1>30, <1>31, <1>32, <1>33
     DEF Next, PipelineStep, RecoveryStep, Environment

-----------------------------------------------------------------------------
\* Every copy of an output is the one the engine concluded.
LEMMA ConcludedStep == IInv /\ [Next]_vars => Concluded'
<1> SUFFICES ASSUME IInv, [Next]_vars PROVE Concluded' OBVIOUS
<1> USE RecoveryAssumption DEF IInv, TypeOK
<1>1. ASSUME NEW n \in Nodes, NEW t \in Tasks, PutCheckpoint(n, t) PROVE Concluded'
  <2>1. BucketAgrees'
    <3>1. Writes(t, copy[n][t]) BY <1>1, HeldCopy, WriteEffect DEF PutCheckpoint, Concluded
    <3>2. copy[n][t].output = verdict[t] BY <1>1, HeldCopy DEF PutCheckpoint, Concluded
    <3>3. verdict' = verdict BY <1>1 DEF PutCheckpoint
    <3> QED BY <3>1, <3>2, <3>3 DEF Writes, BucketAgrees, Concluded
  <2> QED
    BY <1>1, WriteEffect, HeldCopy, <2>1 DEF PutCheckpoint, Set, Writes,
      BucketAgrees, Checkpoint, Concluded, DecidersPending, Deciding, FailersFailed,
      Failing, HoldersAgree, Holding, NoCheckpoint, OneDecider, Undecided, UndecidedClean,
      UndecidedIdle, kv, local, ghosts, counts
<1>2. ASSUME NEW n \in Nodes, NEW t \in Tasks, Publish(n, t) PROVE Concluded'
  <2>1. UndecidedClean'
    <3>1. verdict[t] \in Outputs /\ copy[n][t].output = verdict[t]
      BY <1>2, HeldCopy DEF Publish, Concluded
    <3>2. Publishes(t, copy[n][t].output) BY <1>2, <3>1, PublishEffect DEF Publish
    <3>3. verdict' = verdict /\ bucket' = bucket BY <1>2 DEF Publish, kv
    <3>4. verdict[t] \notin Undecided BY <3>1 DEF Undecided
    <3>5. SUFFICES ASSUME NEW u \in Tasks, verdict[u] \in Undecided, NEW i \in DOMAIN log'[u]
                   PROVE  log'[u][i] = "manual"
      BY <3>3 DEF UndecidedClean, Concluded
    <3>6. i \in DOMAIN log[u] /\ log'[u][i] = log[u][i] BY <3>2, <3>4, <3>5 DEF Publishes
    <3> QED BY <3>5, <3>6 DEF UndecidedClean, Concluded
  <2> QED
    BY <1>2, PublishEffect, HeldCopy, <2>1 DEF Publish, Set, Mark, Publishes,
      BucketAgrees, Checkpoint, Concluded, DecidersPending, Deciding, FailersFailed,
      Failing, HoldersAgree, Holding, NoCheckpoint, OneDecider, Undecided, UndecidedClean,
      UndecidedIdle, kv, local, ghosts, counts
<1>3. ASSUME NEW n \in Nodes, NEW t \in Tasks, PublishFailed(n, t) PROVE Concluded'
  <2>1. UndecidedClean'
    <3>1. verdict[t] = "failed" BY <1>3 DEF PublishFailed, Concluded, FailersFailed, Failing
    <3>2. Publishes(t, "failed") BY <1>3, PublishEffect DEF PublishFailed
    <3>3. verdict' = verdict /\ bucket' = bucket BY <1>3 DEF PublishFailed, kv
    <3>4. verdict[t] \notin Undecided BY <3>1 DEF Undecided
    <3>5. SUFFICES ASSUME NEW u \in Tasks, verdict[u] \in Undecided, NEW i \in DOMAIN log'[u]
                   PROVE  log'[u][i] = "manual"
      BY <3>3 DEF UndecidedClean, Concluded
    <3>6. i \in DOMAIN log[u] /\ log'[u][i] = log[u][i] BY <3>2, <3>4, <3>5 DEF Publishes
    <3> QED BY <3>5, <3>6 DEF UndecidedClean, Concluded
  <2> QED
    BY <1>3, PublishEffect, <2>1 DEF PublishFailed, Set, Publishes, BucketAgrees,
      Checkpoint, Concluded, DecidersPending, Deciding, FailersFailed, Failing,
      HoldersAgree, Holding, NoCheckpoint, OneDecider, Undecided, UndecidedClean,
      UndecidedIdle, kv, local, ghosts, counts
<1>4. ASSUME NEW n \in Nodes, NEW t \in Tasks, PublishEarlyFailure(n, t) PROVE Concluded'
  <2>1. UndecidedClean'
    <3>1. verdict[t] = "failed" BY <1>4 DEF PublishEarlyFailure, Concluded, FailersFailed, Failing
    <3>2. Publishes(t, "failed") BY <1>4, PublishEffect DEF PublishEarlyFailure
    <3>3. verdict' = verdict /\ bucket' = bucket BY <1>4 DEF PublishEarlyFailure, kv
    <3>4. verdict[t] \notin Undecided BY <3>1 DEF Undecided
    <3>5. SUFFICES ASSUME NEW u \in Tasks, verdict[u] \in Undecided, NEW i \in DOMAIN log'[u]
                   PROVE  log'[u][i] = "manual"
      BY <3>3 DEF UndecidedClean, Concluded
    <3>6. i \in DOMAIN log[u] /\ log'[u][i] = log[u][i] BY <3>2, <3>4, <3>5 DEF Publishes
    <3> QED BY <3>5, <3>6 DEF UndecidedClean, Concluded
  <2> QED
    BY <1>4, PublishEffect, <2>1 DEF PublishEarlyFailure, Mark, End, Set,
      Publishes, BucketAgrees, Checkpoint, Concluded, DecidersPending, Deciding,
      FailersFailed, Failing, HoldersAgree, Holding, NoCheckpoint, OneDecider, Undecided,
      UndecidedClean, UndecidedIdle, kv, local, ghosts, counts
<1>5. ASSUME NEW n \in Nodes, NEW t \in Tasks, WinClaim(n, t) PROVE Concluded'
  <2>1. UndecidedClean'
    <3>1. Claimed(n, t) \in Checkpoint /\ Claimed(n, t).output = verdict[t]
      BY <1>5, ClaimedCopy DEF WinClaim, Concluded
    <3>2. Writes(t, Claimed(n, t)) BY <1>5, <3>1, WriteEffect DEF WinClaim
    <3>3. UNCHANGED <<log, ghosts>> BY <1>5 DEF WinClaim
    <3>4. verdict[t] \in Outputs BY <3>1 DEF Checkpoint
    <3>5. verdict[t] \notin Undecided BY <3>4 DEF Undecided
    <3> QED BY <3>2, <3>3, <3>5 DEF Writes, UndecidedClean, Concluded, ghosts
  <2>2. BucketAgrees'
    <3>1. Claimed(n, t) \in Checkpoint /\ Claimed(n, t).output = verdict[t]
      BY <1>5, ClaimedCopy DEF WinClaim, Concluded
    <3>2. Writes(t, Claimed(n, t)) BY <1>5, <3>1, WriteEffect DEF WinClaim
    <3>3. UNCHANGED <<log, ghosts>> BY <1>5 DEF WinClaim
    <3>4. verdict[t] \in Outputs BY <3>1 DEF Checkpoint
    <3> QED BY <3>1, <3>2, <3>3 DEF Writes, BucketAgrees, Concluded, ghosts
  <2> QED
    BY <1>5, WriteEffect, ClaimedCopy, <2>1, <2>2 DEF WinClaim, Set,
      RevisionMatches, Id, Writes, BucketAgrees, Checkpoint, Concluded, DecidersPending,
      Deciding, FailersFailed, Failing, HoldersAgree, Holding, NoCheckpoint, OneDecider,
      Undecided, UndecidedClean, UndecidedIdle, kv, local, ghosts, counts
<1> USE DEF BucketAgrees, Checkpoint, Concluded, DecidersPending, Deciding, FailersFailed,
      Failing, HoldersAgree, Holding, NoCheckpoint, OneDecider, Undecided, UndecidedClean,
      UndecidedIdle, kv, local, ghosts, counts
<1>6. ASSUME NEW n \in Nodes, Start(n) PROVE Concluded'
  BY <1>6 DEF Start
<1>7. ASSUME NEW n \in Nodes, Bind(n) PROVE Concluded'
  BY <1>7 DEF Bind
<1>8. ASSUME NEW n \in Nodes, Crash(n) PROVE Concluded'
  BY <1>8 DEF Crash
<1>9. ASSUME NEW n \in Nodes, NEW t \in Tasks, EngineStarts(n, t) PROVE Concluded'
  BY <1>9 DEF EngineStarts, Set
<1>10. ASSUME NEW n \in Nodes, NEW t \in Tasks, DecompositionFails(n, t) PROVE Concluded'
  BY <1>10 DEF DecompositionFails, Set
<1>11. ASSUME NEW n \in Nodes, NEW t \in Tasks, EngineResolves(n, t) PROVE Concluded'
  BY <1>11 DEF EngineResolves, Id, Set
<1>12. ASSUME NEW n \in Nodes, NEW t \in Tasks, EngineFails(n, t) PROVE Concluded'
  BY <1>12 DEF EngineFails, Set
<1>13. ASSUME NEW n \in Nodes, NEW t \in Tasks, CheckpointUnwritten(n, t) PROVE Concluded'
  BY <1>13 DEF CheckpointUnwritten, Set
<1>14. ASSUME NEW n \in Nodes, NEW t \in Tasks, Collect(n, t) PROVE Concluded'
  <2>1. Deletes(t)
    BY <1>14, DeleteEffect DEF Collect
  <2> QED
    BY <1>14, <2>1 DEF Collect, End, Set, Deletes
<1>15. ASSUME NEW n \in Nodes, NEW t \in Tasks, CollectFailed(n, t) PROVE Concluded'
  BY <1>15, DeleteEffect DEF CollectFailed, Mark, End, Set, Deletes
<1>16. ASSUME NEW n \in Nodes, NEW t \in Tasks, Read(n, t) PROVE Concluded'
  BY <1>16 DEF Read, Id, Set
<1>17. ASSUME NEW n \in Nodes, NEW t \in Tasks, SkipEntry(n, t) PROVE Concluded'
  BY <1>17 DEF SkipEntry, End, Set
<1>18. ASSUME NEW n \in Nodes, NEW t \in Tasks, LoseClaim(n, t) PROVE Concluded'
  BY <1>18 DEF LoseClaim, End, RevisionMatches, Set
<1>19. ASSUME NEW n \in Nodes, NEW t \in Tasks, ClaimError(n, t) PROVE Concluded'
  BY <1>19 DEF ClaimError, End, Set
<1>20. ASSUME NEW n \in Nodes, NEW t \in Tasks, ParseManifest(n, t) PROVE Concluded'
  BY <1>20 DEF ParseManifest, Set
<1>21. ASSUME NEW n \in Nodes, NEW t \in Tasks, DropUnreadable(n, t) PROVE Concluded'
  BY <1>21, DeleteEffect DEF DropUnreadable, End, Set, Deletes
<1>22. ASSUME NEW n \in Nodes, NEW t \in Tasks, TerminalGuard(n, t) PROVE Concluded'
  BY <1>22, DeleteEffect DEF TerminalGuard, End, Set, Deletes
<1>23. ASSUME NEW n \in Nodes, NEW t \in Tasks, Resume(n, t) PROVE Concluded'
  BY <1>23 DEF Resume, Set, Mark, Restored
<1>24. ASSUME NEW n \in Nodes, NEW t \in Tasks, Submit(n, t) PROVE Concluded'
  BY <1>24 DEF Submit, Set
<1>25. ASSUME NEW n \in Nodes, NEW t \in Tasks, TailBreaks(n, t) PROVE Concluded'
  BY <1>25 DEF TailBreaks, Set
<1>26. ASSUME NEW n \in Nodes, NEW t \in Tasks, Uncalibrated(n, t) PROVE Concluded'
  BY <1>26 DEF Uncalibrated, Set, End
<1>27. ASSUME NEW n \in Nodes, NEW t \in Tasks, MergeCheck(n, t) PROVE Concluded'
  BY <1>27 DEF MergeCheck, Set
<1>28. ASSUME NEW n \in Nodes, NEW t \in Tasks, MergePublish(n, t) PROVE Concluded'
  BY <1>28, PublishEffect DEF MergePublish, Set, Publishes
<1>29. ASSUME NEW n \in Nodes, NEW t \in Tasks, MergeUnavailable(n, t) PROVE Concluded'
  BY <1>29 DEF MergeUnavailable, Set
<1>30. ASSUME NEW n \in Nodes, NEW t \in Tasks, MergeMark(n, t) PROVE Concluded'
  BY <1>30 DEF MergeMark, Set, Mark
<1>31. ASSUME NEW n \in Nodes, NEW t \in Tasks, Follow(n, t) PROVE Concluded'
  BY <1>31 DEF Follow, Mark, Set
<1>32. ASSUME NEW t \in Tasks, Expire(t) PROVE Concluded'
  BY <1>32 DEF Expire
<1>33. CASE UNCHANGED vars
  BY <1>33 DEF vars
<1> HIDE DEF BucketAgrees, Checkpoint, Concluded, DecidersPending, Deciding, FailersFailed,
      Failing, HoldersAgree, Holding, NoCheckpoint, OneDecider, Undecided, UndecidedClean,
      UndecidedIdle, kv, local, ghosts, counts
<1> QED
  BY <1>1, <1>2, <1>3, <1>4, <1>5, <1>6, <1>7, <1>8, <1>9, <1>10, <1>11, <1>12, <1>13,
      <1>14, <1>15, <1>16, <1>17, <1>18, <1>19, <1>20, <1>21, <1>22, <1>23, <1>24, <1>25,
      <1>26, <1>27, <1>28, <1>29, <1>30, <1>31, <1>32, <1>33
     DEF Next, PipelineStep, RecoveryStep, Environment

-----------------------------------------------------------------------------
\* Reports are what the copies say.
LEMMA ReportsStep == IInv /\ [Next]_vars => ReportsAgree'
<1> SUFFICES ASSUME IInv, [Next]_vars PROVE ReportsAgree' OBVIOUS
<1> USE RecoveryAssumption DEF IInv, TypeOK
<1>1. ASSUME NEW n \in Nodes, NEW t \in Tasks, Publish(n, t) PROVE ReportsAgree'
  <2>1. ReportsAgree'
    <3>1. verdict[t] \in Outputs /\ copy[n][t].output = verdict[t]
      BY <1>1, HeldCopy DEF Publish, Concluded
    <3>2. Publishes(t, copy[n][t].output) BY <1>1, <3>1, PublishEffect DEF Publish
    <3>3. verdict' = verdict /\ bucket' = bucket BY <1>1 DEF Publish, kv
    <3>4. SUFFICES ASSUME NEW u \in Tasks, NEW i \in DOMAIN log'[u]
                   PROVE  log'[u][i] \in {verdict[u], "manual"}
      BY <3>3 DEF ReportsAgree
    <3>5. CASE log'[u][i] = copy[n][t].output /\ u = t BY <3>1, <3>5
    <3>6. CASE i \in DOMAIN log[u] /\ log'[u][i] = log[u][i] BY <3>6 DEF ReportsAgree
    <3> QED BY <3>2, <3>5, <3>6 DEF Publishes
  <2> QED BY <2>1 DEF ReportsAgree
<1>2. ASSUME NEW n \in Nodes, NEW t \in Tasks, PublishFailed(n, t) PROVE ReportsAgree'
  <2>1. ReportsAgree'
    <3>1. verdict[t] = "failed" BY <1>2 DEF PublishFailed, Concluded, FailersFailed, Failing
    <3>2. Publishes(t, "failed") BY <1>2, PublishEffect DEF PublishFailed
    <3>3. verdict' = verdict /\ bucket' = bucket BY <1>2 DEF PublishFailed, kv
    <3>4. SUFFICES ASSUME NEW u \in Tasks, NEW i \in DOMAIN log'[u]
                   PROVE  log'[u][i] \in {verdict[u], "manual"}
      BY <3>3 DEF ReportsAgree
    <3>5. CASE log'[u][i] = "failed" /\ u = t BY <3>1, <3>5
    <3>6. CASE i \in DOMAIN log[u] /\ log'[u][i] = log[u][i] BY <3>6 DEF ReportsAgree
    <3> QED BY <3>2, <3>5, <3>6 DEF Publishes
  <2> QED BY <2>1 DEF ReportsAgree
<1>3. ASSUME NEW n \in Nodes, NEW t \in Tasks, PublishEarlyFailure(n, t) PROVE ReportsAgree'
  <2>1. ReportsAgree'
    <3>1. verdict[t] = "failed" BY <1>3 DEF PublishEarlyFailure, Concluded, FailersFailed, Failing
    <3>2. Publishes(t, "failed") BY <1>3, PublishEffect DEF PublishEarlyFailure
    <3>3. verdict' = verdict /\ bucket' = bucket BY <1>3 DEF PublishEarlyFailure, kv
    <3>4. SUFFICES ASSUME NEW u \in Tasks, NEW i \in DOMAIN log'[u]
                   PROVE  log'[u][i] \in {verdict[u], "manual"}
      BY <3>3 DEF ReportsAgree
    <3>5. CASE log'[u][i] = "failed" /\ u = t BY <3>1, <3>5
    <3>6. CASE i \in DOMAIN log[u] /\ log'[u][i] = log[u][i] BY <3>6 DEF ReportsAgree
    <3> QED BY <3>2, <3>5, <3>6 DEF Publishes
  <2> QED BY <2>1 DEF ReportsAgree
<1> USE DEF Concluded, DecidersPending, Deciding, FailersFailed, Failing, HoldersAgree,
      Holding, NoCheckpoint, ReportsAgree, Undecided, UndecidedClean, kv, local, ghosts,
      counts
<1>4. ASSUME NEW n \in Nodes, Start(n) PROVE ReportsAgree'
  BY <1>4 DEF Start
<1>5. ASSUME NEW n \in Nodes, Bind(n) PROVE ReportsAgree'
  BY <1>5 DEF Bind
<1>6. ASSUME NEW n \in Nodes, Crash(n) PROVE ReportsAgree'
  BY <1>6 DEF Crash
<1>7. ASSUME NEW n \in Nodes, NEW t \in Tasks, EngineStarts(n, t) PROVE ReportsAgree'
  BY <1>7 DEF EngineStarts, Set
<1>8. ASSUME NEW n \in Nodes, NEW t \in Tasks, DecompositionFails(n, t) PROVE ReportsAgree'
  BY <1>8 DEF DecompositionFails, Set
<1>9. ASSUME NEW n \in Nodes, NEW t \in Tasks, EngineResolves(n, t) PROVE ReportsAgree'
  BY <1>9 DEF EngineResolves, Id, Set
<1>10. ASSUME NEW n \in Nodes, NEW t \in Tasks, EngineFails(n, t) PROVE ReportsAgree'
  BY <1>10 DEF EngineFails, Set
<1>11. ASSUME NEW n \in Nodes, NEW t \in Tasks, PutCheckpoint(n, t) PROVE ReportsAgree'
  BY <1>11, WriteEffect, HeldCopy DEF PutCheckpoint, Set, Writes
<1>12. ASSUME NEW n \in Nodes, NEW t \in Tasks, CheckpointUnwritten(n, t) PROVE ReportsAgree'
  BY <1>12 DEF CheckpointUnwritten, Set
<1>13. ASSUME NEW n \in Nodes, NEW t \in Tasks, Collect(n, t) PROVE ReportsAgree'
  BY <1>13, DeleteEffect DEF Collect, End, Set, Deletes
<1>14. ASSUME NEW n \in Nodes, NEW t \in Tasks, CollectFailed(n, t) PROVE ReportsAgree'
  BY <1>14, DeleteEffect DEF CollectFailed, Mark, End, Set, Deletes
<1>15. ASSUME NEW n \in Nodes, NEW t \in Tasks, Read(n, t) PROVE ReportsAgree'
  BY <1>15 DEF Read, Id, Set
<1>16. ASSUME NEW n \in Nodes, NEW t \in Tasks, SkipEntry(n, t) PROVE ReportsAgree'
  BY <1>16 DEF SkipEntry, End, Set
<1>17. ASSUME NEW n \in Nodes, NEW t \in Tasks, WinClaim(n, t) PROVE ReportsAgree'
  BY <1>17, WriteEffect, ClaimedCopy DEF WinClaim, Set, RevisionMatches, Id, Writes
<1>18. ASSUME NEW n \in Nodes, NEW t \in Tasks, LoseClaim(n, t) PROVE ReportsAgree'
  BY <1>18 DEF LoseClaim, End, RevisionMatches, Set
<1>19. ASSUME NEW n \in Nodes, NEW t \in Tasks, ClaimError(n, t) PROVE ReportsAgree'
  BY <1>19 DEF ClaimError, End, Set
<1>20. ASSUME NEW n \in Nodes, NEW t \in Tasks, ParseManifest(n, t) PROVE ReportsAgree'
  BY <1>20 DEF ParseManifest, Set
<1>21. ASSUME NEW n \in Nodes, NEW t \in Tasks, DropUnreadable(n, t) PROVE ReportsAgree'
  BY <1>21, DeleteEffect DEF DropUnreadable, End, Set, Deletes
<1>22. ASSUME NEW n \in Nodes, NEW t \in Tasks, TerminalGuard(n, t) PROVE ReportsAgree'
  BY <1>22, DeleteEffect DEF TerminalGuard, End, Set, Deletes
<1>23. ASSUME NEW n \in Nodes, NEW t \in Tasks, Resume(n, t) PROVE ReportsAgree'
  BY <1>23 DEF Resume, Set, Mark, Restored
<1>24. ASSUME NEW n \in Nodes, NEW t \in Tasks, Submit(n, t) PROVE ReportsAgree'
  BY <1>24 DEF Submit, Set
<1>25. ASSUME NEW n \in Nodes, NEW t \in Tasks, TailBreaks(n, t) PROVE ReportsAgree'
  BY <1>25 DEF TailBreaks, Set
<1>26. ASSUME NEW n \in Nodes, NEW t \in Tasks, Uncalibrated(n, t) PROVE ReportsAgree'
  BY <1>26 DEF Uncalibrated, Set, End
<1>27. ASSUME NEW n \in Nodes, NEW t \in Tasks, MergeCheck(n, t) PROVE ReportsAgree'
  BY <1>27 DEF MergeCheck, Set
<1>28. ASSUME NEW n \in Nodes, NEW t \in Tasks, MergePublish(n, t) PROVE ReportsAgree'
  BY <1>28, PublishEffect DEF MergePublish, Set, Publishes
<1>29. ASSUME NEW n \in Nodes, NEW t \in Tasks, MergeUnavailable(n, t) PROVE ReportsAgree'
  BY <1>29 DEF MergeUnavailable, Set
<1>30. ASSUME NEW n \in Nodes, NEW t \in Tasks, MergeMark(n, t) PROVE ReportsAgree'
  BY <1>30 DEF MergeMark, Set, Mark
<1>31. ASSUME NEW n \in Nodes, NEW t \in Tasks, Follow(n, t) PROVE ReportsAgree'
  BY <1>31 DEF Follow, Mark, Set
<1>32. ASSUME NEW t \in Tasks, Expire(t) PROVE ReportsAgree'
  BY <1>32 DEF Expire
<1>33. CASE UNCHANGED vars
  BY <1>33 DEF vars
<1> HIDE DEF Concluded, DecidersPending, Deciding, FailersFailed, Failing, HoldersAgree,
      Holding, NoCheckpoint, ReportsAgree, Undecided, UndecidedClean, kv, local, ghosts,
      counts
<1> QED
  BY <1>1, <1>2, <1>3, <1>4, <1>5, <1>6, <1>7, <1>8, <1>9, <1>10, <1>11, <1>12, <1>13,
      <1>14, <1>15, <1>16, <1>17, <1>18, <1>19, <1>20, <1>21, <1>22, <1>23, <1>24, <1>25,
      <1>26, <1>27, <1>28, <1>29, <1>30, <1>31, <1>32, <1>33
     DEF Next, PipelineStep, RecoveryStep, Environment

-----------------------------------------------------------------------------
\* A checkpoint is deleted only after its report was attempted.
LEMMA BackedStep == IInv /\ [Next]_vars => Backed'
<1> SUFFICES ASSUME IInv, [Next]_vars PROVE Backed' OBVIOUS
<1> USE RecoveryAssumption DEF IInv, TypeOK
<1>1. ASSUME NEW n \in Nodes, NEW t \in Tasks, WinClaim(n, t) PROVE Backed'
  <2>1. CheckpointOrReport'
    <3>1. Claimed(n, t) \in Checkpoint /\ Claimed(n, t).output = verdict[t]
      BY <1>1, ClaimedCopy DEF WinClaim, Concluded
    <3>2. Writes(t, Claimed(n, t)) BY <1>1, <3>1, WriteEffect DEF WinClaim
    <3>3. UNCHANGED <<log, ghosts>> BY <1>1 DEF WinClaim
    <3>4. verdict[t] \in Outputs BY <3>1 DEF Checkpoint
    <3>5. Claimed(n, t) # NoCheckpoint BY <3>1, <3>4 DEF NoCheckpoint
    <3> QED BY <3>2, <3>3, <3>5 DEF Writes, CheckpointOrReport, Backed, ghosts
  <2> QED
    BY <1>1, WriteEffect, ClaimedCopy, <2>1 DEF WinClaim, Set, RevisionMatches,
      Id, Writes, Attempted, Backed, CheckpointOrReport, CollectorsTried, Concluded,
      MergersTried, NoCheckpoint, kv, local, ghosts, counts
<1> USE DEF Attempted, Backed, CheckpointOrReport, CollectorsTried, Concluded, MergersTried,
      NoCheckpoint, kv, local, ghosts, counts
<1>2. ASSUME NEW n \in Nodes, Start(n) PROVE Backed'
  BY <1>2 DEF Start
<1>3. ASSUME NEW n \in Nodes, Bind(n) PROVE Backed'
  BY <1>3 DEF Bind
<1>4. ASSUME NEW n \in Nodes, Crash(n) PROVE Backed'
  BY <1>4 DEF Crash
<1>5. ASSUME NEW n \in Nodes, NEW t \in Tasks, EngineStarts(n, t) PROVE Backed'
  BY <1>5 DEF EngineStarts, Set
<1>6. ASSUME NEW n \in Nodes, NEW t \in Tasks, DecompositionFails(n, t) PROVE Backed'
  BY <1>6 DEF DecompositionFails, Set
<1>7. ASSUME NEW n \in Nodes, NEW t \in Tasks, EngineResolves(n, t) PROVE Backed'
  BY <1>7 DEF EngineResolves, Id, Set
<1>8. ASSUME NEW n \in Nodes, NEW t \in Tasks, EngineFails(n, t) PROVE Backed'
  BY <1>8 DEF EngineFails, Set
<1>9. ASSUME NEW n \in Nodes, NEW t \in Tasks, PutCheckpoint(n, t) PROVE Backed'
  BY <1>9, WriteEffect, HeldCopy DEF PutCheckpoint, Set, Writes
<1>10. ASSUME NEW n \in Nodes, NEW t \in Tasks, CheckpointUnwritten(n, t) PROVE Backed'
  BY <1>10 DEF CheckpointUnwritten, Set
<1>11. ASSUME NEW n \in Nodes, NEW t \in Tasks, Publish(n, t) PROVE Backed'
  BY <1>11, PublishEffect, HeldCopy DEF Publish, Set, Mark, Publishes
<1>12. ASSUME NEW n \in Nodes, NEW t \in Tasks, Collect(n, t) PROVE Backed'
  BY <1>12, DeleteEffect DEF Collect, End, Set, Deletes
<1>13. ASSUME NEW n \in Nodes, NEW t \in Tasks, PublishFailed(n, t) PROVE Backed'
  BY <1>13, PublishEffect DEF PublishFailed, Set, Publishes
<1>14. ASSUME NEW n \in Nodes, NEW t \in Tasks, PublishEarlyFailure(n, t) PROVE Backed'
  BY <1>14, PublishEffect DEF PublishEarlyFailure, Mark, End, Set, Publishes
<1>15. ASSUME NEW n \in Nodes, NEW t \in Tasks, CollectFailed(n, t) PROVE Backed'
  BY <1>15, DeleteEffect DEF CollectFailed, Mark, End, Set, Deletes
<1>16. ASSUME NEW n \in Nodes, NEW t \in Tasks, Read(n, t) PROVE Backed'
  BY <1>16 DEF Read, Id, Set
<1>17. ASSUME NEW n \in Nodes, NEW t \in Tasks, SkipEntry(n, t) PROVE Backed'
  BY <1>17 DEF SkipEntry, End, Set
<1>18. ASSUME NEW n \in Nodes, NEW t \in Tasks, LoseClaim(n, t) PROVE Backed'
  BY <1>18 DEF LoseClaim, End, RevisionMatches, Set
<1>19. ASSUME NEW n \in Nodes, NEW t \in Tasks, ClaimError(n, t) PROVE Backed'
  BY <1>19 DEF ClaimError, End, Set
<1>20. ASSUME NEW n \in Nodes, NEW t \in Tasks, ParseManifest(n, t) PROVE Backed'
  BY <1>20 DEF ParseManifest, Set
<1>21. ASSUME NEW n \in Nodes, NEW t \in Tasks, DropUnreadable(n, t) PROVE Backed'
  BY <1>21, DeleteEffect DEF DropUnreadable, End, Set, Deletes
<1>22. ASSUME NEW n \in Nodes, NEW t \in Tasks, TerminalGuard(n, t) PROVE Backed'
  BY <1>22, DeleteEffect DEF TerminalGuard, End, Set, Deletes
<1>23. ASSUME NEW n \in Nodes, NEW t \in Tasks, Resume(n, t) PROVE Backed'
  BY <1>23 DEF Resume, Set, Mark, Restored
<1>24. ASSUME NEW n \in Nodes, NEW t \in Tasks, Submit(n, t) PROVE Backed'
  BY <1>24 DEF Submit, Set
<1>25. ASSUME NEW n \in Nodes, NEW t \in Tasks, TailBreaks(n, t) PROVE Backed'
  BY <1>25 DEF TailBreaks, Set
<1>26. ASSUME NEW n \in Nodes, NEW t \in Tasks, Uncalibrated(n, t) PROVE Backed'
  BY <1>26 DEF Uncalibrated, Set, End
<1>27. ASSUME NEW n \in Nodes, NEW t \in Tasks, MergeCheck(n, t) PROVE Backed'
  BY <1>27 DEF MergeCheck, Set
<1>28. ASSUME NEW n \in Nodes, NEW t \in Tasks, MergePublish(n, t) PROVE Backed'
  BY <1>28, PublishEffect DEF MergePublish, Set, Publishes
<1>29. ASSUME NEW n \in Nodes, NEW t \in Tasks, MergeUnavailable(n, t) PROVE Backed'
  BY <1>29 DEF MergeUnavailable, Set
<1>30. ASSUME NEW n \in Nodes, NEW t \in Tasks, MergeMark(n, t) PROVE Backed'
  BY <1>30 DEF MergeMark, Set, Mark
<1>31. ASSUME NEW n \in Nodes, NEW t \in Tasks, Follow(n, t) PROVE Backed'
  BY <1>31 DEF Follow, Mark, Set
<1>32. ASSUME NEW t \in Tasks, Expire(t) PROVE Backed'
  BY <1>32 DEF Expire
<1>33. CASE UNCHANGED vars
  BY <1>33 DEF vars
<1> HIDE DEF Attempted, Backed, CheckpointOrReport, CollectorsTried, Concluded,
      MergersTried, NoCheckpoint, kv, local, ghosts, counts
<1> QED
  BY <1>1, <1>2, <1>3, <1>4, <1>5, <1>6, <1>7, <1>8, <1>9, <1>10, <1>11, <1>12, <1>13,
      <1>14, <1>15, <1>16, <1>17, <1>18, <1>19, <1>20, <1>21, <1>22, <1>23, <1>24, <1>25,
      <1>26, <1>27, <1>28, <1>29, <1>30, <1>31, <1>32, <1>33
     DEF Next, PipelineStep, RecoveryStep, Environment

-----------------------------------------------------------------------------
\* A checkpoint names the process that works on the task.
LEMMA OwnedStep == IInv /\ [Next]_vars => Owned'
<1> SUFFICES ASSUME IInv, [Next]_vars PROVE Owned' OBVIOUS
<1> USE RecoveryAssumption DEF IInv, TypeOK
<1>1. ASSUME NEW n \in Nodes, NEW t \in Tasks, PutCheckpoint(n, t) PROVE Owned'
  <2>1. SoleWorker'
    BY <1>1, WriteEffect, HeldCopy DEF PutCheckpoint, Set, Writes, NoCheckpoint, SoleWorker,
      Working, WorkerOwns, ClaimsRevised, Checkpoint, HoldersAgree, UndecidedIdle,
      DecidersPending, Deciding, Undecided, Holding, Concluded, Backed, Owned, kv, local,
      ghosts, counts
  <2>2. WorkerOwns'
    BY <1>1, WriteEffect, HeldCopy DEF PutCheckpoint, Set, Writes, NoCheckpoint, WorkerOwns,
      Working, SoleWorker, WriterOwns, ClaimsRevised, DownIdle, UndecidedIdle,
      UndecidedClean, Deciding, Undecided, Checkpoint, HoldersAgree, Holding, Concluded,
      Backed, Owned, kv, local, ghosts, counts
  <2>3. Writes(t, copy[n][t])
    BY <1>1, WriteEffect, HeldCopy DEF PutCheckpoint, Concluded
  <2>4. BucketRevised'
    BY <2>3 DEF Writes, BucketRevised, Owned
  <2>5. ClaimsRevised'
    BY <1>1, <2>3 DEF PutCheckpoint, Set, Writes, ClaimsRevised, Owned
  <2>6. DownIdle' /\ WriterOwns'
    BY <1>1 DEF PutCheckpoint, Set, DownIdle, WriterOwns, Owned, local, counts
  <2> QED
    BY <2>1, <2>2, <2>4, <2>5, <2>6 DEF Owned
<1>2. ASSUME NEW n \in Nodes, NEW t \in Tasks, DropUnreadable(n, t) PROVE Owned'
  <2>1. SoleWorker'
    BY <1>2, DeleteEffect DEF DropUnreadable, End, Set, Deletes, NoCheckpoint, SoleWorker,
      Working, WorkerOwns, ClaimsRevised, Checkpoint, HoldersAgree, UndecidedIdle,
      DecidersPending, Deciding, Undecided, Holding, Concluded, Backed, Owned, kv, local,
      ghosts, counts
  <2>2. WorkerOwns'
    BY <1>2, DeleteEffect DEF DropUnreadable, End, Set, Deletes, NoCheckpoint, WorkerOwns,
      Working, SoleWorker, WriterOwns, ClaimsRevised, DownIdle, UndecidedIdle,
      UndecidedClean, Deciding, Undecided, Checkpoint, HoldersAgree, Holding, Concluded,
      Backed, Owned, kv, local, ghosts, counts
  <2> QED
    BY <1>2, DeleteEffect, <2>1, <2>2 DEF DropUnreadable, End, Set, Deletes,
      BucketRevised, Checkpoint, ClaimsRevised, Concluded, DecidersPending, Deciding,
      DownIdle, HoldersAgree, Holding, NoCheckpoint, Owned, SoleWorker, Undecided,
      UndecidedClean, UndecidedIdle, WorkerOwns, Working, WriterOwns, kv, local, ghosts,
      counts
<1>3. ASSUME NEW n \in Nodes, NEW t \in Tasks, Submit(n, t) PROVE Owned'
  <2>1. SoleWorker'
    <3>1. \A m \in Nodes : job[m][t] \in {"none", "read"}
      BY <1>3 DEF Submit, Concluded, UndecidedIdle, DecidersPending, Undecided, Deciding
    <3>2. expired' = expired BY <1>3 DEF Submit
    <3>3. \A m \in Nodes, u \in Tasks :
            job'[m][u] = IF m = n /\ u = t THEN "prepare" ELSE job[m][u]
      BY <1>3 DEF Submit, Set
    <3>4. SUFFICES ASSUME NEW u \in Tasks \ expired, NEW k \in Nodes, NEW m \in Nodes,
                          job'[k][u] \notin {"none", "read", "claim"},
                          job'[m][u] \notin {"none", "read", "claim"}
                   PROVE  k = m
      BY <3>2, <3>4 DEF SoleWorker, Working
    <3>5. CASE u = t BY <3>1, <3>3, <3>4, <3>5
    <3>6. CASE u # t BY <3>3, <3>4, <3>6 DEF SoleWorker, Working, Owned
    <3> QED BY <3>5, <3>6
  <2> QED
    BY <1>3, <2>1 DEF Submit, Set, BucketRevised, Checkpoint, ClaimsRevised,
      Concluded, DecidersPending, Deciding, DownIdle, HoldersAgree, Holding, NoCheckpoint,
      Owned, SoleWorker, Undecided, UndecidedClean, UndecidedIdle, WorkerOwns, Working,
      WriterOwns, kv, local, ghosts, counts
<1> USE DEF BucketRevised, Checkpoint, ClaimsRevised, Concluded, DecidersPending, Deciding,
      DownIdle, HoldersAgree, Holding, NoCheckpoint, Owned, SoleWorker, Undecided,
      UndecidedClean, UndecidedIdle, WorkerOwns, Working, WriterOwns, kv, local, ghosts,
      counts
<1>4. ASSUME NEW n \in Nodes, Start(n) PROVE Owned'
  BY <1>4 DEF Start
<1>5. ASSUME NEW n \in Nodes, Bind(n) PROVE Owned'
  BY <1>5 DEF Bind
<1>6. ASSUME NEW n \in Nodes, Crash(n) PROVE Owned'
  BY <1>6 DEF Crash
<1>7. ASSUME NEW n \in Nodes, NEW t \in Tasks, EngineStarts(n, t) PROVE Owned'
  BY <1>7 DEF EngineStarts, Set
<1>8. ASSUME NEW n \in Nodes, NEW t \in Tasks, DecompositionFails(n, t) PROVE Owned'
  BY <1>8 DEF DecompositionFails, Set
<1>9. ASSUME NEW n \in Nodes, NEW t \in Tasks, EngineResolves(n, t) PROVE Owned'
  BY <1>9 DEF EngineResolves, Id, Set
<1>10. ASSUME NEW n \in Nodes, NEW t \in Tasks, EngineFails(n, t) PROVE Owned'
  BY <1>10 DEF EngineFails, Set
<1>11. ASSUME NEW n \in Nodes, NEW t \in Tasks, CheckpointUnwritten(n, t) PROVE Owned'
  BY <1>11 DEF CheckpointUnwritten, Set
<1>12. ASSUME NEW n \in Nodes, NEW t \in Tasks, Publish(n, t) PROVE Owned'
  BY <1>12 DEF Publish, Set
<1>13. ASSUME NEW n \in Nodes, NEW t \in Tasks, Collect(n, t) PROVE Owned'
  BY <1>13, DeleteEffect DEF Collect, End, Set, Deletes
<1>14. ASSUME NEW n \in Nodes, NEW t \in Tasks, PublishFailed(n, t) PROVE Owned'
  BY <1>14, PublishEffect DEF PublishFailed, Set, Publishes
<1>15. ASSUME NEW n \in Nodes, NEW t \in Tasks, PublishEarlyFailure(n, t) PROVE Owned'
  BY <1>15, PublishEffect DEF PublishEarlyFailure, Mark, End, Set, Publishes
<1>16. ASSUME NEW n \in Nodes, NEW t \in Tasks, CollectFailed(n, t) PROVE Owned'
  BY <1>16, DeleteEffect DEF CollectFailed, Mark, End, Set, Deletes
<1>17. ASSUME NEW n \in Nodes, NEW t \in Tasks, Read(n, t) PROVE Owned'
  BY <1>17 DEF Read, Id, Set
<1>18. ASSUME NEW n \in Nodes, NEW t \in Tasks, SkipEntry(n, t) PROVE Owned'
  BY <1>18 DEF SkipEntry, End, Set
<1>19. ASSUME NEW n \in Nodes, NEW t \in Tasks, WinClaim(n, t) PROVE Owned'
  BY <1>19, WriteEffect, ClaimedCopy DEF WinClaim, Set, RevisionMatches, Id, Writes
<1>20. ASSUME NEW n \in Nodes, NEW t \in Tasks, LoseClaim(n, t) PROVE Owned'
  BY <1>20 DEF LoseClaim, End, RevisionMatches, Set
<1>21. ASSUME NEW n \in Nodes, NEW t \in Tasks, ClaimError(n, t) PROVE Owned'
  BY <1>21 DEF ClaimError, End, Set
<1>22. ASSUME NEW n \in Nodes, NEW t \in Tasks, ParseManifest(n, t) PROVE Owned'
  BY <1>22 DEF ParseManifest, Set
<1>23. ASSUME NEW n \in Nodes, NEW t \in Tasks, TerminalGuard(n, t) PROVE Owned'
  <2>1. Deletes(t)
    BY <1>23, DeleteEffect DEF TerminalGuard
  <2>2. SoleWorker' /\ DownIdle' /\ WriterOwns'
    BY <1>23 DEF TerminalGuard, End, Set
  <2>3. BucketRevised' /\ ClaimsRevised'
    BY <1>23, <2>1 DEF TerminalGuard, End, Set, Deletes
  <2>4. WorkerOwns'
    BY <1>23, <2>1 DEF TerminalGuard, End, Set, Deletes
  <2> QED
    BY <2>2, <2>3, <2>4
<1>24. ASSUME NEW n \in Nodes, NEW t \in Tasks, Resume(n, t) PROVE Owned'
  BY <1>24 DEF Resume, Set, Mark, Restored
<1>25. ASSUME NEW n \in Nodes, NEW t \in Tasks, TailBreaks(n, t) PROVE Owned'
  BY <1>25 DEF TailBreaks, Set
<1>26. ASSUME NEW n \in Nodes, NEW t \in Tasks, Uncalibrated(n, t) PROVE Owned'
  BY <1>26 DEF Uncalibrated, Set, End
<1>27. ASSUME NEW n \in Nodes, NEW t \in Tasks, MergeCheck(n, t) PROVE Owned'
  BY <1>27 DEF MergeCheck, Set
<1>28. ASSUME NEW n \in Nodes, NEW t \in Tasks, MergePublish(n, t) PROVE Owned'
  BY <1>28, PublishEffect DEF MergePublish, Set, Publishes
<1>29. ASSUME NEW n \in Nodes, NEW t \in Tasks, MergeUnavailable(n, t) PROVE Owned'
  BY <1>29 DEF MergeUnavailable, Set
<1>30. ASSUME NEW n \in Nodes, NEW t \in Tasks, MergeMark(n, t) PROVE Owned'
  BY <1>30 DEF MergeMark, Set, Mark
<1>31. ASSUME NEW n \in Nodes, NEW t \in Tasks, Follow(n, t) PROVE Owned'
  BY <1>31 DEF Follow, Mark, Set
<1>32. ASSUME NEW t \in Tasks, Expire(t) PROVE Owned'
  BY <1>32 DEF Expire
<1>33. CASE UNCHANGED vars
  BY <1>33 DEF vars
<1> HIDE DEF BucketRevised, Checkpoint, ClaimsRevised, Concluded, DecidersPending, Deciding,
      DownIdle, HoldersAgree, Holding, NoCheckpoint, Owned, SoleWorker, Undecided,
      UndecidedClean, UndecidedIdle, WorkerOwns, Working, WriterOwns, kv, local, ghosts,
      counts
<1> QED
  BY <1>1, <1>2, <1>3, <1>4, <1>5, <1>6, <1>7, <1>8, <1>9, <1>10, <1>11, <1>12, <1>13,
      <1>14, <1>15, <1>16, <1>17, <1>18, <1>19, <1>20, <1>21, <1>22, <1>23, <1>24, <1>25,
      <1>26, <1>27, <1>28, <1>29, <1>30, <1>31, <1>32, <1>33
     DEF Next, PipelineStep, RecoveryStep, Environment

-----------------------------------------------------------------------------
\* The initial states satisfy the invariant.
LEMMA InitInv == Init => IInv
<1> SUFFICES ASSUME Init PROVE IInv OBVIOUS
<1> USE RecoveryAssumption DEF Init, NoCheckpoint
<1>1. TypeOK BY DEF TypeOK, JobState, Status
<1>2. Concluded
  BY DEF Concluded, HoldersAgree, DecidersPending, OneDecider, FailersFailed, UndecidedIdle,
         UndecidedClean, BucketAgrees, Holding, Deciding, Undecided, Failing
<1>3. ReportsAgree BY DEF ReportsAgree
<1>4. Backed BY DEF Backed, CheckpointOrReport, CollectorsTried, MergersTried
<1>5. Owned
  BY DEF Owned, SoleWorker, Working, DownIdle, BucketRevised, ClaimsRevised, WriterOwns,
         WorkerOwns
<1> QED BY <1>1, <1>2, <1>3, <1>4, <1>5 DEF IInv

\* The invariant is inductive.
LEMMA Invariance == Spec => []IInv
<1>1. IInv /\ [Next]_vars => IInv'
  BY TypeStep, ConcludedStep, ReportsStep, BackedStep, OwnedStep DEF IInv
<1> QED BY InitInv, <1>1, PTL DEF Spec

\* However often and by whichever process a task is resumed, the log never holds
\* two different conclusions of the engine.
THEOREM OneConclusion == Spec => []ReportsAgree
BY Invariance, PTL DEF IInv

\* What is checkpointed or shown as resolved stays recoverable across crashes.
THEOREM Recoverable == Spec => []CheckpointOrReport
BY Invariance, PTL DEF IInv, Backed

\* Two processes never work on one task, short of an expired key.
THEOREM OneWorker == Spec => []SoleWorker
BY Invariance, PTL DEF IInv, Owned

-----------------------------------------------------------------------------
(* The end of a future *)

\* A future with something to report has an entry in the store, and a terminal
\* one once it has published an output.
Reporting == JobState \ {"none", "read", "claim", "found", "guard"}
Terminal  == {"resolved", "failed"}

Entered ==
    \A n \in Nodes, t \in Tasks :
        /\ job[n][t] \in Reporting => store[n][t] # "absent"
        /\ job[n][t] = "collect" => store[n][t] \in Terminal

\* What EndsTerminal asks of a step.
EndsWell ==
    \A n \in Nodes, t \in Tasks :
        job[n][t] \in Reporting /\ job'[n][t] = "none" /\ proc'[n] # "down"
            => store'[n][t] \in Terminal

\* A step of one future: what has to be shown of it.
Others(n, t) ==
    \A m \in Nodes, u \in Tasks : m # n \/ u # t =>
        job'[m][u] = job[m][u] /\ store'[m][u] = store[m][u]

\* A step of one future keeps Entered and ends well if it does so for that future.
LEMMA OneFuture ==
    ASSUME Entered, NEW n \in Nodes, NEW t \in Tasks, Others(n, t),
           job'[n][t] \in Reporting => store'[n][t] # "absent",
           job'[n][t] = "collect" => store'[n][t] \in Terminal,
           job[n][t] \in Reporting /\ job'[n][t] = "none" => store'[n][t] \in Terminal
    PROVE  Entered' /\ EndsWell
<1>1. ASSUME NEW m \in Nodes, NEW u \in Tasks
      PROVE  /\ job'[m][u] \in Reporting => store'[m][u] # "absent"
             /\ job'[m][u] = "collect" => store'[m][u] \in Terminal
             /\ job[m][u] \in Reporting /\ job'[m][u] = "none" => store'[m][u] \in Terminal
  <2>1. CASE m = n /\ u = t BY <2>1
  <2>2. CASE m # n \/ u # t
    <3>1. job'[m][u] = job[m][u] /\ store'[m][u] = store[m][u] BY <2>2 DEF Others
    <3> QED BY <3>1 DEF Entered, Reporting
  <2> QED BY <2>1, <2>2
<1> QED BY <1>1 DEF Entered, EndsWell, Reporting, JobState

\* The helpers that change one future and its entry.
LEMMA SetJob ==
    ASSUME TypeOK, NEW n \in Nodes, NEW t \in Tasks, NEW x, job' = Set(job, n, t, x)
    PROVE  job'[n][t] = x /\ \A m \in Nodes, u \in Tasks : m # n \/ u # t => job'[m][u] = job[m][u]
BY DEF TypeOK, Set

\* The same for an entry of the store.
LEMMA SetStore ==
    ASSUME TypeOK, NEW n \in Nodes, NEW t \in Tasks, NEW x, store' = Set(store, n, t, x)
    PROVE  /\ store'[n][t] = x
           /\ \A m \in Nodes, u \in Tasks : m # n \/ u # t => store'[m][u] = store[m][u]
BY DEF TypeOK, Set

\* Marking keeps an entry an entry and does not make one.
LEMMA MarkStore ==
    ASSUME TypeOK, NEW n \in Nodes, NEW t \in Tasks, NEW x \in Terminal, Mark(n, t, x)
    PROVE  /\ store[n][t] # "absent" => store'[n][t] = x
           /\ \A m \in Nodes, u \in Tasks : m # n \/ u # t => store'[m][u] = store[m][u]
<1>1. CASE store[n][t] = "absent" BY <1>1 DEF Mark
<1>2. CASE store[n][t] # "absent" BY <1>2, SetStore DEF Mark
<1> QED BY <1>1, <1>2

\* Every step keeps Entered and ends a future that reports with a terminal entry.
LEMMA EnteredStep == IInv /\ Entered /\ [Next]_vars => Entered' /\ EndsWell
<1> SUFFICES ASSUME IInv, Entered, [Next]_vars PROVE Entered' /\ EndsWell OBVIOUS
<1>0. TypeOK BY DEF IInv
<1> DEFINE Goal == Entered' /\ EndsWell
\* the future and its entry stay as they are
<1>1. ASSUME UNCHANGED <<job, store>> PROVE Goal
  BY <1>1 DEF Entered, EndsWell, Reporting
\* the future moves on, its entry stays
<1>2. ASSUME NEW n \in Nodes, NEW t \in Tasks, NEW x, job' = Set(job, n, t, x), UNCHANGED store,
             x \in Reporting => job[n][t] \in Reporting, x # "collect",
             job[n][t] \in Reporting => x # "none" \/ job[n][t] = "collect"
      PROVE  Goal
  <2>1. job'[n][t] = x /\ Others(n, t) BY <1>0, <1>2, SetJob DEF Others
  <2>2. job[n][t] \in Reporting => store[n][t] # "absent" BY DEF Entered
  <2>3. job[n][t] = "collect" => store[n][t] \in Terminal BY DEF Entered
  <2> QED BY <1>2, <2>1, <2>2, <2>3, OneFuture
\* the future moves on and its entry is written
<1>3. ASSUME NEW n \in Nodes, NEW t \in Tasks, NEW x, NEW s, job' = Set(job, n, t, x),
             store' = Set(store, n, t, s), s # "absent", x # "collect",
             x = "none" => job[n][t] \notin Reporting
      PROVE  Goal
  <2>1. job'[n][t] = x /\ store'[n][t] = s /\ Others(n, t)
    BY <1>0, <1>3, SetJob, SetStore DEF Others
  <2> QED BY <1>3, <2>1, OneFuture
\* the future moves on and its entry is marked
<1>4. ASSUME NEW n \in Nodes, NEW t \in Tasks, NEW x, NEW s \in Terminal,
             job' = Set(job, n, t, x), Mark(n, t, s), job[n][t] \in Reporting
      PROVE  Goal
  <2>1. store[n][t] # "absent" BY <1>4 DEF Entered
  <2>2. job'[n][t] = x /\ store'[n][t] = s /\ Others(n, t)
    BY <1>0, <1>4, <2>1, SetJob, MarkStore DEF Others
  <2>3. s # "absent" BY DEF Terminal
  <2> QED BY <2>2, <2>3, OneFuture
\* only the entry is marked
<1>5. ASSUME NEW n \in Nodes, NEW t \in Tasks, NEW s \in Terminal, Mark(n, t, s), UNCHANGED job
      PROVE  Goal
  <2>1. Others(n, t) BY <1>0, <1>5, MarkStore DEF Others
  <2>2. store[n][t] = "absent" => job[n][t] \notin Reporting /\ job[n][t] # "collect"
    BY DEF Entered, Terminal
  <2>3. store[n][t] # "absent" => store'[n][t] = s BY <1>0, <1>5, MarkStore
  <2>4. job'[n][t] = job[n][t] /\ s # "absent" /\ "none" \notin Reporting
    BY <1>5 DEF Terminal, Reporting
  <2> QED BY <1>5, <2>1, <2>2, <2>3, <2>4, OneFuture
<1> HIDE DEF Goal
<1>6. ASSUME NEW n \in Nodes, Start(n) PROVE Goal
  <2>1. \A t \in Tasks : job[n][t] = "none" BY <1>6 DEF Start, IInv, Owned, DownIdle
  <2>2. /\ \A t \in Tasks : job'[n][t] \in {"read", "none"}
        /\ \A m \in Nodes \ {n}, t \in Tasks : job'[m][t] = job[m][t]
        /\ store' = store
    BY <1>0, <1>6 DEF Start, TypeOK
  <2> QED BY <2>1, <2>2 DEF Goal, Entered, EndsWell, Reporting
<1>7. ASSUME NEW n \in Nodes, Crash(n) PROVE Goal
  <2>1. /\ proc'[n] = "down" /\ \A t \in Tasks : job'[n][t] = "none"
        /\ \A m \in Nodes \ {n}, t \in Tasks : job'[m][t] = job[m][t] /\ store'[m][t] = store[m][t]
    BY <1>0, <1>7 DEF Crash, TypeOK
  <2> QED BY <2>1 DEF Goal, Entered, EndsWell, Reporting
<1>8. ASSUME NEW n \in Nodes, NEW t \in Tasks,
             \/ EngineStarts(n, t) \/ Submit(n, t) \/ TailBreaks(n, t)
      PROVE  Goal
  BY <1>3, <1>8 DEF EngineStarts, Submit, TailBreaks
<1>9. ASSUME NEW n \in Nodes, NEW t \in Tasks, Uncalibrated(n, t) PROVE Goal
  BY <1>3, <1>9 DEF Uncalibrated, End, Reporting
<1>10. ASSUME NEW n \in Nodes, NEW t \in Tasks, EngineResolves(n, t) \/ EngineFails(n, t) PROVE Goal
  <2>1. job[n][t] = "engine" /\ job[n][t] \in Reporting
    BY <1>10 DEF EngineResolves, EngineFails, Reporting, JobState
  <2>2. store[n][t] # "absent" BY <2>1 DEF Entered
  <2>3. PICK s \in {store[n][t], "active", "resolved", "failed"} : store' = Set(store, n, t, s)
    BY <1>10 DEF EngineResolves, EngineFails
  <2>4. PICK x \in {"checkpoint", "failing"} : job' = Set(job, n, t, x)
    BY <1>10 DEF EngineResolves, EngineFails
  <2> QED BY <1>3, <2>2, <2>3, <2>4
<1>11. ASSUME NEW n \in Nodes, NEW t \in Tasks,
              \/ DecompositionFails(n, t) \/ PutCheckpoint(n, t) \/ CheckpointUnwritten(n, t)
              \/ PublishFailed(n, t)
       PROVE  Goal
  <2>1. job[n][t] \in {"prepare", "checkpoint", "failing"} /\ store' = store
    BY <1>11 DEF DecompositionFails, PutCheckpoint, CheckpointUnwritten, PublishFailed
  <2>2. PICK x \in {"failing_early", "publish", "collect_failed"} : job' = Set(job, n, t, x)
    BY <1>11 DEF DecompositionFails, PutCheckpoint, CheckpointUnwritten, PublishFailed
  <2> QED BY <1>2, <2>1, <2>2 DEF Reporting, JobState
<1>12. ASSUME NEW n \in Nodes, NEW t \in Tasks,
              \/ Collect(n, t) \/ SkipEntry(n, t) \/ LoseClaim(n, t) \/ ClaimError(n, t)
              \/ DropUnreadable(n, t) \/ TerminalGuard(n, t)
       PROVE  Goal
  <2>1. job[n][t] \in {"collect", "read", "claim", "found", "guard"} /\ store' = store
    BY <1>12 DEF Collect, SkipEntry, LoseClaim, ClaimError, DropUnreadable, TerminalGuard
  <2>2. job' = Set(job, n, t, "none")
    BY <1>12 DEF Collect, SkipEntry, LoseClaim, ClaimError, DropUnreadable, TerminalGuard, End
  <2> QED BY <1>2, <2>1, <2>2 DEF Reporting
<1>13. ASSUME NEW n \in Nodes, NEW t \in Tasks,
              Read(n, t) \/ WinClaim(n, t) \/ ParseManifest(n, t)
       PROVE  Goal
  <2>1. job[n][t] \in {"read", "claim", "found"} /\ store' = store
    BY <1>13 DEF Read, WinClaim, ParseManifest
  <2>2. PICK x \in {"claim", "found", "guard"} : job' = Set(job, n, t, x)
    BY <1>13 DEF Read, WinClaim, ParseManifest
  <2> QED BY <1>2, <2>1, <2>2 DEF Reporting
<1>14. ASSUME NEW n \in Nodes, NEW t \in Tasks,
              \/ Publish(n, t) \/ PublishEarlyFailure(n, t) \/ CollectFailed(n, t) \/ Resume(n, t)
       PROVE  Goal
  <2>1. job[n][t] \in Reporting
    BY <1>14 DEF Publish, PublishEarlyFailure, CollectFailed, Resume, Reporting, JobState
  <2>2. PICK s \in Terminal : Mark(n, t, s)
    BY <1>14 DEF Publish, PublishEarlyFailure, CollectFailed, Resume, Terminal
  <2>3. PICK x : job' = Set(job, n, t, x)
    BY <1>14 DEF Publish, PublishEarlyFailure, CollectFailed, Resume, End
  <2> QED BY <1>4, <2>1, <2>2, <2>3
<1>15. ASSUME NEW n \in Nodes, NEW t \in Tasks, MergeMark(n, t) \/ Follow(n, t) PROVE Goal
  <2>1. PICK s \in Terminal : Mark(n, t, s)
    BY <1>15 DEF MergeMark, Follow, Terminal
  <2>2. UNCHANGED job BY <1>15 DEF MergeMark, Follow
  <2> QED BY <1>5, <2>1, <2>2
<1>16. ASSUME NEW n \in Nodes, NEW t \in Tasks,
              MergeCheck(n, t) \/ MergePublish(n, t) \/ MergeUnavailable(n, t)
       PROVE  Goal
  BY <1>1, <1>16 DEF MergeCheck, MergePublish, MergeUnavailable
<1>17. ASSUME NEW n \in Nodes, Bind(n) PROVE Goal BY <1>1, <1>17 DEF Bind
<1>18. ASSUME NEW t \in Tasks, Expire(t) PROVE Goal BY <1>1, <1>18 DEF Expire
<1>19. ASSUME UNCHANGED vars PROVE Goal
  <2>1. UNCHANGED <<job, store>> BY <1>19 DEF vars
  <2> QED BY <1>1, <2>1
<1>20. ASSUME NEW n \in Nodes, NEW t \in Tasks, PipelineStep(n, t) PROVE Goal
  BY <1>8, <1>10, <1>11, <1>12, <1>14, <1>20 DEF PipelineStep
<1>21. ASSUME NEW n \in Nodes, NEW t \in Tasks, RecoveryStep(n, t) PROVE Goal
  BY <1>12, <1>13, <1>14, <1>21 DEF RecoveryStep
<1>22. ASSUME NEW n \in Nodes, NEW t \in Tasks, Environment(n, t) PROVE Goal
  BY <1>8, <1>9, <1>15, <1>16, <1>22 DEF Environment
<1>23. Goal BY <1>6, <1>7, <1>17, <1>18, <1>19, <1>20, <1>21, <1>22 DEF Next
<1> QED BY <1>23 DEF Goal

\* A future that has a result to report, of a submission or of a resumption, ends
\* with a terminal status in its process's store, unless the process crashes: also
\* when no event gets through and the bucket cannot be reached (task_pipeline.rs
\* marks the store on every way out).
THEOREM FuturesEndTerminal == Spec => EndsTerminal
<1>1. Init => Entered BY DEF Init, Entered, Reporting
<1>2. IInv /\ Entered /\ [Next]_vars => Entered' BY EnteredStep
<1>3. IInv /\ Entered /\ [Next]_vars =>
        [\A n \in Nodes, t \in Tasks :
           /\ job[n][t] \notin {"none", "read", "claim", "found", "guard"}
           /\ job'[n][t] = "none" /\ proc'[n] # "down"
           => store'[n][t] \in {"resolved", "failed"}]_vars
  <2> SUFFICES ASSUME IInv, Entered, [Next]_vars, NEW n \in Nodes, NEW t \in Tasks,
                      job[n][t] \notin {"none", "read", "claim", "found", "guard"},
                      job'[n][t] = "none", proc'[n] # "down"
               PROVE  store'[n][t] \in {"resolved", "failed"}
    OBVIOUS
  <2>1. job[n][t] \in Reporting BY DEF IInv, TypeOK, Reporting
  <2> QED BY <2>1, EnteredStep DEF EndsWell, Terminal
<1> QED BY Invariance, <1>1, <1>2, <1>3, PTL DEF Spec, EndsTerminal
=============================================================================
