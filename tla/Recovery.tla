------------------------------- MODULE Recovery -------------------------------
(***************************************************************************)
(* The life of a task across processes, crashes and restarts:              *)
(* h2ai-api/src/routes/tasks.rs (submit, merge, event stream),             *)
(* h2ai-api/src/task_pipeline.rs (what happens around the engine) and      *)
(* h2ai-api/src/recovery.rs (the scan of the checkpoint bucket at          *)
(* startup).  A process keeps its task store in memory and loses it in a   *)
(* crash; the checkpoint bucket and the task's event log are in NATS and   *)
(* survive.  The engine itself is one step here: MapeK models it.          *)
(*                                                                         *)
(* Checkpoints are written in phase Merging only, when the engine has      *)
(* already returned, and always carry an output: the arms of               *)
(* run_from_checkpoint for other phases and for a missing output are       *)
(* not reachable.  The limit on concurrent tasks and the validation of     *)
(* a submitted manifest only refuse work and are left out.                 *)
(***************************************************************************)
EXTENDS Integers, Sequences, FiniteSets

CONSTANTS
    Nodes,        \* hosts that run the control plane
    Pids,         \* process ids a restart may get (in a container always the same)
    Tasks,        \* task ids
    Outputs,      \* texts the engine may return
    MaxCrashes,   \* bound on crashes
    MaxMerges     \* bound on calls of the merge route

ASSUME RecoveryAssumption ==
    /\ MaxCrashes \in Nat
    /\ MaxMerges \in Nat
    /\ Pids # {}
    /\ Outputs \cap {"none", "pending", "failed", "manual"} = {}

VARIABLES
    proc,         \* [Nodes -> {"down", "scanning", "up"}]
    pid,          \* [Nodes -> Pids]
    store,        \* [Nodes -> [Tasks -> Status]]: TaskStore, in memory
    job,          \* [Nodes -> [Tasks -> JobState]]: where the task's future is
    copy,         \* [Nodes -> [Tasks -> checkpoint]]: the checkpoint that future holds
    merge,        \* [Nodes -> [Tasks -> stage of a merge_task call]]
    bucket,       \* [Tasks -> checkpoint or NoCheckpoint]: H2AI_TASK_CHECKPOINTS
    rev,          \* [Tasks -> Nat]: revisions the key has had, 0 when the bucket has none of it
    log,          \* [Tasks -> Seq]: terminal events on the task's subject
    verdict,      \* [Tasks -> "none", "failed" or an output]: what the engine concluded
    promised,     \* tasks whose output was checkpointed or reported as resolved
    faults,       \* tasks that lost an event on the wire or had an unreadable manifest
    expired,      \* tasks whose checkpoint aged out of the bucket
    crashes, merges

kv     == <<bucket, rev>>
local  == <<proc, pid>>
ghosts == <<verdict, promised, faults, expired>>
counts == <<crashes, merges>>
vars   == <<local, store, job, copy, merge, kv, log, ghosts, counts>>

NoCheckpoint == [owner |-> <<>>, output |-> "none", lease |-> 0]

\* local_node_id: host and process id.
Id(n) == <<n, pid[n]>>

Set(f, n, t, x) == [f EXCEPT ![n][t] = x]

\* task_store.rs: insert always writes, mark_* only when the entry exists.
Mark(n, t, status) ==
    store' = IF store[n][t] = "absent" THEN store ELSE Set(store, n, t, status)

\* The task's future ends and drops what it holds.
End(n, t) == job' = Set(job, n, t, "none") /\ copy' = Set(copy, n, t, NoCheckpoint)

Init ==
    /\ proc = [n \in Nodes |-> "down"]
    /\ pid = [n \in Nodes |-> CHOOSE p \in Pids : TRUE]
    /\ store = [n \in Nodes |-> [t \in Tasks |-> "absent"]]
    /\ job = [n \in Nodes |-> [t \in Tasks |-> "none"]]
    /\ copy = [n \in Nodes |-> [t \in Tasks |-> NoCheckpoint]]
    /\ merge = [n \in Nodes |-> [t \in Tasks |-> "idle"]]
    /\ bucket = [t \in Tasks |-> NoCheckpoint]
    /\ rev = [t \in Tasks |-> 0]
    /\ log = [t \in Tasks |-> <<>>]
    /\ verdict = [t \in Tasks |-> "none"]
    /\ promised = {} /\ faults = {} /\ expired = {}
    /\ crashes = 0 /\ merges = 0

-----------------------------------------------------------------------------
(* NATS *)

Write(t, cp) ==
    /\ bucket' = [bucket EXCEPT ![t] = cp]
    /\ rev' = [rev EXCEPT ![t] = @ + 1]

\* kv.delete leaves a marker with a revision of its own; any NATS error on the
\* way leaves the entry where it is and is logged.
DeleteCheckpoint(t) == Write(t, NoCheckpoint) \/ UNCHANGED kv

\* kv.update: the server compares with the last revision of the key.
AnyRevision(t, expected) == TRUE
RevisionMatches(t, expected) == rev[t] = expected

\* publish_event sends without waiting for the acknowledgement: the event is
\* in the log, or it is lost and at most a warning says so.
PublishEvent(t, event) ==
    \/ log' = [log EXCEPT ![t] = Append(@, event)] /\ UNCHANGED faults
    \/ faults' = faults \cup {t} /\ UNCHANGED log

\* The bucket drops what is older than 24 hours, markers too; once per key.
Expire(t) ==
    /\ rev[t] # 0 /\ t \notin expired
    /\ bucket' = [bucket EXCEPT ![t] = NoCheckpoint]
    /\ rev' = [rev EXCEPT ![t] = 0]
    /\ expired' = expired \cup {t}
    /\ UNCHANGED <<local, store, job, copy, merge, log, verdict, promised, faults, counts>>

-----------------------------------------------------------------------------
(* Processes *)

\* Startup: the keys of the bucket are listed (an error lists none) before the
\* listener is bound.
Start(n) ==
    /\ proc[n] = "down"
    /\ proc' = [proc EXCEPT ![n] = "scanning"]
    /\ \E p \in Pids : pid' = [pid EXCEPT ![n] = p]
    /\ \E keys \in {{t \in Tasks : bucket[t] # NoCheckpoint}, {}} :
         job' = [job EXCEPT ![n] = [t \in Tasks |-> IF t \in keys THEN "read" ELSE "none"]]
    /\ UNCHANGED <<store, copy, merge, kv, log, ghosts, counts>>

\* join_all has finished every claim: the listener is bound.
Bind(n) ==
    /\ proc[n] = "scanning"
    /\ \A t \in Tasks : job[n][t] \notin {"read", "claim"}
    /\ proc' = [proc EXCEPT ![n] = "up"]
    /\ UNCHANGED <<pid, store, job, copy, merge, kv, log, ghosts, counts>>

Crash(n) ==
    /\ proc[n] # "down" /\ crashes < MaxCrashes
    /\ proc' = [proc EXCEPT ![n] = "down"]
    /\ store' = [store EXCEPT ![n] = [t \in Tasks |-> "absent"]]
    /\ job' = [job EXCEPT ![n] = [t \in Tasks |-> "none"]]
    /\ copy' = [copy EXCEPT ![n] = [t \in Tasks |-> NoCheckpoint]]
    /\ merge' = [merge EXCEPT ![n] = [t \in Tasks |-> "idle"]]
    /\ crashes' = crashes + 1
    /\ UNCHANGED <<pid, kv, log, ghosts, merges>>

-----------------------------------------------------------------------------
(* submit_task, run_task_pipeline, post_run *)

\* A task id is fresh: a task is submitted once.  Without a calibration the
\* submission is refused.
Submit(n, t) ==
    /\ proc[n] = "up"
    /\ verdict[t] = "none"
    /\ store' = Set(store, n, t, "active")
    /\ job' = Set(job, n, t, "prepare")
    /\ verdict' = [verdict EXCEPT ![t] = "pending"]
    /\ UNCHANGED <<local, copy, merge, kv, log, promised, faults, expired, counts>>

\* Thinking loop and decomposition; then run_offline inserts a new store entry.
EngineStarts(n, t) ==
    /\ job[n][t] = "prepare"
    /\ store' = Set(store, n, t, "active")
    /\ job' = Set(job, n, t, "engine")
    /\ UNCHANGED <<local, copy, merge, kv, log, ghosts, counts>>

DecompositionFails(n, t) ==
    /\ job[n][t] = "prepare"
    /\ job' = Set(job, n, t, "failing_early")
    /\ verdict' = [verdict EXCEPT ![t] = "failed"]
    /\ UNCHANGED <<local, store, copy, merge, kv, log, promised, faults, expired, counts>>

\* The engine returns an output or an error.  Its phases set the status as they
\* begin, and some of its exits have already marked the result.
EngineResolves(n, t) ==
    /\ job[n][t] = "engine"
    /\ \E o \in Outputs :
         /\ verdict' = [verdict EXCEPT ![t] = o]
         /\ copy' = Set(copy, n, t, [owner |-> Id(n), output |-> o, lease |-> 0])
    /\ \E status \in {store[n][t], "active", "resolved"} : store' = Set(store, n, t, status)
    /\ job' = Set(job, n, t, "checkpoint")
    /\ UNCHANGED <<local, merge, kv, log, promised, faults, expired, counts>>

EngineFails(n, t) ==
    /\ job[n][t] = "engine"
    /\ verdict' = [verdict EXCEPT ![t] = "failed"]
    /\ \E status \in {store[n][t], "active", "failed"} : store' = Set(store, n, t, status)
    /\ job' = Set(job, n, t, "failing")
    /\ UNCHANGED <<local, copy, merge, kv, log, promised, faults, expired, counts>>

\* The checkpoint is written unconditionally and best-effort.
PutCheckpoint(n, t) ==
    /\ job[n][t] = "checkpoint"
    /\ Write(t, copy[n][t])
    /\ promised' = promised \cup {t}
    /\ job' = Set(job, n, t, "publish")
    /\ UNCHANGED <<local, store, copy, merge, log, verdict, faults, expired, counts>>

CheckpointUnwritten(n, t) ==
    /\ job[n][t] = "checkpoint"
    /\ job' = Set(job, n, t, "publish")
    /\ UNCHANGED <<local, store, copy, merge, kv, log, ghosts, counts>>

\* MergeResolved goes out, whatever comes of it the store is marked.
GiveUpUnsent(n, t) ==
    /\ job[n][t] = "publish"
    /\ \/ /\ log' = [log EXCEPT ![t] = Append(@, copy[n][t].output)]
          /\ Mark(n, t, "resolved") /\ job' = Set(job, n, t, "collect") /\ UNCHANGED copy
          /\ promised' = promised \cup {t} /\ UNCHANGED faults
       \/ /\ faults' = faults \cup {t} /\ End(n, t)
          /\ UNCHANGED <<log, store, promised>>
    /\ UNCHANGED <<local, merge, kv, verdict, expired, counts>>

Publish(n, t) ==
    /\ job[n][t] = "publish"
    /\ PublishEvent(t, copy[n][t].output)
    /\ Mark(n, t, "resolved")
    /\ promised' = promised \cup {t}
    /\ job' = Set(job, n, t, "collect")
    /\ UNCHANGED <<local, copy, merge, kv, verdict, expired, counts>>

Collect(n, t) ==
    /\ job[n][t] = "collect"
    /\ DeleteCheckpoint(t)
    /\ End(n, t)
    /\ UNCHANGED <<local, store, merge, log, ghosts, counts>>

\* TaskFailed goes out before the checkpoint is deleted and the store marked.
PublishFailed(n, t) ==
    /\ job[n][t] = "failing"
    /\ PublishEvent(t, "failed")
    /\ job' = Set(job, n, t, "collect_failed")
    /\ UNCHANGED <<local, store, copy, merge, kv, verdict, promised, expired, counts>>

\* A failed decomposition has no checkpoint to delete.
PublishEarlyFailure(n, t) ==
    /\ job[n][t] = "failing_early"
    /\ PublishEvent(t, "failed")
    /\ Mark(n, t, "failed")
    /\ End(n, t)
    /\ UNCHANGED <<local, merge, kv, verdict, promised, expired, counts>>

CollectFailed(n, t) ==
    /\ job[n][t] = "collect_failed"
    /\ DeleteCheckpoint(t)
    /\ Mark(n, t, "failed")
    /\ End(n, t)
    /\ UNCHANGED <<local, merge, log, ghosts, counts>>

-----------------------------------------------------------------------------
(* recover_in_flight_tasks, spawn_resume *)

\* list_task_checkpoints reads key by key.  The own checkpoint is resumed, a
\* foreign one has to be claimed.
Read(n, t) ==
    /\ job[n][t] = "read" /\ bucket[t] # NoCheckpoint
    /\ copy' = Set(copy, n, t, bucket[t])
    /\ job' = Set(job, n, t, IF bucket[t].owner = Id(n) THEN "found" ELSE "claim")
    /\ UNCHANGED <<local, store, merge, kv, log, ghosts, counts>>

\* A key that is gone by now, or that cannot be read, is skipped.
SkipEntry(n, t) ==
    /\ job[n][t] = "read"
    /\ End(n, t)
    /\ UNCHANGED <<local, store, merge, kv, log, ghosts, counts>>

Claimed(n, t) == [copy[n][t] EXCEPT !.owner = Id(n)]

\* The claim expects the revision the checkpoint itself records.  A claimed
\* copy is stored with the lease it was read with; only the copy in memory
\* gets the new one, and nothing reads that.
WinClaim(n, t) ==
    /\ job[n][t] = "claim"
    /\ RevisionMatches(t, copy[n][t].lease)
    /\ Write(t, Claimed(n, t))
    /\ copy' = Set(copy, n, t, Claimed(n, t))
    /\ job' = Set(job, n, t, "found")
    /\ UNCHANGED <<local, store, merge, log, ghosts, counts>>

LoseClaim(n, t) ==
    /\ job[n][t] = "claim"
    /\ ~RevisionMatches(t, copy[n][t].lease)
    /\ End(n, t)
    /\ UNCHANGED <<local, store, merge, kv, log, ghosts, counts>>

\* Any other NATS error is taken for a lost race too.
ClaimError(n, t) ==
    /\ job[n][t] = "claim"
    /\ End(n, t)
    /\ UNCHANGED <<local, store, merge, kv, log, ghosts, counts>>

\* A manifest another version wrote may not parse: the checkpoint is dropped.
ParseManifest(n, t) ==
    /\ job[n][t] = "found"
    /\ job' = Set(job, n, t, "guard")
    /\ UNCHANGED <<local, store, copy, merge, kv, log, ghosts, counts>>

DropUnreadable(n, t) ==
    /\ job[n][t] = "found"
    /\ DeleteCheckpoint(t)
    /\ faults' = faults \cup {t}
    /\ End(n, t)
    /\ UNCHANGED <<local, store, merge, log, verdict, promised, expired, counts>>

\* The guard reads the task's events until it meets a terminal one.  The tail
\* of a NATS stream has no end, so the guard waits while there is none.
SweepAll(n, t) ==
    /\ job[n][t] = "guard"
    /\ DeleteCheckpoint(t)
    /\ End(n, t)
    /\ UNCHANGED <<local, store, merge, log, ghosts, counts>>

TerminalGuard(n, t) ==
    /\ job[n][t] = "guard" /\ log[t] # <<>>
    /\ DeleteCheckpoint(t)
    /\ End(n, t)
    /\ UNCHANGED <<local, store, merge, log, ghosts, counts>>

\* When the tail cannot be opened or breaks off, the guard is passed and the
\* task gets an entry in the store.
TailBreaks(n, t) ==
    /\ job[n][t] = "guard"
    /\ store' = Set(store, n, t, "active")
    /\ job' = Set(job, n, t, "resume")
    /\ UNCHANGED <<local, copy, merge, kv, log, ghosts, counts>>

\* The same in a process without a calibration for the tenant, which gives up.
Uncalibrated(n, t) ==
    /\ job[n][t] = "guard"
    /\ store' = Set(store, n, t, "active")
    /\ End(n, t)
    /\ UNCHANGED <<local, merge, kv, log, ghosts, counts>>

\* run_from_checkpoint in phase Merging: the checkpointed output, no engine.
RunAgain(cp) == {[cp EXCEPT !.output = o] : o \in Outputs}
Restored(cp) == {cp}

Resume(n, t) ==
    /\ job[n][t] = "resume"
    /\ Mark(n, t, "resolved")
    /\ \E cp \in Restored(copy[n][t]) : copy' = Set(copy, n, t, cp)
    /\ job' = Set(job, n, t, "publish")
    /\ UNCHANGED <<local, merge, kv, log, ghosts, counts>>

-----------------------------------------------------------------------------
(* Routes *)

\* merge_task: look up the status, publish, mark.
MergeCheck(n, t) ==
    /\ proc[n] = "up" /\ merge[n][t] = "idle" /\ merges < MaxMerges
    /\ store[n][t] \notin {"absent", "resolved"}
    /\ merge' = Set(merge, n, t, "checked")
    /\ merges' = merges + 1
    /\ UNCHANGED <<local, store, job, copy, kv, log, ghosts, crashes>>

MergePublish(n, t) ==
    /\ merge[n][t] = "checked"
    /\ PublishEvent(t, "manual")
    /\ merge' = Set(merge, n, t, "published")
    /\ UNCHANGED <<local, store, job, copy, kv, verdict, promised, expired, counts>>

MergeUnavailable(n, t) ==
    /\ merge[n][t] = "checked"
    /\ merge' = Set(merge, n, t, "idle")
    /\ UNCHANGED <<local, store, job, copy, kv, log, ghosts, counts>>

MergeMark(n, t) ==
    /\ merge[n][t] = "published"
    /\ Mark(n, t, "resolved")
    /\ merge' = Set(merge, n, t, "idle")
    /\ promised' = promised \cup {t}
    /\ UNCHANGED <<local, job, copy, kv, log, verdict, faults, expired, counts>>

\* task_events: a client follows the log up to the first terminal event, and
\* the store of the process that serves it takes that event's status.
Follow(n, t) ==
    /\ proc[n] = "up" /\ store[n][t] # "absent" /\ log[t] # <<>>
    /\ Mark(n, t, IF Head(log[t]) = "failed" THEN "failed" ELSE "resolved")
    /\ UNCHANGED <<local, job, copy, merge, kv, log, ghosts, counts>>

-----------------------------------------------------------------------------
\* What a task's future does next, once its NATS call or the engine returns.
PipelineStep(n, t) ==
    \/ EngineStarts(n, t) \/ DecompositionFails(n, t) \/ EngineResolves(n, t)
    \/ EngineFails(n, t) \/ PutCheckpoint(n, t) \/ CheckpointUnwritten(n, t)
    \/ Publish(n, t) \/ Collect(n, t)
    \/ PublishFailed(n, t) \/ PublishEarlyFailure(n, t) \/ CollectFailed(n, t)

RecoveryStep(n, t) ==
    \/ Read(n, t) \/ SkipEntry(n, t) \/ WinClaim(n, t) \/ LoseClaim(n, t) \/ ClaimError(n, t)
    \/ ParseManifest(n, t) \/ DropUnreadable(n, t) \/ TerminalGuard(n, t) \/ Resume(n, t)

Environment(n, t) ==
    \/ Submit(n, t) \/ TailBreaks(n, t) \/ Uncalibrated(n, t)
    \/ MergeCheck(n, t) \/ MergePublish(n, t) \/ MergeUnavailable(n, t) \/ MergeMark(n, t)
    \/ Follow(n, t)

Next ==
    \/ \E n \in Nodes : Start(n) \/ Bind(n) \/ Crash(n)
    \/ \E n \in Nodes, t \in Tasks :
         PipelineStep(n, t) \/ RecoveryStep(n, t) \/ Environment(n, t)
    \/ \E t \in Tasks : Expire(t)

Spec == Init /\ [][Next]_vars

-----------------------------------------------------------------------------
(* Properties *)

Status == {"absent", "active", "resolved", "failed"}
JobState == {"none", "prepare", "engine", "checkpoint", "publish", "collect", "failing",
             "failing_early", "collect_failed", "read", "claim", "found", "guard", "resume"}
Checkpoint == [owner : Nodes \X Pids, output : Outputs, lease : {0}]

\* Every lease is 0: the revision of a write is never stored.
TypeOK ==
    /\ proc \in [Nodes -> {"down", "scanning", "up"}]
    /\ pid \in [Nodes -> Pids]
    /\ store \in [Nodes -> [Tasks -> Status]]
    /\ job \in [Nodes -> [Tasks -> JobState]]
    /\ copy \in [Nodes -> [Tasks -> Checkpoint \cup {NoCheckpoint}]]
    /\ merge \in [Nodes -> [Tasks -> {"idle", "checked", "published"}]]
    /\ bucket \in [Tasks -> Checkpoint \cup {NoCheckpoint}]
    /\ rev \in [Tasks -> Nat]
    /\ log \in [Tasks -> Seq(Outputs \cup {"failed", "manual"})]
    /\ verdict \in [Tasks -> Outputs \cup {"none", "pending", "failed"}]
    /\ promised \in SUBSET Tasks /\ faults \in SUBSET Tasks /\ expired \in SUBSET Tasks
    /\ crashes \in 0..MaxCrashes /\ merges \in 0..MaxMerges

\* However often a task is resumed, and by whom, the log never holds two
\* different conclusions of the engine: not two outputs, and not a failure and
\* an output (task_pipeline.rs reports, recovery.rs reports again).
ReportsAgree ==
    \A t \in Tasks : \A i \in DOMAIN log[t] : log[t][i] \in {verdict[t], "manual"}

\* From the moment an output is checkpointed or shown as resolved, the checkpoint is
\* in the bucket or a terminal event is in the log, whenever a process crashes: what
\* a recovery needs is there, whether or not one runs.  Lost events, unreadable
\* manifests and the 24 hour limit are the exceptions.
CheckpointOrReport ==
    \A t \in promised \ (faults \cup expired) : bucket[t] # NoCheckpoint \/ log[t] # <<>>

\* Working(n, t): a future of process n will report task t.
Working(n, t) == job[n][t] \notin {"none", "read", "claim"}

\* Two processes never work on one task, short of an expired key
\* (recovery.rs resumes what it owns and claims the rest by compare-and-swap).
SoleWorker ==
    \A t \in Tasks \ expired : \A m, n \in Nodes : Working(m, t) /\ Working(n, t) => m = n

\* A future that has a result to report, of a submission or of a resumption,
\* ends with a terminal status in the store unless its process crashes: also when
\* no event gets through and no checkpoint can be written or deleted.
EndsTerminal ==
    [][\A n \in Nodes, t \in Tasks :
         /\ job[n][t] \notin {"none", "read", "claim", "found", "guard"}
         /\ job'[n][t] = "none" /\ proc'[n] # "down"
         => store'[n][t] \in {"resolved", "failed"}]_vars
=============================================================================
