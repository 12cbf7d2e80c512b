------------------------------ MODULE Journal ------------------------------
(***************************************************************************)
(* The event log of one task, the snapshots taken of its state and the     *)
(* replay that rebuilds the state after a restart: session_journal.rs,     *)
(* task_store.rs, the publishing half of task_pipeline.rs::post_run, the   *)
(* log and snapshot operations of nats.rs, and the route                   *)
(* GET /tenants/{t}/tasks/{id}/recover.                                    *)
(*                                                                         *)
(* The log is the task's subject of the JetStream stream; the sequence     *)
(* number of an event is its position in it.  A TaskState keeps its        *)
(* tenant, its phase (the status string is a function of the phase) and    *)
(* the two counters that live work and replay both maintain.               *)
(***************************************************************************)
EXTENDS Naturals, Sequences, FiniteSets

CONSTANTS
    Tenants,        \* tenants that may ask for the task
    Default,        \* TenantId::default_tenant()
    Interval,       \* snapshot_interval_events; 0 switches snapshots off
    Explorers,      \* explorers of the run
    MaxFaults,      \* bound: publishes that fail or whose acknowledgement is lost
    MaxReports,     \* bound: events a running engine may bring the log to
    MaxLog          \* bound: events the operator's merges may bring the log to

ASSUME JournalAssumption ==
    /\ Default \in Tenants
    /\ Interval \in Nat /\ Explorers \in Nat /\ MaxFaults \in Nat
    /\ MaxReports \in Nat /\ MaxLog \in Nat

VARIABLES
    owner,      \* the tenant that submitted the task
    entry,      \* the TaskStore's entry: {} or {state}
    job,        \* where the task's pipeline is on this server
    queue,      \* events the pipeline has still to publish
    count,      \* EventCounter of the task
    faults,     \* publishes that went wrong
    writes,     \* snapshot writes spawned and not yet landed
    log,        \* events stored in the stream
    snapshot,   \* the snapshot stored in the KV bucket: {} or {snapshot}
    reader      \* the recover request in progress

serverVars == <<entry, job, queue, count, faults, writes>>
vars == <<owner, entry, job, queue, count, faults, writes, log, snapshot, reader>>

-----------------------------------------------------------------------------
(* Events, phases and what an event does to a state.                       *)

Terminal == {"MergeResolved", "ManualMerge", "TaskFailed"}
Events == Terminal \cup {"Complexity", "Scored", "Rejected", "ProposalFailed", "BranchPruned",
                         "Selection", "Attribution", "Diagnostic"}

Phase == {"Bootstrap", "Assessed", "Generation", "Auditor", "Merging", "Resolved", "Failed"}
TaskState == [tenant : Tenants, phase : Phase, completed : Nat, valid : Nat]

NewState(t) == [tenant |-> t, phase |-> "Bootstrap", completed |-> 0, valid |-> 0]

(* A conclusion written by the operator's merge has the same type on the   *)
(* wire as the pipeline's.                                                 *)
Apply(s, e) ==
    CASE e = "Complexity"                        -> [s EXCEPT !.phase = "Assessed"]
      [] e = "ProposalFailed"                    -> [s EXCEPT !.phase = "Generation", !.completed = @ + 1]
      [] e = "Scored"                            -> [s EXCEPT !.phase = "Auditor", !.valid = @ + 1]
      [] e = "Rejected"                          -> [s EXCEPT !.phase = "Auditor"]
      [] e = "Selection"                         -> [s EXCEPT !.phase = "Merging"]
      [] e \in {"MergeResolved", "ManualMerge"}  -> [s EXCEPT !.phase = "Resolved"]
      [] e = "TaskFailed"                        -> [s EXCEPT !.phase = "Failed"]
      [] OTHER                                   -> s

(* TaskStore::mark_resolved, mark_failed, set_phase: no entry, no effect.  *)
Mark(phase) == entry' = {[s EXCEPT !.phase = phase] : s \in entry}

(* TaskStore::get_for_tenant                                               *)
EntryOf(t) == {s \in entry : s.tenant = t}

NoReader == [pc |-> "idle", tenant |-> Default, state |-> NewState(Default), from |-> 0,
             pos |-> 1, seen |-> 0, began |-> 0, ended |-> "no"]

Init ==
    /\ owner \in Tenants
    /\ entry = {} /\ job = "new" /\ queue = <<>> /\ count = 0 /\ faults = 0 /\ writes = {}
    /\ log = <<>> /\ snapshot = {}
    /\ reader = NoReader

-----------------------------------------------------------------------------
(* The live task: the store is written while the engine runs, the events   *)
(* the store and the replay agree on are published once it has returned.   *)

Submit ==
    /\ job = "new"
    /\ entry' = {NewState(owner)}
    /\ job' = "engine"
    /\ UNCHANGED <<owner, queue, count, faults, writes, log, snapshot, reader>>

(* What the engine tells of its own course, from the thinking loop's end   *)
(* to an approval, is published as it happens and noted by nobody; the     *)
(* store and the replay leave it aside.                                    *)
EngineReports ==
    /\ job = "engine" /\ Len(log) < MaxReports
    /\ log' = Append(log, "Diagnostic")
    /\ UNCHANGED <<owner, serverVars, snapshot, reader>>

Copies(e, n) == [i \in 1..n |-> e]

(* Events of a resolved run, in the order post_run publishes them.  Of the *)
(* explorers p pass verification, f are rejected by it and g fail to       *)
(* generate; the auditor keeps a of the p.                                 *)
RunEvents(p, f, a) ==
    <<"Complexity">> \o Copies("Scored", p) \o Copies("Rejected", f)
        \o Copies("ProposalFailed", Explorers - p - f) \o Copies("BranchPruned", f + p - a)
        \o <<"Selection", "Attribution", "Diagnostic", "MergeResolved">>

(* The wave counts every explorer when it returns, every verified proposal *)
(* as valid, and every one the auditor keeps as valid again.               *)
Worked(s, p, a) == [s EXCEPT !.completed = Explorers, !.valid = p + a]

EngineResolves(p, f, a) ==
    /\ job = "engine" /\ p + f <= Explorers
    /\ a \in 1..p
    /\ entry' = {[Worked(s, p, a) EXCEPT !.phase = "Resolved"] : s \in entry}
    /\ queue' = RunEvents(p, f, a)
    /\ job' = "publishing"
    /\ UNCHANGED <<owner, count, faults, writes, log, snapshot, reader>>

(* An exhausted run publishes its verification events without noting them. *)
EngineFails(p, f) ==
    /\ job = "engine" /\ p + f <= Explorers
    /\ entry' = {[Worked(s, p, 0) EXCEPT !.phase = "Failed"] : s \in entry}
    /\ queue' = Copies("Scored", p) \o Copies("Rejected", f) \o <<"TaskFailed">>
    /\ job' = "failing"
    /\ UNCHANGED <<owner, count, faults, writes, log, snapshot, reader>>

-----------------------------------------------------------------------------
(* Publishing.  publish_event_seq waits for the acknowledgement, which can *)
(* be lost after the event was stored; publish_event does not wait.        *)

Noted == {"Complexity", "Scored", "Rejected", "ProposalFailed", "BranchPruned", "Selection",
          "Attribution"}

(* EventCounter::tick and note_event: every Interval-th noted event spawns *)
(* a write of the live state under that event's sequence number.           *)
SnapshotBlank(seq, s) == [seq |-> seq, state |-> NewState(s.tenant)]
Snapshot(seq, s) == [seq |-> seq, state |-> s]

NoteEvent(seq) ==
    IF Interval = 0 \/ entry = {}
    THEN UNCHANGED <<count, writes>>
    ELSE /\ count' = (count + 1) % Interval
         /\ writes' = IF count + 1 = Interval
                      THEN writes \cup {Snapshot(seq, s) : s \in entry}
                      ELSE writes

PublishAcked ==
    /\ job = "publishing" /\ queue # <<>> /\ Head(queue) \in Noted
    /\ log' = Append(log, Head(queue))
    /\ NoteEvent(Len(log) + 1)
    /\ queue' = Tail(queue)
    /\ UNCHANGED <<owner, entry, job, faults, snapshot, reader>>

(* Diagnostics, conclusions and the events of a failed run: nobody keeps   *)
(* their sequence number.                                                  *)
PublishUnnoted ==
    /\ queue # <<>>
    /\ \/ job = "failing"
       \/ job = "publishing" /\ Head(queue) \notin Noted
    /\ log' = Append(log, Head(queue))
    /\ queue' = Tail(queue)
    /\ UNCHANGED <<owner, entry, job, count, faults, writes, snapshot, reader>>

(* A publish that fails is logged and skipped; the event may have been     *)
(* stored all the same when the acknowledgement was what got lost.         *)
PublishFails ==
    /\ queue # <<>> /\ faults < MaxFaults
    /\ log' \in {log, Append(log, Head(queue))}
    /\ queue' = Tail(queue)
    /\ faults' = faults + 1
    /\ UNCHANGED <<owner, entry, job, count, writes, snapshot, reader>>

(* The last event is out: the store is marked.                             *)
Finish ==
    /\ job \in {"publishing", "failing"} /\ queue = <<>>
    /\ Mark(IF job = "failing" THEN "Failed" ELSE "Resolved")
    /\ job' = "done"
    /\ UNCHANGED <<owner, queue, count, faults, writes, log, snapshot, reader>>

(* Spawned snapshot writes land in any order, or fail with a warning.      *)
SnapshotLands(w) ==
    /\ snapshot' = {w}
    /\ writes' = writes \ {w}
    /\ UNCHANGED <<owner, entry, job, queue, count, faults, log, reader>>

SnapshotFails(w) ==
    /\ writes' = writes \ {w}
    /\ UNCHANGED <<owner, entry, job, queue, count, faults, log, snapshot, reader>>

-----------------------------------------------------------------------------
(* The operator's merge, the crash of the server, the resumed task.        *)

(* POST .../merge: the conclusion is published, then the store marked.     *)
MergeTask ==
    /\ Len(log) < MaxLog
    /\ \E s \in entry : s.phase # "Resolved"
    /\ log' \in {log, Append(log, "ManualMerge")}
    /\ Mark("Resolved")
    /\ UNCHANGED <<owner, job, queue, count, faults, writes, snapshot, reader>>

(* A crash finds a checkpoint only while the events of a resolved run are  *)
(* being published: it is written, best effort, just before the first, and *)
(* dropped after the last.                                                 *)
Crash ==
    /\ job # "new"
    /\ job' \in IF job = "publishing" THEN {"lost", "resumable"} ELSE {"lost"}
    /\ entry' = {} /\ queue' = <<>> /\ count' = 0 /\ writes' = {}
    /\ reader' = NoReader
    /\ UNCHANGED <<owner, faults, log, snapshot>>

(* The new server resumes the task from its checkpoint, unless the log     *)
(* holds a conclusion; the resumed run publishes its conclusion only.      *)
Resume ==
    /\ job = "resumable"
    /\ \A i \in DOMAIN log : log[i] \notin Terminal
    /\ entry' = {[NewState(owner) EXCEPT !.phase = "Merging"]}
    /\ job' = "publishing"
    /\ queue' = <<"MergeResolved">>
    /\ UNCHANGED <<owner, count, faults, writes, log, snapshot, reader>>

-----------------------------------------------------------------------------
(* SessionJournal::replay and the recover route.                           *)

(* First position a tail that starts from a sequence number delivers.      *)
TailFromSkipping(seq) == IF seq = 0 THEN 1 ELSE seq + 2
TailFrom(seq) == IF seq = 0 THEN 1 ELSE seq + 1

(* The stored snapshot is the start; without one, or when it cannot be     *)
(* loaded or decoded, a state of the default tenant and the whole log.     *)
ReplayLoad(t) ==
    /\ reader.pc = "idle"
    /\ \E start \in snapshot \cup {Snapshot(0, NewState(Default))} :
          reader' = [NoReader EXCEPT !.pc = "tail", !.tenant = t, !.state = start.state,
                                     !.from = start.seq, !.pos = TailFrom(start.seq),
                                     !.began = Len(log)]
    /\ UNCHANGED <<owner, serverVars, log, snapshot>>

ReplayNext ==
    /\ reader.pc = "tail" /\ reader.pos <= Len(log)
    /\ LET e == log[reader.pos] IN
         reader' = [reader EXCEPT !.state = Apply(@, e), !.pos = @ + 1, !.seen = @ + 1,
                                  !.pc = IF e \in Terminal THEN "decide" ELSE @,
                                  !.ended = IF e \in Terminal THEN "terminal" ELSE @]
    /\ UNCHANGED <<owner, serverVars, log, snapshot>>

(* 200 ms without an event: the replay is taken to have caught up, whether *)
(* the log is exhausted or its delivery is slow.                           *)
NoTimeout == FALSE
IdleTimeout == TRUE

ReplayIdle ==
    /\ reader.pc = "tail" /\ IdleTimeout
    /\ reader' = [reader EXCEPT !.pc = "decide",
                                !.ended = IF reader.pos > Len(log) THEN "drained" ELSE "slow"]
    /\ UNCHANGED <<owner, serverVars, log, snapshot>>

(* The consumer cannot be created or an item is an error: 503.             *)
ReplayBreaks ==
    /\ reader.pc = "tail"
    /\ reader' = NoReader
    /\ UNCHANGED <<owner, serverVars, log, snapshot>>

(* Nothing was replayed and nothing restored.                              *)
Nothing(r) == r.seen = 0 /\ r.from = 0

(* The state is handed out to its own tenant; it is put in the store when  *)
(* the asking tenant has no entry there.                                   *)
Found(r) == ~Nothing(r) /\ r.state.tenant = r.tenant

Decide ==
    /\ reader.pc = "decide"
    /\ reader' = NoReader
    /\ entry' = IF Found(reader) /\ EntryOf(reader.tenant) = {} THEN {reader.state} ELSE entry
    /\ UNCHANGED <<owner, job, queue, count, faults, writes, log, snapshot>>

-----------------------------------------------------------------------------
Replay == ReplayNext \/ ReplayIdle \/ Decide

Next ==
    \/ Submit \/ EngineReports
    \/ \E p, f \in 0..Explorers :
          EngineFails(p, f) \/ \E a \in 0..Explorers : EngineResolves(p, f, a)
    \/ PublishAcked \/ PublishUnnoted \/ PublishFails \/ Finish
    \/ \E w \in writes : SnapshotLands(w) \/ SnapshotFails(w)
    \/ MergeTask \/ Crash \/ Resume
    \/ \E t \in Tenants : ReplayLoad(t)
    \/ ReplayNext \/ ReplayIdle \/ ReplayBreaks \/ Decide

Spec == Init /\ [][Next]_vars

(* The request's own future runs to its end: a tokio timer fires, the      *)
(* stream delivers what is stored.                                         *)
FairSpec == Spec /\ WF_vars(Replay)

-----------------------------------------------------------------------------
TypeOK ==
    /\ owner \in Tenants
    /\ entry \subseteq TaskState /\ Cardinality(entry) <= 1
    /\ job \in {"new", "engine", "publishing", "failing", "done", "lost",
               "resumable"}
    /\ queue \in Seq(Events) /\ log \in Seq(Events)
    /\ count \in 0..Interval /\ faults \in 0..MaxFaults
    /\ writes \subseteq [seq : Nat, state : TaskState]
    /\ snapshot \subseteq [seq : Nat, state : TaskState] /\ Cardinality(snapshot) <= 1
    /\ reader \in [pc : {"idle", "tail", "decide"}, tenant : Tenants,
                   state : TaskState, from : Nat, pos : Nat, seen : Nat, began : Nat,
                   ended : {"no", "terminal", "drained", "slow"}]

Answered == reader.pc = "decide" /\ reader.ended \in {"terminal", "drained"}
LoggedBefore(es) == {i \in 1..reader.began : log[i] \in es}

(* A replay that reads its log to the end reports a concluded task         *)
(* whenever the pipeline's conclusion was in the log when the replay       *)
(* began, whichever snapshot it starts from: snapshots are written in any  *)
(* order (session_journal.rs:77), but none has a sequence number at or     *)
(* after the conclusion's.                                                 *)
ConclusionReplayed ==
    Answered /\ Found(reader) /\ LoggedBefore({"MergeResolved", "TaskFailed"}) # {}
        => reader.state.phase \in {"Resolved", "Failed"}

(* A replay of the default tenant's task that reads its log to the end     *)
(* loses no verified proposal: it                                          *)
(* counts at least as many as the log held when it began.  A snapshot      *)
(* stands for every event up to its sequence number, so an older one       *)
(* overwriting a newer one costs replay time and no information.           *)
NoProposalForgotten ==
    Answered /\ reader.ended = "drained" /\ Found(reader) /\ owner = Default
        => reader.state.valid >= Cardinality(LoggedBefore({"Scored"}))

(* A recover request is answered: the replay ends at a conclusion, or at   *)
(* the first 200 ms in which no event arrives, also for a task that never  *)
(* concluded.                                                              *)
ReplayEnds == reader.pc = "tail" ~> reader.pc # "tail"

(* The entry of a task whose pipeline is at work stays in the store while  *)
(* the recover route answers, as its comment wants it                      *)
(* (routes/recovery.rs:36): what is looked up is an entry of the asking    *)
(* tenant, what is written is the entry of the task.                       *)
LiveEntryKept ==
    [][Decide /\ job \in {"engine", "publishing", "failing"} /\ entry # {} => entry' = entry]_vars

=============================================================================
