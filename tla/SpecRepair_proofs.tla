-------------------------- MODULE SpecRepair_proofs --------------------------
(***************************************************************************)
(* Spec repair on shared sources, for any number of callers and nodes, any *)
(* directories, rewrites and bounds: two advisors on one in-memory source  *)
(* never undo each other's checks, and the bucket's pointer names a stored *)
(* record of its version unless that very record could not be put (SInv).  *)
(*                                                                         *)
(* And the task's own repair, on any directory: a restart rewrites the     *)
(* reported check and no other.  That needs where the report comes from    *)
(* (the scorecards go back to the scanner), that a corpus has one document *)
(* of an id, maybe more than once, and that the engine, alone on its private source, never meets *)
(* a conflict (TaskInv).                                                   *)
(***************************************************************************)
EXTENDS SpecRepair, WellFoundedInduction, NaturalsInduction, FiniteSetTheorems, TLAPS

\* The sources that callers share, and the places where a call is under way.
Shared == Nodes \cup {Memory}
Active == {"generate", "load", "pointer", "record", "warm", "create", "put_version", "put_latest"}
AtBucket == {"pointer", "record", "warm", "put_version", "put_latest"}
JobFields == {"src", "id", "idx", "expected", "text", "spec", "read", "retry", "version",
              "ptr", "out"}

\* A spec of the constraint id, as far as the argument looks at it.
IsSpec(x, id) == {"id", "checks", "version"} \subseteq DOMAIN x /\ x.id = id /\ x.version \in Nat

\* The source wraps a spec of this id.
Known(s, id) == \E n \in DOMAIN inner[s] : inner[s][n].id = id

\* Overrides and records are kept under their id, records under their version.
StoreInv ==
    /\ DOMAIN inner = Sources /\ DOMAIN override = Sources
    /\ DOMAIN kv = {"version", "latest"}
    /\ \A s \in Shared : \A n \in DOMAIN inner[s] :
          IsSpec(inner[s][n], inner[s][n].id) /\ inner[s][n].version = 1
    /\ \A s \in Shared : \A i \in DOMAIN override[s] : IsSpec(override[s][i], i)
    /\ \A k \in DOMAIN kv.version : IsSpec(kv.version[k], k[1]) /\ kv.version[k].version = k[2]

\* The task engine works on its private source, without a bucket.
EngineInv ==
    /\ DOMAIN at = AllCallers /\ DOMAIN job = AllCallers
    /\ job = [a \in AllCallers |-> job[a]]
    /\ DOMAIN job[Engine] = JobFields
    /\ at[Engine] \in Active => job[Engine].src = Private /\ at[Engine] \notin AtBucket

\* A call at place p with job j works on specs of its own constraint; what it
\* is about to store has the version it is stored under; and it publishes a
\* version only after the record.
JobOk(p, j) ==
    /\ DOMAIN j = JobFields /\ j.expected \in Nat
    /\ p \in Active => /\ j.src \in Shared /\ Known(j.src, j.id)
                       /\ \A x \in j.spec : IsSpec(x, j.id)
    /\ p \in AtBucket => j.src \in Nodes
    /\ p = "warm" => \A x \in j.read : IsSpec(x, j.id)
    /\ p = "put_version" => \A x \in j.spec : x.version = j.version
    /\ p = "put_latest" => <<j.id, j.version>> \in DOMAIN kv.version \cup unsaved

JobInv == \A a \in Callers : JobOk(at[a], job[a])

PointerInv ==
    \A id \in DOMAIN kv.latest : <<id, kv.latest[id]>> \in DOMAIN kv.version \cup unsaved

\* What the shared in-memory source answers for an id.
Current(id) ==
    IF id \in DOMAIN override[Memory] THEN override[Memory][id] ELSE DocOf(inner[Memory], id)

\* A call on the in-memory source: the version it expects has been reached; a
\* reload after a conflict finds a newer one; and the rewritten spec differs
\* from the current one in the rewritten check only, unless the version moved.
MemOk(p, j) ==
    j.src = Memory /\ p \in Active =>
        /\ j.expected <= Current(j.id).version
        /\ p # "generate" => \E t \in Rewrites : j.text = {t}
        /\ j.retry => p = "load" /\ j.expected < Current(j.id).version
        /\ p = "create" => \A x \in j.spec :
              /\ j.expected <= x.version /\ x.version <= Current(j.id).version
              /\ j.idx \in DOMAIN x.checks /\ j.text = {x.checks[j.idx]}
              /\ x.version = Current(j.id).version =>
                    /\ DOMAIN x.checks = DOMAIN Current(j.id).checks
                    /\ \A k \in DOMAIN x.checks \ {j.idx} :
                          x.checks[k] = Current(j.id).checks[k]

MemInv == \A a \in Callers : MemOk(at[a], job[a])

\* What was created is overridden since.
LogInv ==
    \A i \in DOMAIN log : log[i].src = Memory =>
        /\ log[i].id \in DOMAIN override[Memory]
        /\ log[i].idx \in DOMAIN override[Memory][log[i].id].checks

SInv ==
    StoreInv /\ EngineInv /\ JobInv /\ PointerInv /\ MemInv /\ LogInv /\ NoLostRepair
    /\ \E S : log \in Seq(S)

-----------------------------------------------------------------------------
(* Specs and jobs *)

LEMMA Names ==
  /\ Shared \subseteq Sources /\ Private \notin Shared /\ Memory \in Shared /\ Memory \notin Nodes
  /\ Nodes \subseteq Shared /\ Callers \subseteq AllCallers /\ Engine \in AllCallers
  /\ \A a \in Callers : a # Engine
BY NamesAssumption DEF Shared, Sources, Memory, Private, AllCallers

\* A source that wraps a spec of an id finds one.
LEMMA Wrapped ==
  ASSUME StoreInv, NEW s \in Shared, NEW id, Known(s, id)
  PROVE  IsSpec(DocOf(inner[s], id), id) /\ DocOf(inner[s], id).version = 1
<1>1. PICK n \in DOMAIN inner[s] : inner[s][n].id = id
  BY DEF Known
<1>2. inner[s][n] \in ToSet(inner[s])
  BY DEF ToSet
<1>3. DocOf(inner[s], id) \in ToSet(inner[s]) /\ DocOf(inner[s], id).id = id
  BY <1>1, <1>2 DEF DocOf
<1>4. PICK m \in DOMAIN inner[s] : DocOf(inner[s], id) = inner[s][m]
  BY <1>3 DEF ToSet
<1> QED
  BY <1>3, <1>4 DEF StoreInv

\* Rewriting a check or the version changes nothing else.
LEMMA Rewritten ==
  ASSUME NEW x, NEW id, IsSpec(x, id), NEW k, NEW t
  PROVE  LET y == [x EXCEPT !.checks[k] = t]
         IN  /\ IsSpec(y, id) /\ y.version = x.version
             /\ DOMAIN y.checks = DOMAIN x.checks
             /\ k \in DOMAIN x.checks => y.checks[k] = t
             /\ \A l \in DOMAIN x.checks \ {k} : y.checks[l] = x.checks[l]
BY DEF IsSpec

\* A new version changes the version only.
LEMMA Versioned ==
  ASSUME NEW x, NEW id, IsSpec(x, id), NEW v \in Nat
  PROVE  LET y == [x EXCEPT !.version = v]
         IN  IsSpec(y, id) /\ y.version = v /\ y.checks = x.checks
BY DEF IsSpec

\* A job with one field changed.
LEMMA JobField ==
  ASSUME NEW j, DOMAIN j = JobFields, NEW f \in JobFields, NEW v
  PROVE  LET i == [j EXCEPT ![f] = v]
         IN  DOMAIN i = JobFields /\ i[f] = v /\ \A g \in JobFields \ {f} : i[g] = j[g]
OBVIOUS

\* A job before it is filled in.
LEMMA NoJobShape ==
  /\ DOMAIN NoJob = JobFields /\ NoJob.src = Memory /\ NoJob.expected = 0 /\ NoJob.spec = {}
  /\ NoJob.read = {} /\ NoJob.retry = FALSE /\ NoJob.text = {}
BY DEF NoJob, JobFields

\* One caller moves.
LEMMA Moved ==
  ASSUME EngineInv, NEW a \in AllCallers, NEW p, NEW j,
         at' = [at EXCEPT ![a] = p], job' = [job EXCEPT ![a] = j]
  PROVE  /\ DOMAIN at' = AllCallers /\ DOMAIN job' = AllCallers
         /\ job' = [b \in AllCallers |-> job'[b]]
         /\ at'[a] = p /\ job'[a] = j
         /\ \A b \in AllCallers \ {a} : at'[b] = at[b] /\ job'[b] = job[b]
BY DEF EngineInv

\* A call that got a spec: it goes on to the create, or it is over.
LEMMA GotSpecShape ==
  ASSUME EngineInv, NEW a \in AllCallers, NEW spec, DOMAIN job[a] = JobFields, GotSpec(a, spec)
  PROVE  \E p, j :
           /\ at' = [at EXCEPT ![a] = p] /\ job' = [job EXCEPT ![a] = j]
           /\ DOMAIN j = JobFields /\ j.src = job[a].src /\ j.id = job[a].id
           /\ \/ /\ p = "create" /\ ~job[a].retry /\ job[a].idx \in DOMAIN spec.checks
                 /\ j.spec = {RewriteOf(job[a], spec)} /\ j.expected = job[a].expected
                 /\ j.retry = job[a].retry /\ j.text = job[a].text /\ j.idx = job[a].idx
              \/ p = "done" /\ j.expected = job[a].expected
              \/ /\ p = "create" /\ job[a].retry /\ spec.version <= job[a].expected
                 /\ j.spec = job[a].spec /\ j.expected = spec.version
<1> DEFINE old == job[a]
<1>1. CASE /\ ~old.retry /\ old.idx \in DOMAIN spec.checks
           /\ at' = [at EXCEPT ![a] = "create"]
           /\ job' = [job EXCEPT ![a].spec = {RewriteOf(old, spec)}]
  <2> DEFINE j == [old EXCEPT !.spec = {RewriteOf(old, spec)}]
  <2>1. job' = [job EXCEPT ![a] = j]
    BY <1>1
  <2>2. DOMAIN j = JobFields /\ j.spec = {RewriteOf(old, spec)} /\ j.src = old.src
        /\ j.id = old.id /\ j.expected = old.expected /\ j.retry = old.retry
        /\ j.text = old.text /\ j.idx = old.idx
    BY DEF JobFields
  <2> HIDE DEF j
  <2> QED
    BY <1>1, <2>1, <2>2
<1>2. ASSUME NEW out, NEW i, Finish(a, i, out), i = old \/ i = [old EXCEPT !.version = spec.version]
      PROVE  \E j : /\ at' = [at EXCEPT ![a] = "done"] /\ job' = [job EXCEPT ![a] = j]
                    /\ DOMAIN j = JobFields /\ j.src = job[a].src /\ j.id = job[a].id
                    /\ j.expected = job[a].expected
  <2>1. DOMAIN i = JobFields /\ i.src = old.src /\ i.id = old.id /\ i.expected = old.expected
    BY <1>2 DEF JobFields
  <2>2. LET j == [i EXCEPT !.out = out] IN
        DOMAIN j = JobFields /\ j.src = old.src /\ j.id = old.id /\ j.expected = old.expected
    BY <2>1 DEF JobFields
  <2> QED
    BY <1>2, <2>2 DEF Finish
<1>3. CASE /\ old.retry /\ spec.version <= old.expected
           /\ at' = [at EXCEPT ![a] = "create"]
           /\ job' = [job EXCEPT ![a].expected = spec.version]
  <2> DEFINE j == [old EXCEPT !.expected = spec.version]
  <2>1. job' = [job EXCEPT ![a] = j]
    BY <1>3
  <2>2. DOMAIN j = JobFields /\ j.spec = old.spec /\ j.src = old.src
        /\ j.id = old.id /\ j.expected = spec.version
    BY DEF JobFields
  <2> HIDE DEF j
  <2> QED
    BY <1>3, <2>1, <2>2
<1> QED
  BY <1>1, <1>2, <1>3 DEF GotSpec

-----------------------------------------------------------------------------
(* Steps that leave the shared sources alone *)

\* Nothing the invariant looks at changes, except the engine's own part.
LEMMA SharedSame ==
  ASSUME SInv, EngineInv', UNCHANGED <<kv, log, unsaved>>,
         DOMAIN inner' = Sources, DOMAIN override' = Sources,
         \A s \in Shared : inner'[s] = inner[s] /\ override'[s] = override[s],
         \A b \in Callers : at'[b] = at[b] /\ job'[b] = job[b]
  PROVE  SInv'
<1>0. Memory \in Shared
  BY Names
<1>1. StoreInv'
  BY DEF SInv, StoreInv
<1>2. ASSUME NEW b \in Callers PROVE JobOk(at[b], job[b])' /\ MemOk(at[b], job[b])'
  <2>1. JobOk(at[b], job[b]) /\ MemOk(at[b], job[b])
    BY DEF SInv, JobInv, MemInv
  <2>2. JobOk(at[b], job[b])'
    BY <2>1 DEF JobOk, Known
  <2>3. MemOk(at[b], job[b])'
    BY <1>0, <2>1 DEF MemOk, Current
  <2> QED
    BY <2>2, <2>3
<1>3. JobInv' /\ MemInv'
  BY <1>2 DEF JobInv, MemInv
<1>4. PointerInv' /\ LogInv' /\ NoLostRepair' /\ (\E S : log \in Seq(S))'
  BY <1>0 DEF SInv, PointerInv, LogInv, NoLostRepair
<1> QED
  BY <1>1, <1>3, <1>4 DEF SInv

\* The task's own steps.
LEMMA TaskStep ==
  ASSUME SInv, UNCHANGED <<storeVars, at, job, log, unsaved>>
  PROVE  SInv'
<1>1. EngineInv'
  BY DEF SInv, EngineInv
<1>2. DOMAIN inner' = Sources /\ DOMAIN override' = Sources
  BY DEF SInv, StoreInv, storeVars
<1> QED
  BY <1>1, <1>2, SharedSame DEF storeVars

\* The engine starts a repair on its private source, and ends it.
LEMMA EngineSteps ==
  ASSUME SInv, StartEngineRepair \/ RestartTask \/ RepairFailed
  PROVE  SInv'
<1>0. EngineInv /\ DOMAIN inner = Sources /\ DOMAIN override = Sources
  BY DEF SInv, StoreInv
<1>1. CASE StartEngineRepair
  <2>1. PICK sig \in signal :
          job' = [job EXCEPT ![Engine] =
                     [NoJob EXCEPT !.src = Private, !.id = sig.id, !.idx = sig.idx,
                                   !.expected = DocOf(corpus, sig.id).version]]
    BY <1>1 DEF StartEngineRepair
  <2>2. /\ UNCHANGED <<kv, log, unsaved>> /\ at' = [at EXCEPT ![Engine] = "generate"]
        /\ inner' = [inner EXCEPT ![Private] = [i \in DOMAIN corpus |-> MinimalSpec(corpus[i])]]
        /\ override' = [override EXCEPT ![Private] = Idle]
    BY <1>1 DEF StartEngineRepair
  <2> DEFINE j == [NoJob EXCEPT !.src = Private, !.id = sig.id, !.idx = sig.idx,
                                !.expected = DocOf(corpus, sig.id).version]
  <2>3. DOMAIN j = JobFields /\ j.src = Private
    BY NoJobShape DEF JobFields
  <2> HIDE DEF j
  <2>4. job' = [job EXCEPT ![Engine] = j]
    BY <2>1 DEF j
  <2>5. EngineInv'
    BY <1>0, <2>2, <2>3, <2>4, Moved, Names DEF EngineInv, AtBucket
  <2>6. \A b \in Callers : at'[b] = at[b] /\ job'[b] = job[b]
    BY <1>0, <2>2, <2>4, Moved, Names
  <2>7. /\ DOMAIN inner' = Sources /\ DOMAIN override' = Sources
        /\ \A s \in Shared : inner'[s] = inner[s] /\ override'[s] = override[s]
    BY <1>0, <2>2, Names
  <2> QED
    BY <2>2, <2>5, <2>6, <2>7, SharedSame
<1>2. CASE RestartTask \/ RepairFailed
  <2>1. /\ UNCHANGED <<storeVars, log, unsaved>>
        /\ at' = [at EXCEPT ![Engine] = "idle"] /\ job' = [job EXCEPT ![Engine] = NoJob]
    BY <1>2 DEF RestartTask, RepairFailed
  <2>2. EngineInv'
    BY <1>0, <2>1, Moved, Names, NoJobShape DEF EngineInv, Active
  <2>3. \A b \in Callers : at'[b] = at[b] /\ job'[b] = job[b]
    BY <1>0, <2>1, Moved, Names
  <2> QED
    BY <1>0, <2>1, <2>2, <2>3, SharedSame DEF storeVars
<1> QED
  BY <1>1, <1>2

\* The engine's advisor works on the private source only.
LEMMA EngineAdvisor == ASSUME SInv, Advisor(Engine) PROVE SInv'
<1>0. /\ EngineInv /\ DOMAIN inner = Sources /\ DOMAIN override = Sources
      /\ DOMAIN job[Engine] = JobFields
      /\ at[Engine] \in Active => job[Engine].src = Private /\ at[Engine] \notin AtBucket
  BY DEF SInv, StoreInv, EngineInv
<1>1. ASSUME NEW p, NEW j, at' = [at EXCEPT ![Engine] = p], job' = [job EXCEPT ![Engine] = j],
             DOMAIN j = JobFields, p \in {"load", "create", "done"}, j.src = job[Engine].src,
             at[Engine] \in Active,
             UNCHANGED <<inner, kv, log, unsaved>>, DOMAIN override' = Sources,
             \A s \in Shared : override'[s] = override[s]
      PROVE  SInv'
  <2>1. EngineInv'
    BY <1>0, <1>1, Moved, Names DEF EngineInv, AtBucket
  <2>2. \A b \in Callers : at'[b] = at[b] /\ job'[b] = job[b]
    BY <1>0, <1>1, Moved, Names
  <2> QED
    BY <1>0, <1>1, <2>1, <2>2, SharedSame
<1>2. ASSUME NEW i, NEW out, DOMAIN i = JobFields, Finish(Engine, i, out)
      PROVE  \E j : /\ at' = [at EXCEPT ![Engine] = "done"] /\ job' = [job EXCEPT ![Engine] = j]
                    /\ DOMAIN j = JobFields /\ j.src = i.src
  <2>1. LET j == [i EXCEPT !.out = out] IN DOMAIN j = JobFields /\ j.src = i.src
    BY <1>2 DEF JobFields
  <2> QED
    BY <1>2, <2>1 DEF Finish
<1>3. CASE GenerateCandidates(Engine)
  <2>1. UNCHANGED <<inner, kv, log, unsaved, override>> /\ at[Engine] \in Active
    BY <1>3 DEF GenerateCandidates, storeVars, Active
  <2>2. PICK accepted \in Proposals :
           IF accepted = {} THEN Finish(Engine, job[Engine], "failed")
           ELSE /\ job' = [job EXCEPT ![Engine].text = accepted]
                /\ at' = [at EXCEPT ![Engine] = "load"]
    BY <1>3 DEF GenerateCandidates
  <2>3. CASE accepted = {}
    BY <1>0, <1>1, <1>2, <2>1, <2>2, <2>3
  <2>4. CASE accepted # {}
    <3> DEFINE j == [job[Engine] EXCEPT !.text = accepted]
    <3>1. DOMAIN j = JobFields /\ j.src = job[Engine].src
      BY <1>0 DEF JobFields
    <3>2. job' = [job EXCEPT ![Engine] = j] /\ at' = [at EXCEPT ![Engine] = "load"]
      BY <2>2, <2>4
    <3> HIDE DEF j
    <3> QED
      BY <1>0, <1>1, <2>1, <3>1, <3>2
  <2> QED
    BY <2>3, <2>4
<1>4. CASE LoadLatest(Engine)
  <2>1. UNCHANGED <<inner, kv, log, unsaved, override>> /\ at[Engine] \in Active
    BY <1>4 DEF LoadLatest, storeVars, Active
  <2>2. job[Engine].src \notin Nodes
    BY <1>0, <2>1, Names
  <2>3. PICK spec : GotSpec(Engine, spec)
    BY <1>4, <2>2 DEF LoadLatest
  <2>4. PICK q, i :
          /\ at' = [at EXCEPT ![Engine] = q] /\ job' = [job EXCEPT ![Engine] = i]
          /\ DOMAIN i = JobFields /\ i.src = job[Engine].src
          /\ q \in {"create", "done"}
    BY <1>0, <2>3, GotSpecShape, Names
  <2>5. q \in {"load", "create", "done"}
    BY <2>4
  <2>6. DOMAIN override' = Sources /\ \A s \in Shared : override'[s] = override[s]
    BY <1>0, <2>1
  <2>7. UNCHANGED <<inner, kv, log, unsaved>> /\ at[Engine] \in Active
    BY <2>1
  <2> QED
    BY <1>1, <2>4, <2>5, <2>6, <2>7
<1>5. CASE CreateNextVersion(Engine)
  <2>1. /\ UNCHANGED <<inner, kv, log, unsaved>> /\ at[Engine] = "create"
        /\ \E spec \in job[Engine].spec :
             LET new == [spec EXCEPT !.version = job[Engine].expected + 1]
             IN  /\ override' = [override EXCEPT ![job[Engine].src] =
                        [i \in DOMAIN override[job[Engine].src] \cup {job[Engine].id} |->
                            IF i = job[Engine].id THEN new ELSE override[job[Engine].src][i]]]
                 /\ IF job[Engine].src \in Nodes
                    THEN /\ at' = [at EXCEPT ![Engine] = "put_version"]
                         /\ job' = [job EXCEPT ![Engine].spec = {new},
                                               ![Engine].version = job[Engine].expected + 1]
                    ELSE Finish(Engine, [job[Engine] EXCEPT !.version = job[Engine].expected + 1],
                                "repaired")
    BY <1>5 DEF CreateNextVersion
  <2>2. at[Engine] \in Active /\ job[Engine].src = Private /\ Private \notin Nodes
    BY <1>0, <2>1, Names DEF Active
  <2>3. DOMAIN override' = Sources /\ \A s \in Shared : override'[s] = override[s]
    BY <1>0, <2>1, <2>2, Names
  <2> DEFINE i == [job[Engine] EXCEPT !.version = job[Engine].expected + 1]
  <2>4. DOMAIN i = JobFields /\ i.src = job[Engine].src
    BY <1>0 DEF JobFields
  <2>5. Finish(Engine, i, "repaired")
    BY <2>1, <2>2
  <2> HIDE DEF i
  <2>6. PICK k : /\ at' = [at EXCEPT ![Engine] = "done"] /\ job' = [job EXCEPT ![Engine] = k]
                 /\ DOMAIN k = JobFields /\ k.src = i.src
    BY <1>2, <2>4, <2>5
  <2>7. UNCHANGED <<inner, kv, log, unsaved>> /\ k.src = job[Engine].src
    BY <2>1, <2>4, <2>6
  <2> QED
    BY <1>1, <2>2, <2>3, <2>6, <2>7
<1>6. CASE VersionConflict(Engine)
  <2>1. /\ UNCHANGED <<inner, kv, log, unsaved, override>> /\ at[Engine] \in Active
        /\ IF job[Engine].retry THEN Finish(Engine, job[Engine], "failed")
           ELSE /\ at' = [at EXCEPT ![Engine] = "load"]
                /\ job' = [job EXCEPT ![Engine].retry = TRUE]
    BY <1>6 DEF VersionConflict, storeVars, Active
  <2>2. CASE job[Engine].retry
    BY <1>0, <1>1, <1>2, <2>1, <2>2
  <2>3. CASE ~job[Engine].retry
    <3> DEFINE j == [job[Engine] EXCEPT !.retry = TRUE]
    <3>1. DOMAIN j = JobFields /\ j.src = job[Engine].src
      BY <1>0 DEF JobFields
    <3>2. job' = [job EXCEPT ![Engine] = j] /\ at' = [at EXCEPT ![Engine] = "load"]
      BY <2>1, <2>3
    <3> HIDE DEF j
    <3> QED
      BY <1>0, <1>1, <2>1, <3>1, <3>2
  <2> QED
    BY <2>2, <2>3
<1>7. at[Engine] \notin {"pointer", "record", "warm", "put_version", "put_latest"}
  BY <1>0 DEF Active, AtBucket
<1> QED
  BY <1>3, <1>4, <1>5, <1>6, <1>7
     DEF Advisor, AdvisorOwn, ReadPointer, ReadRecord, ReadFails, WarmCache, PutVersion, PutLatest, PutFails

-----------------------------------------------------------------------------
(* The callers *)

LEMMA MoveOnly ==
  ASSUME SInv, NEW a \in Callers, NEW p, NEW j,
         at' = [at EXCEPT ![a] = p], job' = [job EXCEPT ![a] = j]
  PROVE  /\ EngineInv' /\ at'[a] = p /\ job'[a] = j
         /\ \A b \in Callers \ {a} : at'[b] = at[b] /\ job'[b] = job[b]
<1>1. /\ DOMAIN at' = AllCallers /\ DOMAIN job' = AllCallers
      /\ job' = [b \in AllCallers |-> job'[b]]
      /\ at'[a] = p /\ job'[a] = j
      /\ \A b \in AllCallers \ {a} : at'[b] = at[b] /\ job'[b] = job[b]
  BY Moved, Names DEF SInv
<1>2. EngineInv'
  BY <1>1, Names DEF SInv, EngineInv
<1> QED
  BY <1>1, <1>2, Names

\* A caller moves and touches nothing else.
LEMMA CallerMoves ==
  ASSUME SInv, NEW a \in Callers, NEW p, NEW j,
         at' = [at EXCEPT ![a] = p], job' = [job EXCEPT ![a] = j],
         UNCHANGED <<storeVars, log, unsaved>>, JobOk(p, j), MemOk(p, j)
  PROVE  SInv'
<1>1. /\ EngineInv' /\ at'[a] = p /\ job'[a] = j
      /\ \A b \in Callers \ {a} : at'[b] = at[b] /\ job'[b] = job[b]
  BY MoveOnly
<1>2. UNCHANGED <<inner, override, kv, log, unsaved>>
  BY DEF storeVars
<1>3. StoreInv'
  BY <1>2 DEF SInv, StoreInv
<1>4. ASSUME NEW b \in Callers PROVE JobOk(at[b], job[b])' /\ MemOk(at[b], job[b])'
  <2>1. CASE b = a
    BY <1>1, <1>2, <2>1 DEF JobOk, Known, MemOk, Current
  <2>2. CASE b # a
    <3>1. JobOk(at[b], job[b]) /\ MemOk(at[b], job[b])
      BY DEF SInv, JobInv, MemInv
    <3>2. at'[b] = at[b] /\ job'[b] = job[b]
      BY <1>1, <2>2
    <3>3. JobOk(at[b], job[b])'
      BY <1>2, <3>1, <3>2 DEF JobOk, Known
    <3>4. MemOk(at[b], job[b])'
      BY <1>2, <3>1, <3>2 DEF MemOk, Current
    <3> QED
      BY <3>3, <3>4
  <2> QED
    BY <2>1, <2>2
<1>5. JobInv' /\ MemInv'
  BY <1>4 DEF JobInv, MemInv
<1>6. PointerInv' /\ LogInv' /\ NoLostRepair' /\ (\E S : log \in Seq(S))'
  BY <1>2 DEF SInv, PointerInv, LogInv, NoLostRepair
<1> QED
  BY <1>1, <1>3, <1>5, <1>6 DEF SInv

\* A call ends: nothing is asked of it any more.
LEMMA Ended ==
  ASSUME NEW a \in Callers, NEW i, NEW out, DOMAIN i = JobFields, i.expected \in Nat,
         Finish(a, i, out)
  PROVE  \E j : /\ at' = [at EXCEPT ![a] = "done"] /\ job' = [job EXCEPT ![a] = j]
                /\ JobOk("done", j) /\ MemOk("done", j)
<1> DEFINE j == [i EXCEPT !.out = out]
<1>1. DOMAIN j = JobFields /\ j.expected \in Nat
  BY DEF JobFields
<1>2. at' = [at EXCEPT ![a] = "done"] /\ job' = [job EXCEPT ![a] = j]
  BY DEF Finish
<1> HIDE DEF j
<1>3. JobOk("done", j) /\ MemOk("done", j)
  BY <1>1 DEF JobOk, MemOk, Active, AtBucket
<1> QED
  BY <1>2, <1>3

\* At most one candidate is accepted.
LEMMA OneProposal ==
  ASSUME NEW accepted \in Proposals, accepted # {}
  PROVE  \E t \in Rewrites : accepted = {t}
<1>1. PICK n \in 0..Cardinality(Rewrites) :
        accepted \in {Accepted(c, p) : c \in [1..n -> Rewrites], p \in [1..n -> Probes]}
  BY DEF Proposals
<1>2. PICK c \in [1..n -> Rewrites], p \in [1..n -> Probes] : accepted = Accepted(c, p)
  BY <1>1
<1>3. ASSUME NEW q \in Probes PROVE Consistency(q) \in Int
  <2>1. q.pass \in Int /\ q.total \in Int /\ ProbeRuns \in Nat \ {0}
    BY BoundsAssumption DEF Probes
  <2>2. ProbeRuns \div 2 \in Nat
    BY <2>1
  <2>3. CASE q.total < ProbeRuns \div 2 + 1
    BY <2>3 DEF Consistency
  <2>4. CASE ~(q.total < ProbeRuns \div 2 + 1)
    <3>1. q.total > 0 /\ q.pass * 100 \in Int
      BY <2>1, <2>2, <2>4
    <3>2. (q.pass * 100) \div q.total \in Int
      BY <2>1, <3>1
    <3> QED
      BY <2>4, <3>2 DEF Consistency
  <2> QED
    BY <2>3, <2>4
<1>4. ASSUME NEW i \in Best(c, p), NEW k \in Best(c, p) PROVE i = k
  <2>1. i \in 1..n /\ k \in 1..n /\ DOMAIN c = 1..n /\ i \in Int /\ k \in Int
    BY DEF Best
  <2>2. PICK x, y : x = Consistency(p[i]) /\ y = Consistency(p[k])
    OBVIOUS
  <2>3. x \in Int /\ y \in Int
    BY <1>3, <2>1, <2>2
  <2>4. (y < x \/ (y = x /\ i <= k)) /\ (x < y \/ (x = y /\ k <= i))
    BY <2>1, <2>2 DEF Best
  <2> QED
    BY <2>1, <2>3, <2>4
<1>5. PICK i \in Best(c, p) : c[i] \in accepted /\ Consistency(p[i]) >= Acceptance
  BY <1>2 DEF Accepted
<1>6. accepted = {c[i]}
  BY <1>2, <1>4, <1>5 DEF Accepted
<1>7. i \in 1..n
  BY DEF Best
<1> QED
  BY <1>6, <1>7

\* A caller moves; the buckets and the nodes' overrides may change.
LEMMA CallerStep ==
  ASSUME SInv, NEW a \in Callers, NEW p, NEW j,
         at' = [at EXCEPT ![a] = p], job' = [job EXCEPT ![a] = j],
         UNCHANGED <<inner, log>>, override'[Memory] = override[Memory],
         unsaved \subseteq unsaved', DOMAIN kv.version \subseteq DOMAIN kv'.version,
         StoreInv', PointerInv', JobOk(at[a], job[a])', MemOk(at[a], job[a])'
  PROVE  SInv'
<1>1. /\ EngineInv' /\ \A b \in Callers \ {a} : at'[b] = at[b] /\ job'[b] = job[b]
  BY MoveOnly
<1>2. ASSUME NEW b \in Callers PROVE JobOk(at[b], job[b])' /\ MemOk(at[b], job[b])'
  <2>1. CASE b = a
    BY <2>1
  <2>2. CASE b # a
    <3>1. JobOk(at[b], job[b]) /\ MemOk(at[b], job[b])
      BY DEF SInv, JobInv, MemInv
    <3>2. at'[b] = at[b] /\ job'[b] = job[b]
      BY <1>1, <2>2
    <3>3. JobOk(at[b], job[b])'
      BY <3>1, <3>2 DEF JobOk, Known
    <3>4. Current(job[b].id)' = Current(job[b].id)
      BY <3>2 DEF Current
    <3>5. MemOk(at[b], job[b])'
      BY <3>1, <3>2, <3>4 DEF MemOk
    <3> QED
      BY <3>3, <3>5
  <2> QED
    BY <2>1, <2>2
<1>3. JobInv' /\ MemInv'
  BY <1>2 DEF JobInv, MemInv
<1>4. LogInv' /\ NoLostRepair' /\ (\E S : log \in Seq(S))'
  BY DEF SInv, LogInv, NoLostRepair
<1> QED
  BY <1>1, <1>3, <1>4 DEF SInv

\* A caller starts: the version it saw is the current one.
LEMMA CallStep ==
  ASSUME SInv, NEW a \in Callers, NEW s \in Sources \ {Private}, CallAdvisor(a, s)
  PROVE  SInv'
<1>0. s \in Shared /\ Memory \in Shared
  BY DEF Shared, Sources
<1>1. PICK spec \in ToSet(LoadOverridden(s)) : \E i \in DOMAIN spec.checks :
        job' = [job EXCEPT ![a] = [NoJob EXCEPT !.src = s, !.id = spec.id, !.idx = i,
                                                !.expected = spec.version]]
  BY DEF CallAdvisor
<1> PICK i : job' = [job EXCEPT ![a] = [NoJob EXCEPT !.src = s, !.id = spec.id, !.idx = i,
                                                     !.expected = spec.version]]
  BY <1>1
<1>2. at' = [at EXCEPT ![a] = "generate"] /\ UNCHANGED <<storeVars, log, unsaved>>
  BY DEF CallAdvisor
<1>3. PICK n \in DOMAIN inner[s] : spec = LoadOverridden(s)[n]
  BY DEF ToSet, LoadOverridden
<1>4. spec = IF inner[s][n].id \in DOMAIN override[s] THEN override[s][inner[s][n].id]
             ELSE inner[s][n]
  BY <1>3 DEF LoadOverridden
<1>5. /\ IsSpec(inner[s][n], inner[s][n].id) /\ inner[s][n].version = 1
      /\ \A k \in DOMAIN override[s] : IsSpec(override[s][k], k)
  BY <1>0 DEF SInv, StoreInv
<1>6. spec.id = inner[s][n].id /\ IsSpec(spec, spec.id)
  BY <1>4, <1>5 DEF IsSpec
<1>7. Known(s, spec.id)
  BY <1>6 DEF Known
<1>8. PICK j : j = [NoJob EXCEPT !.src = s, !.id = spec.id, !.idx = i, !.expected = spec.version]
  OBVIOUS
<1>9. /\ DOMAIN j = JobFields /\ j.src = s /\ j.id = spec.id /\ j.expected = spec.version
      /\ j.spec = {} /\ j.retry = FALSE
  BY <1>8, NoJobShape DEF JobFields
<1>10. JobOk("generate", j)
  BY <1>0, <1>6, <1>7, <1>9 DEF JobOk, IsSpec, AtBucket
<1>11. s = Memory => spec.version <= Current(spec.id).version
  <2>1. SUFFICES ASSUME s = Memory PROVE spec.version <= Current(spec.id).version
    OBVIOUS
  <2>2. CASE spec.id \in DOMAIN override[Memory]
    <3>1. Current(spec.id) = spec
      BY <1>4, <1>6, <2>1, <2>2 DEF Current
    <3> QED
      BY <1>6, <3>1 DEF IsSpec
  <2>3. CASE spec.id \notin DOMAIN override[Memory]
    <3>1. DocOf(inner[s], spec.id).version = 1
      BY <1>0, <1>7, Wrapped DEF SInv
    <3>2. spec = inner[s][n] /\ Current(spec.id) = DocOf(inner[s], spec.id)
      BY <1>4, <1>6, <2>1, <2>3 DEF Current
    <3>3. spec.version = 1 /\ Current(spec.id).version = 1
      BY <1>5, <3>1, <3>2
    <3> QED
      BY <3>3
  <2> QED
    BY <2>2, <2>3
<1>12. MemOk("generate", j)
  BY <1>9, <1>11 DEF MemOk
<1>13. job' = [job EXCEPT ![a] = j]
  BY <1>8
<1> QED
  BY <1>2, <1>10, <1>12, <1>13, CallerMoves

\* What holds of a call under way.
LEMMA CallFacts ==
  ASSUME SInv, NEW a \in Callers
  PROVE  /\ EngineInv /\ StoreInv /\ a \in AllCallers /\ DOMAIN job[a] = JobFields
         /\ job[a].expected \in Nat /\ JobOk(at[a], job[a]) /\ MemOk(at[a], job[a])
<1>1. EngineInv /\ StoreInv /\ JobOk(at[a], job[a]) /\ MemOk(at[a], job[a])
  BY DEF SInv, JobInv, MemInv
<1> QED
  BY <1>1, Names DEF JobOk

\* The candidates are probed: the job gets one accepted text, or ends.
LEMMA GenerateStep ==
  ASSUME SInv, NEW a \in Callers, GenerateCandidates(a)
  PROVE  SInv'
<1>0. /\ EngineInv /\ DOMAIN job[a] = JobFields /\ job[a].expected \in Nat
      /\ JobOk(at[a], job[a]) /\ MemOk(at[a], job[a])
  BY CallFacts
<1>1. UNCHANGED <<storeVars, log, unsaved>> /\ at[a] = "generate"
  BY DEF GenerateCandidates
<1>2. PICK accepted \in Proposals :
         IF accepted = {} THEN Finish(a, job[a], "failed")
         ELSE /\ job' = [job EXCEPT ![a].text = accepted]
              /\ at' = [at EXCEPT ![a] = "load"]
  BY DEF GenerateCandidates
<1>3. CASE accepted = {}
  <2>1. Finish(a, job[a], "failed")
    BY <1>2, <1>3
  <2>2. PICK j : /\ at' = [at EXCEPT ![a] = "done"] /\ job' = [job EXCEPT ![a] = j]
                 /\ JobOk("done", j) /\ MemOk("done", j)
    BY <1>0, <2>1, Ended
  <2> QED
    BY <1>1, <2>2, CallerMoves
<1>4. CASE accepted # {}
  <2>1. PICK t \in Rewrites : accepted = {t}
    BY <1>4, OneProposal
  <2>2. PICK j : j = [job[a] EXCEPT !.text = accepted]
    OBVIOUS
  <2>3. /\ DOMAIN j = JobFields /\ j.text = accepted
        /\ \A g \in JobFields \ {"text"} : j[g] = job[a][g]
    BY <1>0, <2>2, JobField DEF JobFields
  <2>4. /\ j.src = job[a].src /\ j.id = job[a].id /\ j.expected = job[a].expected
        /\ j.spec = job[a].spec /\ j.retry = job[a].retry
    BY <2>3 DEF JobFields
  <2>5. JobOk("load", j)
    BY <1>0, <1>1, <2>3, <2>4 DEF JobOk, Active, AtBucket
  <2>6. MemOk("load", j)
    BY <1>0, <1>1, <2>1, <2>3, <2>4 DEF MemOk, Active
  <2>7. job' = [job EXCEPT ![a] = j] /\ at' = [at EXCEPT ![a] = "load"]
    BY <1>2, <1>4, <2>2
  <2> QED
    BY <1>1, <2>5, <2>6, <2>7, CallerMoves
<1> QED
  BY <1>3, <1>4

\* A call that got a spec of its constraint, on the in-memory source the
\* current one, goes on soundly.
LEMMA GotSpecStep ==
  ASSUME SInv, NEW a \in Callers, NEW spec, GotSpec(a, spec), IsSpec(spec, job[a].id),
         at[a] \in Active,
         job[a].src = Memory => at[a] = "load" /\ spec = Current(job[a].id)
  PROVE  \E p, j : /\ at' = [at EXCEPT ![a] = p] /\ job' = [job EXCEPT ![a] = j]
                   /\ p \in {"create", "done"} /\ JobOk(p, j) /\ MemOk(p, j)
                   /\ j.src = job[a].src
<1>0. /\ EngineInv /\ a \in AllCallers /\ DOMAIN job[a] = JobFields /\ job[a].expected \in Nat
      /\ JobOk(at[a], job[a]) /\ MemOk(at[a], job[a])
  BY CallFacts
<1>1. PICK p, j :
        /\ at' = [at EXCEPT ![a] = p] /\ job' = [job EXCEPT ![a] = j]
        /\ DOMAIN j = JobFields /\ j.src = job[a].src /\ j.id = job[a].id
        /\ \/ /\ p = "create" /\ ~job[a].retry /\ job[a].idx \in DOMAIN spec.checks
              /\ j.spec = {RewriteOf(job[a], spec)} /\ j.expected = job[a].expected
              /\ j.retry = job[a].retry /\ j.text = job[a].text /\ j.idx = job[a].idx
           \/ p = "done" /\ j.expected = job[a].expected
           \/ /\ p = "create" /\ job[a].retry /\ spec.version <= job[a].expected
              /\ j.spec = job[a].spec /\ j.expected = spec.version
  BY <1>0, GotSpecShape
<1>2. /\ job[a].src \in Shared /\ Known(job[a].src, job[a].id)
      /\ \A x \in job[a].spec : IsSpec(x, job[a].id)
  BY <1>0 DEF JobOk
<1>3. CASE p = "done" /\ j.expected = job[a].expected
  <2>1. JobOk(p, j) /\ MemOk(p, j)
    BY <1>0, <1>1, <1>3 DEF JobOk, MemOk, Active, AtBucket
  <2> QED
    BY <1>1, <1>3, <2>1
<1>4. CASE /\ p = "create" /\ job[a].retry /\ spec.version <= job[a].expected
           /\ j.spec = job[a].spec /\ j.expected = spec.version
  <2>1. spec.version \in Nat
    BY DEF IsSpec
  <2>2. job[a].src # Memory
    <3>1. SUFFICES ASSUME job[a].src = Memory PROVE FALSE
      OBVIOUS
    <3>2. job[a].expected < Current(job[a].id).version
      BY <1>0, <1>4, <3>1 DEF MemOk
    <3> QED
      BY <1>0, <1>4, <2>1, <3>1, <3>2
  <2>3. JobOk(p, j)
    BY <1>1, <1>2, <1>4, <2>1 DEF JobOk, AtBucket
  <2>4. MemOk(p, j)
    BY <1>1, <2>2 DEF MemOk
  <2> QED
    BY <1>1, <1>4, <2>3, <2>4
<1>5. CASE /\ p = "create" /\ ~job[a].retry /\ job[a].idx \in DOMAIN spec.checks
           /\ j.spec = {RewriteOf(job[a], spec)} /\ j.expected = job[a].expected
           /\ j.retry = job[a].retry /\ j.text = job[a].text /\ j.idx = job[a].idx
  <2>1. PICK x, t, n : /\ x = RewriteOf(job[a], spec) /\ n = job[a].idx
                       /\ t = CHOOSE y \in job[a].text : TRUE
    OBVIOUS
  <2>2. /\ IsSpec(x, job[a].id) /\ x.version = spec.version
        /\ DOMAIN x.checks = DOMAIN spec.checks /\ x.checks[job[a].idx] = t
        /\ \A l \in DOMAIN spec.checks \ {job[a].idx} : x.checks[l] = spec.checks[l]
    <3>1. x = [spec EXCEPT !.checks[n] = t]
      BY <2>1 DEF RewriteOf
    <3>2. /\ IsSpec(x, job[a].id) /\ x.version = spec.version
          /\ DOMAIN x.checks = DOMAIN spec.checks
          /\ n \in DOMAIN spec.checks => x.checks[n] = t
          /\ \A l \in DOMAIN spec.checks \ {n} : x.checks[l] = spec.checks[l]
      BY <3>1, Rewritten
    <3> QED
      BY <1>5, <2>1, <3>2
  <2>3. j.spec = {x}
    BY <1>5, <2>1
  <2>4. JobOk(p, j)
    BY <1>0, <1>1, <1>2, <1>5, <2>2, <2>3 DEF JobOk, AtBucket
  <2>5. MemOk(p, j)
    <3>1. SUFFICES ASSUME job[a].src = Memory PROVE MemOk(p, j)
      BY <1>1 DEF MemOk
    <3>2. /\ spec = Current(j.id) /\ at[a] = "load"
      BY <1>1, <3>1
    <3>3. /\ j.expected <= Current(j.id).version
          /\ \E r \in Rewrites : j.text = {r}
      BY <1>0, <1>1, <1>5, <3>1, <3>2 DEF MemOk
    <3>4. j.text = {t}
      BY <1>5, <2>1, <3>3
    <3>5. x.version = Current(j.id).version /\ x.version \in Nat
      BY <2>2, <3>2 DEF IsSpec
    <3>6. /\ j.idx \in DOMAIN x.checks /\ j.text = {x.checks[j.idx]}
          /\ DOMAIN x.checks = DOMAIN Current(j.id).checks
          /\ \A k \in DOMAIN x.checks \ {j.idx} : x.checks[k] = Current(j.id).checks[k]
      BY <1>5, <2>2, <3>2, <3>4
    <3>7. j.expected <= x.version /\ x.version <= Current(j.id).version
      BY <3>3, <3>5
    <3> QED
      BY <1>5, <2>3, <3>3, <3>5, <3>6, <3>7 DEF MemOk
  <2> QED
    BY <1>1, <1>5, <2>4, <2>5
<1> QED
  BY <1>1, <1>3, <1>4, <1>5

\* The override, or the wrapped spec.
LEMMA LoadStep ==
  ASSUME SInv, NEW a \in Callers, LoadLatest(a)
  PROVE  SInv'
<1>0. /\ EngineInv /\ StoreInv /\ a \in AllCallers /\ DOMAIN job[a] = JobFields
      /\ JobOk(at[a], job[a]) /\ MemOk(at[a], job[a])
  BY CallFacts
<1>1. at[a] = "load" /\ UNCHANGED <<storeVars, log, unsaved>> /\ at[a] \in Active
  BY DEF LoadLatest, Active
<1>2. job[a].src \in Shared /\ Known(job[a].src, job[a].id)
  BY <1>0, <1>1 DEF JobOk
<1>3. ASSUME NEW spec, GotSpec(a, spec), IsSpec(spec, job[a].id),
             job[a].src = Memory => spec = Current(job[a].id)
      PROVE  SInv'
  <2>1. PICK p, j : /\ at' = [at EXCEPT ![a] = p] /\ job' = [job EXCEPT ![a] = j]
                    /\ JobOk(p, j) /\ MemOk(p, j)
    BY <1>1, <1>3, GotSpecStep
  <2> QED
    BY <1>1, <2>1, CallerMoves
<1>4. CASE job[a].id \in DOMAIN override[job[a].src]
  <2>1. GotSpec(a, override[job[a].src][job[a].id])
    BY <1>4 DEF LoadLatest
  <2>2. IsSpec(override[job[a].src][job[a].id], job[a].id)
    BY <1>0, <1>2, <1>4 DEF StoreInv
  <2>3. job[a].src = Memory => override[job[a].src][job[a].id] = Current(job[a].id)
    BY <1>4 DEF Current
  <2> QED
    BY <1>3, <2>1, <2>2, <2>3
<1>5. CASE job[a].id \notin DOMAIN override[job[a].src] /\ job[a].src \notin Nodes
  <2>1. GotSpec(a, DocOf(inner[job[a].src], job[a].id))
    BY <1>5 DEF LoadLatest
  <2>2. IsSpec(DocOf(inner[job[a].src], job[a].id), job[a].id)
    BY <1>0, <1>2, Wrapped
  <2>3. job[a].src = Memory => DocOf(inner[job[a].src], job[a].id) = Current(job[a].id)
    BY <1>5 DEF Current
  <2> QED
    BY <1>3, <2>1, <2>2, <2>3
<1>6. CASE job[a].id \notin DOMAIN override[job[a].src] /\ job[a].src \in Nodes
  <2>1. at' = [at EXCEPT ![a] = "pointer"] /\ job' = job
    BY <1>6 DEF LoadLatest
  <2>2. PICK j : j = job[a]
    OBVIOUS
  <2>3. job' = [job EXCEPT ![a] = j]
    BY <1>0, <2>1, <2>2 DEF EngineInv
  <2>4. JobOk("pointer", j)
    BY <1>0, <1>1, <1>6, <2>2 DEF JobOk
  <2>5. MemOk("pointer", j)
    BY <1>6, <2>2, Names DEF MemOk
  <2> QED
    BY <1>1, <2>1, <2>3, <2>4, <2>5, CallerMoves
<1> QED
  BY <1>4, <1>5, <1>6

\* A node's call whose job changes in one field that is neither its source nor
\* its constraint, and that stays away from the create.
LEMMA NodeMoves ==
  ASSUME SInv, NEW a \in Callers, at[a] \in AtBucket, NEW p \in {"record", "warm"},
         NEW f \in {"ptr", "read"}, NEW v,
         p = "warm" => f = "read" /\ \A x \in v : IsSpec(x, job[a].id),
         at' = [at EXCEPT ![a] = p], job' = [job EXCEPT ![a][f] = v],
         UNCHANGED <<storeVars, log, unsaved>>
  PROVE  SInv'
<1>0. /\ EngineInv /\ DOMAIN job[a] = JobFields /\ job[a].expected \in Nat
      /\ JobOk(at[a], job[a])
  BY CallFacts
<1>1. at[a] \in Active
  BY DEF AtBucket, Active
<1>2. PICK j : j = [job[a] EXCEPT ![f] = v]
  OBVIOUS
<1>3. DOMAIN j = JobFields /\ j[f] = v /\ \A g \in JobFields \ {f} : j[g] = job[a][g]
  BY <1>0, <1>2 DEF JobFields
<1>4. /\ j.src = job[a].src /\ j.id = job[a].id /\ j.spec = job[a].spec
      /\ j.expected = job[a].expected
  BY <1>3 DEF JobFields
<1>5. p = "warm" => j.read = v
  BY <1>3
<1>6. JobOk(p, j)
  BY <1>0, <1>1, <1>3, <1>4, <1>5 DEF JobOk
<1>7. j.src # Memory
  BY <1>0, <1>4, Names DEF JobOk
<1>8. MemOk(p, j)
  BY <1>7 DEF MemOk
<1>9. job' = [job EXCEPT ![a] = j]
  BY <1>2
<1> QED
  BY <1>6, <1>8, <1>9, CallerMoves

\* A node's call that falls back on the wrapped spec.
LEMMA NodeFallsBack ==
  ASSUME SInv, NEW a \in Callers, at[a] \in AtBucket,
         GotSpec(a, DocOf(inner[job[a].src], job[a].id)), UNCHANGED <<storeVars, log, unsaved>>
  PROVE  SInv'
<1>0. StoreInv /\ JobOk(at[a], job[a])
  BY CallFacts
<1>1. at[a] \in Active
  BY DEF AtBucket, Active
<1>2. /\ job[a].src \in Shared /\ Known(job[a].src, job[a].id) /\ job[a].src # Memory
  BY <1>0, <1>1, Names DEF JobOk
<1>3. IsSpec(DocOf(inner[job[a].src], job[a].id), job[a].id)
  BY <1>0, <1>2, Wrapped
<1>4. PICK p, j : /\ at' = [at EXCEPT ![a] = p] /\ job' = [job EXCEPT ![a] = j]
                  /\ JobOk(p, j) /\ MemOk(p, j)
  BY <1>1, <1>2, <1>3, GotSpecStep
<1> QED
  BY <1>4, CallerMoves

\* The pointer is read, then the record it names, or a read fails.
LEMMA ReadSteps ==
  ASSUME SInv, NEW a \in Callers, ReadPointer(a) \/ ReadRecord(a) \/ ReadFails(a)
  PROVE  SInv'
<1>1. CASE ReadPointer(a)
  <2>1. at[a] \in AtBucket /\ UNCHANGED <<storeVars, log, unsaved>>
    BY <1>1 DEF ReadPointer, AtBucket
  <2>2. CASE job[a].id \in DOMAIN kv.latest
    <3>1. at' = [at EXCEPT ![a] = "record"] /\ job' = [job EXCEPT ![a].ptr = kv.latest[job[a].id]]
      BY <1>1, <2>2 DEF ReadPointer
    <3>2. PICK v : job' = [job EXCEPT ![a]["ptr"] = v]
      BY <3>1
    <3> QED
      BY <2>1, <3>1, <3>2, NodeMoves
  <2>3. CASE job[a].id \notin DOMAIN kv.latest
    <3>1. GotSpec(a, DocOf(inner[job[a].src], job[a].id))
      BY <1>1, <2>3 DEF ReadPointer
    <3> QED
      BY <2>1, <3>1, NodeFallsBack
  <2> QED
    BY <2>2, <2>3
<1>2. CASE ReadRecord(a)
  <2>1. at[a] \in AtBucket /\ UNCHANGED <<storeVars, log, unsaved>>
    BY <1>2 DEF ReadRecord, AtBucket
  <2> DEFINE key == <<job[a].id, job[a].ptr>>
  <2>2. CASE key \in DOMAIN kv.version
    <3>1. at' = [at EXCEPT ![a] = "warm"] /\ job' = [job EXCEPT ![a].read = {kv.version[key]}]
      BY <1>2, <2>2 DEF ReadRecord
    <3>2. IsSpec(kv.version[key], key[1])
      BY <2>2 DEF SInv, StoreInv
    <3>3. PICK v : v = {kv.version[key]} /\ job' = [job EXCEPT ![a]["read"] = v]
      BY <3>1
    <3>4. \A x \in v : IsSpec(x, job[a].id)
      BY <3>2, <3>3
    <3> QED
      BY <2>1, <3>1, <3>3, <3>4, NodeMoves
  <2>3. CASE key \notin DOMAIN kv.version
    <3>1. GotSpec(a, DocOf(inner[job[a].src], job[a].id))
      BY <1>2, <2>3 DEF ReadRecord
    <3> QED
      BY <2>1, <3>1, NodeFallsBack
  <2> QED
    BY <2>2, <2>3
<1>3. CASE ReadFails(a)
  <2>1. /\ at[a] \in AtBucket /\ UNCHANGED <<storeVars, log, unsaved>>
        /\ GotSpec(a, DocOf(inner[job[a].src], job[a].id))
    BY <1>3 DEF ReadFails, AtBucket
  <2> QED
    BY <2>1, NodeFallsBack
<1> QED
  BY <1>1, <1>2, <1>3

\* An override of a constraint is a spec of that constraint.
LEMMA Overridden ==
  ASSUME StoreInv, UNCHANGED <<inner, kv>>, NEW s \in Shared, NEW id, NEW x, IsSpec(x, id),
         override' = [override EXCEPT ![s] = [i \in DOMAIN override[s] \cup {id} |->
                                                 IF i = id THEN x ELSE override[s][i]]]
  PROVE  /\ StoreInv'
         /\ \A r \in Sources \ {s} : override'[r] = override[r]
         /\ DOMAIN override'[s] = DOMAIN override[s] \cup {id} /\ override'[s][id] = x
         /\ \A i \in DOMAIN override[s] \ {id} : override'[s][i] = override[s][i]
<1>1. /\ DOMAIN override' = Sources
      /\ \A r \in Sources \ {s} : override'[r] = override[r]
      /\ DOMAIN override'[s] = DOMAIN override[s] \cup {id} /\ override'[s][id] = x
      /\ \A i \in DOMAIN override[s] \ {id} : override'[s][i] = override[s][i]
  BY Names DEF StoreInv
<1>2. ASSUME NEW r \in Shared, NEW i \in DOMAIN override'[r] PROVE IsSpec(override'[r][i], i)
  <2>1. \A q \in Shared : \A k \in DOMAIN override[q] : IsSpec(override[q][k], k)
    BY DEF StoreInv
  <2>2. CASE r # s
    BY <1>1, <2>1, <2>2, Names
  <2>3. CASE r = s /\ i = id
    BY <1>1, <2>3
  <2>4. CASE r = s /\ i # id
    BY <1>1, <2>1, <2>4
  <2> QED
    BY <2>2, <2>3, <2>4
<1>3. StoreInv'
  BY <1>1, <1>2 DEF StoreInv, IsSpec
<1> QED
  BY <1>1, <1>3

\* The record read becomes the node's override.
LEMMA WarmStep ==
  ASSUME SInv, NEW a \in Callers, WarmCache(a)
  PROVE  SInv'
<1>0. EngineInv /\ StoreInv /\ JobOk(at[a], job[a])
  BY CallFacts
<1>1. at[a] = "warm" /\ at[a] \in Active /\ at[a] \in AtBucket /\ UNCHANGED <<inner, kv, log, unsaved>>
  BY DEF WarmCache, AtBucket, Active
<1>2. /\ job[a].src \in Nodes /\ job[a].src \in Shared /\ job[a].src # Memory
      /\ \A x \in job[a].read : IsSpec(x, job[a].id)
  BY <1>0, <1>1, Names DEF JobOk
<1>3. PICK spec \in job[a].read :
        /\ override' = [override EXCEPT ![job[a].src] =
               [i \in DOMAIN override[job[a].src] \cup {job[a].id} |->
                   IF i = job[a].id THEN spec ELSE override[job[a].src][i]]]
        /\ GotSpec(a, spec)
  BY DEF WarmCache
<1>4. PICK p, j : /\ at' = [at EXCEPT ![a] = p] /\ job' = [job EXCEPT ![a] = j]
                  /\ p \in {"create", "done"} /\ JobOk(p, j) /\ MemOk(p, j)
                  /\ j.src = job[a].src
  BY <1>1, <1>2, <1>3, GotSpecStep
<1>5. StoreInv' /\ override'[Memory] = override[Memory]
  <2>1. PICK s, id : s = job[a].src /\ id = job[a].id
    OBVIOUS
  <2>2. s \in Shared /\ s # Memory /\ IsSpec(spec, id)
    BY <1>2, <2>1
  <2>3. override' = [override EXCEPT ![s] = [i \in DOMAIN override[s] \cup {id} |->
                                               IF i = id THEN spec ELSE override[s][i]]]
    BY <1>3, <2>1
  <2>4. StoreInv' /\ \A r \in Sources \ {s} : override'[r] = override[r]
    BY <1>0, <1>1, <2>2, <2>3, Overridden
  <2> QED
    BY <2>2, <2>4, Names
<1>6. at'[a] = p /\ job'[a] = j
  BY <1>4, MoveOnly
<1>7. JobOk(at[a], job[a])'
  BY <1>1, <1>4, <1>6 DEF JobOk, Known
<1>8. MemOk(at[a], job[a])'
  <2>1. j.src # Memory
    BY <1>2, <1>4
  <2> QED
    BY <1>6, <2>1 DEF MemOk
<1>9. PointerInv'
  BY <1>1 DEF SInv, PointerInv
<1> QED
  BY <1>1, <1>4, <1>5, <1>7, <1>8, <1>9, CallerStep

\* What the in-memory source answers is a spec of the constraint asked for.
LEMMA CurrentSpec ==
  ASSUME StoreInv, NEW id, Known(Memory, id)
  PROVE  /\ IsSpec(Current(id), id) /\ Current(id).version \in Nat
         /\ CurrentVersion(Memory, id) = Current(id).version
<1>1. IsSpec(Current(id), id)
  BY Names, Wrapped DEF StoreInv, Current
<1>2. CurrentVersion(Memory, id) = Current(id).version
  BY DEF Current, CurrentVersion
<1> QED
  BY <1>1, <1>2 DEF IsSpec

\* A conflict: a call on the in-memory source finds a newer version.
LEMMA ConflictStep ==
  ASSUME SInv, NEW a \in Callers, VersionConflict(a)
  PROVE  SInv'
<1>0. /\ StoreInv /\ DOMAIN job[a] = JobFields /\ job[a].expected \in Nat
      /\ JobOk(at[a], job[a]) /\ MemOk(at[a], job[a])
  BY CallFacts
<1>1. /\ UNCHANGED <<storeVars, log, unsaved>> /\ at[a] = "create" /\ at[a] \in Active
      /\ ~Compared(job[a].src, job[a].id, job[a].expected)
      /\ IF job[a].retry THEN Finish(a, job[a], "failed")
         ELSE /\ at' = [at EXCEPT ![a] = "load"]
              /\ job' = [job EXCEPT ![a].retry = TRUE]
  BY DEF VersionConflict, Active
<1>2. CASE job[a].retry
  <2>1. PICK j : /\ at' = [at EXCEPT ![a] = "done"] /\ job' = [job EXCEPT ![a] = j]
                 /\ JobOk("done", j) /\ MemOk("done", j)
    BY <1>0, <1>1, <1>2, Ended
  <2> QED
    BY <1>1, <2>1, CallerMoves
<1>3. CASE ~job[a].retry
  <2>1. PICK j : j = [job[a] EXCEPT !.retry = TRUE]
    OBVIOUS
  <2>2. /\ DOMAIN j = JobFields /\ j.src = job[a].src /\ j.id = job[a].id
        /\ j.expected = job[a].expected /\ j.spec = job[a].spec /\ j.text = job[a].text
    BY <1>0, <2>1 DEF JobFields
  <2>3. job' = [job EXCEPT ![a] = j] /\ at' = [at EXCEPT ![a] = "load"]
    BY <1>1, <1>3, <2>1
  <2>4. JobOk("load", j)
    BY <1>0, <1>1, <2>2 DEF JobOk, AtBucket
  <2>5. MemOk("load", j)
    <3>1. SUFFICES ASSUME j.src = Memory PROVE MemOk("load", j)
      BY DEF MemOk
    <3>2. /\ j.expected <= Current(j.id).version
          /\ \E t \in Rewrites : j.text = {t}
      BY <1>0, <1>1, <2>2, <3>1 DEF MemOk
    <3>3. Known(Memory, j.id)
      BY <1>0, <1>1, <2>2, <3>1 DEF JobOk
    <3>4. Current(j.id).version \in Nat /\ CurrentVersion(Memory, j.id) = Current(j.id).version
      BY <1>0, <3>3, CurrentSpec
    <3>5. Current(j.id).version # j.expected
      BY <1>1, <2>2, <3>1, <3>4 DEF Compared
    <3>6. j.expected < Current(j.id).version
      BY <1>0, <2>2, <3>2, <3>4, <3>5
    <3> QED
      BY <3>2, <3>6 DEF MemOk
  <2> QED
    BY <1>1, <2>3, <2>4, <2>5, CallerMoves
<1> QED
  BY <1>2, <1>3

\* The puts to the bucket: the record first, then the pointer to it.
LEMMA PutVersionStep ==
  ASSUME SInv, NEW a \in Callers, PutVersion(a)
  PROVE  SInv'
<1>0. EngineInv /\ StoreInv /\ JobOk(at[a], job[a])
  BY CallFacts
<1>1. /\ at[a] = "put_version" /\ at[a] \in Active /\ at[a] \in AtBucket
      /\ UNCHANGED <<inner, override, job, log, unsaved>> /\ at' = [at EXCEPT ![a] = "put_latest"]
  BY DEF PutVersion, Active, AtBucket
<1>2. PICK spec \in job[a].spec :
        kv' = [kv EXCEPT !.version = Put(<<job[a].id, job[a].version>>, spec, @)]
  BY DEF PutVersion
<1>3. IsSpec(spec, job[a].id) /\ spec.version = job[a].version /\ job[a].src \in Nodes
  BY <1>0, <1>1 DEF JobOk
<1> DEFINE key == <<job[a].id, job[a].version>>
<1>4. /\ DOMAIN kv' = {"version", "latest"} /\ kv'.latest = kv.latest
      /\ kv'.version = Put(key, spec, kv.version)
  BY <1>0, <1>2 DEF StoreInv
<1>5. /\ DOMAIN kv'.version = DOMAIN kv.version \cup {key} /\ kv'.version[key] = spec
      /\ \A k \in DOMAIN kv.version \ {key} : kv'.version[k] = kv.version[k]
  BY <1>4 DEF Put
<1>6. \A k \in DOMAIN kv'.version : IsSpec(kv'.version[k], k[1]) /\ kv'.version[k].version = k[2]
  <2>1. SUFFICES ASSUME NEW k \in DOMAIN kv'.version
                 PROVE  IsSpec(kv'.version[k], k[1]) /\ kv'.version[k].version = k[2]
    OBVIOUS
  <2>2. CASE k = key
    BY <1>3, <1>5, <2>2
  <2>3. CASE k # key
    BY <1>0, <1>5, <2>1, <2>3 DEF StoreInv
  <2> QED
    BY <2>2, <2>3
<1>7. StoreInv'
  BY <1>0, <1>1, <1>4, <1>6 DEF StoreInv
<1>8. PointerInv'
  BY <1>1, <1>4, <1>5 DEF SInv, PointerInv
<1>9. PICK j : j = job[a] /\ job' = [job EXCEPT ![a] = j]
  BY <1>0, <1>1 DEF EngineInv
<1>10. at'[a] = "put_latest" /\ job'[a] = job[a]
  BY <1>0, <1>1, Names DEF EngineInv
<1>11. JobOk(at[a], job[a])'
  BY <1>0, <1>1, <1>5, <1>10 DEF JobOk, Known
<1>12. MemOk(at[a], job[a])'
  BY <1>3, <1>10, Names DEF MemOk
<1>13. DOMAIN kv.version \subseteq DOMAIN kv'.version
  BY <1>5
<1> QED
  BY <1>1, <1>7, <1>8, <1>9, <1>11, <1>12, <1>13, CallerStep

\* The pointer is put after the record it names.
LEMMA PutLatestStep ==
  ASSUME SInv, NEW a \in Callers, PutLatest(a)
  PROVE  SInv'
<1>0. /\ EngineInv /\ StoreInv /\ JobOk(at[a], job[a]) /\ DOMAIN job[a] = JobFields
      /\ job[a].expected \in Nat /\ a \in AllCallers
  BY CallFacts
<1>1. /\ at[a] = "put_latest" /\ UNCHANGED <<inner, override, log, unsaved>>
      /\ kv' = [kv EXCEPT !.latest = Put(job[a].id, job[a].version, @)]
      /\ Finish(a, job[a], "repaired")
  BY DEF PutLatest
<1>2. PICK j : /\ at' = [at EXCEPT ![a] = "done"] /\ job' = [job EXCEPT ![a] = j]
               /\ JobOk("done", j)
  BY <1>0, <1>1, Ended
<1>3. /\ DOMAIN kv' = {"version", "latest"} /\ kv'.version = kv.version
      /\ kv'.latest = Put(job[a].id, job[a].version, kv.latest)
  BY <1>0, <1>1 DEF StoreInv
<1>4. /\ DOMAIN kv'.latest = DOMAIN kv.latest \cup {job[a].id}
      /\ kv'.latest[job[a].id] = job[a].version
      /\ \A i \in DOMAIN kv.latest \ {job[a].id} : kv'.latest[i] = kv.latest[i]
  BY <1>3 DEF Put
<1>5. PointerInv'
  <2>1. SUFFICES ASSUME NEW i \in DOMAIN kv'.latest
                 PROVE  <<i, kv'.latest[i]>> \in DOMAIN kv.version \cup unsaved
    BY <1>1, <1>3 DEF PointerInv
  <2>2. CASE i = job[a].id
    BY <1>0, <1>1, <1>4, <2>1, <2>2 DEF JobOk
  <2>3. CASE i # job[a].id
    BY <1>4, <2>1, <2>3 DEF SInv, PointerInv
  <2> QED
    BY <2>2, <2>3
<1>6. StoreInv'
  BY <1>0, <1>1, <1>3 DEF StoreInv
<1>7. at'[a] = "done" /\ job'[a] = j
  BY <1>0, <1>2, Moved
<1>8. JobOk(at[a], job[a])' /\ MemOk(at[a], job[a])'
  BY <1>2, <1>7 DEF JobOk, MemOk, Active, AtBucket
<1> QED
  BY <1>1, <1>2, <1>3, <1>5, <1>6, <1>8, CallerStep

\* A put fails: the pointer may now be put to a record that is missing.
LEMMA PutFailsStep ==
  ASSUME SInv, NEW a \in Callers, PutFails(a)
  PROVE  SInv'
<1>0. /\ EngineInv /\ StoreInv /\ JobOk(at[a], job[a]) /\ DOMAIN job[a] = JobFields
      /\ job[a].expected \in Nat /\ a \in AllCallers
  BY CallFacts
<1>1. /\ at[a] \in {"put_version", "put_latest"} /\ UNCHANGED <<inner, override, kv, log>>
      /\ IF at[a] = "put_version"
         THEN /\ at' = [at EXCEPT ![a] = "put_latest"]
              /\ unsaved' = unsaved \cup {<<job[a].id, job[a].version>>}
              /\ UNCHANGED job
         ELSE Finish(a, job[a], "repaired") /\ UNCHANGED unsaved
  BY DEF PutFails, storeVars
<1>2. unsaved \subseteq unsaved' /\ StoreInv' /\ PointerInv'
  BY <1>0, <1>1 DEF SInv, StoreInv, PointerInv
<1>3. CASE at[a] = "put_version"
  <2>1. /\ at' = [at EXCEPT ![a] = "put_latest"] /\ UNCHANGED job
        /\ <<job[a].id, job[a].version>> \in unsaved'
    BY <1>1, <1>3
  <2>2. PICK j : j = job[a] /\ job' = [job EXCEPT ![a] = j]
    BY <1>0, <2>1 DEF EngineInv
  <2>3. at'[a] = "put_latest" /\ job'[a] = job[a]
    BY <1>0, <2>1, Names DEF EngineInv
  <2>4. JobOk(at[a], job[a])'
    BY <1>0, <1>1, <1>2, <1>3, <2>1, <2>3 DEF JobOk, Known, Active, AtBucket
  <2>5. job[a].src \in Nodes
    BY <1>0, <1>3 DEF JobOk, AtBucket
  <2>6. MemOk(at[a], job[a])'
    BY <2>3, <2>5, Names DEF MemOk
  <2> QED
    BY <1>1, <1>2, <2>1, <2>2, <2>4, <2>6, CallerStep
<1>4. CASE at[a] # "put_version"
  <2>1. PICK j : /\ at' = [at EXCEPT ![a] = "done"] /\ job' = [job EXCEPT ![a] = j]
                 /\ JobOk("done", j)
    BY <1>0, <1>1, <1>4, Ended
  <2>2. at'[a] = "done" /\ job'[a] = j
    BY <1>0, <2>1, Moved
  <2>3. JobOk(at[a], job[a])' /\ MemOk(at[a], job[a])'
    BY <2>1, <2>2 DEF JobOk, MemOk, Active, AtBucket
  <2> QED
    BY <1>1, <1>2, <2>1, <2>3, CallerStep
<1> QED
  BY <1>3, <1>4

\* A node restarts: its overrides are gone and its calls are dead.
LEMMA RestartStep ==
  ASSUME SInv, NEW n \in Nodes, RestartNode(n)
  PROVE  SInv'
<1>0. StoreInv /\ EngineInv /\ PointerInv
  BY DEF SInv
<1>1. /\ unsaved' = unsaved /\ override' = [override EXCEPT ![n] = Idle]
      /\ at' = [a \in AllCallers |->
                   IF job[a].src = n /\ at[a] \notin {"idle", "done"} THEN "dead" ELSE at[a]]
      /\ UNCHANGED <<inner, kv, job, log>>
  BY DEF RestartNode
<1>2. n \in Sources /\ n # Memory /\ Memory \in Sources
  BY Names
<1>3. /\ DOMAIN override' = Sources /\ DOMAIN override'[n] = {}
      /\ \A s \in Sources \ {n} : override'[s] = override[s]
  BY <1>0, <1>1, <1>2 DEF StoreInv, Idle
<1>4. StoreInv'
  <2>1. ASSUME NEW s \in Shared, NEW i \in DOMAIN override'[s] PROVE IsSpec(override'[s][i], i)
    BY <1>0, <1>3, Names DEF StoreInv
  <2> QED
    BY <1>0, <1>1, <1>3, <2>1 DEF StoreInv
<1>5. \A a \in AllCallers : at'[a] = "dead" \/ at'[a] = at[a]
  BY <1>1
<1>6. EngineInv'
  BY <1>0, <1>1, <1>5, Names DEF EngineInv, Active
<1>7. PointerInv'
  BY <1>0, <1>1 DEF PointerInv
<1>8. override'[Memory] = override[Memory]
  BY <1>2, <1>3
<1>9. ASSUME NEW a \in Callers PROVE JobOk(at[a], job[a])' /\ MemOk(at[a], job[a])'
  <2>1. JobOk(at[a], job[a]) /\ MemOk(at[a], job[a]) /\ job'[a] = job[a]
    BY <1>1 DEF SInv, JobInv, MemInv
  <2>2. CASE at'[a] = "dead"
    BY <2>1, <2>2 DEF JobOk, MemOk, Active, AtBucket
  <2>3. CASE at'[a] = at[a]
    <3>1. JobOk(at[a], job[a])'
      BY <1>1, <1>2, <2>1, <2>3 DEF JobOk, Known
    <3>2. MemOk(at[a], job[a])'
      BY <1>1, <1>8, <2>1, <2>3 DEF MemOk, Current
    <3> QED
      BY <3>1, <3>2
  <2> QED
    BY <1>5, <2>2, <2>3, Names
<1>10. JobInv' /\ MemInv'
  BY <1>9 DEF JobInv, MemInv
<1>11. LogInv' /\ NoLostRepair' /\ (\E S : log \in Seq(S))'
  BY <1>1, <1>8 DEF SInv, LogInv, NoLostRepair
<1> QED
  BY <1>4, <1>6, <1>7, <1>10, <1>11 DEF SInv

-----------------------------------------------------------------------------
(* The compare-and-swap *)

LEMMA LogGrows ==
  ASSUME \E S : log \in Seq(S), NEW r, log' = Append(log, r)
  PROVE  /\ Len(log) \in Nat /\ DOMAIN log = 1..Len(log)
         /\ Len(log') = Len(log) + 1 /\ DOMAIN log' = 1..(Len(log) + 1)
         /\ \A i \in DOMAIN log : log'[i] = log[i]
         /\ log'[Len(log) + 1] = r
         /\ \E S : log' \in Seq(S)
<1>1. PICK S : log \in Seq(S)
  OBVIOUS
<1> DEFINE T == S \cup {r}
<1>2. log \in Seq(T) /\ r \in T
  BY <1>1
<1> HIDE DEF T
<1>3. log' \in Seq(T)
  BY <1>2
<1> QED
  BY <1>2, <1>3

\* A create in the in-memory source succeeds only for a spec that was read at
\* the current version: earlier rewrites of other checks are in it.  Whoever
\* else is under way has by now read an older version.
LEMMA MemoryCreate ==
  ASSUME SInv, NEW a \in Callers, NEW id, NEW x, NEW new, NEW r,
         at[a] = "create", job[a].src = Memory, job[a].id = id, x \in job[a].spec,
         Compared(Memory, id, job[a].expected),
         new.version = job[a].expected + 1, new.checks = x.checks,
         DOMAIN override'[Memory] = DOMAIN override[Memory] \cup {id},
         override'[Memory][id] = new,
         \A i \in DOMAIN override[Memory] \ {id} : override'[Memory][i] = override[Memory][i],
         UNCHANGED inner,
         log' = Append(log, r), r.src = Memory, r.id = id, r.idx = job[a].idx,
         r.text = job[a].text
  PROVE  /\ LogInv' /\ NoLostRepair'
         /\ \A b \in Callers : at'[b] = at[b] /\ job'[b] = job[b] /\ b # a
               => MemOk(at[b], job[b])'
<1> DEFINE cur == Current(id)
           idx == job[a].idx
<1>0. /\ StoreInv /\ JobOk(at[a], job[a]) /\ MemOk(at[a], job[a]) /\ job[a].expected \in Nat
  BY CallFacts
<1>1. Known(Memory, id) /\ IsSpec(x, id)
  BY <1>0 DEF JobOk, Active
<1>2. cur.version \in Nat /\ cur.version = job[a].expected
  BY <1>0, <1>1, CurrentSpec DEF Compared
<1>3. /\ idx \in DOMAIN x.checks /\ job[a].text = {x.checks[idx]}
      /\ job[a].expected <= x.version /\ x.version <= cur.version
      /\ x.version = cur.version =>
            /\ DOMAIN x.checks = DOMAIN cur.checks
            /\ \A k \in DOMAIN x.checks \ {idx} : x.checks[k] = cur.checks[k]
  BY <1>0 DEF MemOk, Active
<1>4. x.version = cur.version
  BY <1>1, <1>2, <1>3 DEF IsSpec
<1>5. /\ DOMAIN new.checks = DOMAIN cur.checks
      /\ \A k \in DOMAIN cur.checks \ {idx} : new.checks[k] = cur.checks[k]
      /\ idx \in DOMAIN cur.checks /\ job[a].text = {new.checks[idx]}
  BY <1>3, <1>4
<1>6. Current(id)' = new /\ \A i : i # id => Current(i)' = Current(i)
  BY DEF Current
<1>7. /\ Len(log) \in Nat /\ DOMAIN log = 1..Len(log)
      /\ Len(log') = Len(log) + 1 /\ DOMAIN log' = 1..(Len(log) + 1)
      /\ \A i \in DOMAIN log : log'[i] = log[i]
      /\ log'[Len(log) + 1] = r
  BY LogGrows DEF SInv
<1>8. id \in DOMAIN override[Memory] => cur = override[Memory][id]
  BY DEF Current
<1> HIDE DEF cur, idx
<1>9. LogInv'
  <2>1. SUFFICES ASSUME NEW i \in DOMAIN log', log'[i].src = Memory
                 PROVE  /\ log'[i].id \in DOMAIN override'[Memory]
                        /\ log'[i].idx \in DOMAIN override'[Memory][log'[i].id].checks
    BY DEF LogInv
  <2>2. CASE i = Len(log) + 1
    BY <1>5, <1>7, <2>2 DEF idx
  <2>3. CASE i \in DOMAIN log
    <3>1. /\ log'[i] = log[i] /\ log[i].id \in DOMAIN override[Memory]
          /\ log[i].idx \in DOMAIN override[Memory][log[i].id].checks
      BY <1>7, <2>1, <2>3 DEF SInv, LogInv
    <3>2. CASE log[i].id = id
      BY <1>5, <1>8, <3>1, <3>2
    <3>3. CASE log[i].id # id
      BY <3>1, <3>3
    <3> QED
      BY <3>2, <3>3
  <2> QED
    BY <1>7, <2>1, <2>2, <2>3
<1>10. NoLostRepair'
  <2>1. SUFFICES ASSUME NEW i \in DOMAIN log', log'[i].src = Memory
                 PROVE  \/ log'[i].text = {override'[Memory][log'[i].id].checks[log'[i].idx]}
                        \/ \E k \in (i + 1)..Len(log') :
                              log'[k].src = Memory /\ log'[k].id = log'[i].id
                              /\ log'[k].idx = log'[i].idx
    BY DEF NoLostRepair
  <2>2. CASE i = Len(log) + 1
    BY <1>5, <1>7, <2>2 DEF idx
  <2>3. CASE i \in DOMAIN log
    <3>1. /\ log'[i] = log[i] /\ log[i].src = Memory /\ log[i].id \in DOMAIN override[Memory]
          /\ log[i].idx \in DOMAIN override[Memory][log[i].id].checks /\ i \in 1..Len(log)
      BY <1>7, <2>1, <2>3 DEF SInv, LogInv
    <3>2. \/ log[i].text = {override[Memory][log[i].id].checks[log[i].idx]}
          \/ \E k \in (i + 1)..Len(log) :
                log[k].src = Memory /\ log[k].id = log[i].id /\ log[k].idx = log[i].idx
      BY <2>3, <3>1 DEF SInv, NoLostRepair
    <3>3. CASE \E k \in (i + 1)..Len(log) :
                  log[k].src = Memory /\ log[k].id = log[i].id /\ log[k].idx = log[i].idx
      <4>1. PICK k \in (i + 1)..Len(log) :
                  log[k].src = Memory /\ log[k].id = log[i].id /\ log[k].idx = log[i].idx
        BY <3>3
      <4>2. k \in DOMAIN log /\ k \in (i + 1)..Len(log')
        BY <1>7, <3>1
      <4> QED
        BY <1>7, <3>1, <4>1, <4>2
    <3>4. CASE log[i].id = id /\ log[i].idx = idx
      <4>1. Len(log) + 1 \in (i + 1)..Len(log')
        BY <1>7, <3>1
      <4> QED
        BY <1>7, <3>1, <3>4, <4>1 DEF idx
    <3>5. CASE /\ log[i].text = {override[Memory][log[i].id].checks[log[i].idx]}
               /\ log[i].id = id /\ log[i].idx # idx
      BY <1>5, <1>8, <3>1, <3>5
    <3>6. CASE /\ log[i].text = {override[Memory][log[i].id].checks[log[i].idx]}
               /\ log[i].id # id
      <4>1. override'[Memory][log[i].id] = override[Memory][log[i].id]
        BY <3>1, <3>6
      <4> QED
        BY <3>1, <3>6, <4>1
    <3>7. \/ log[i].id = id /\ log[i].idx = idx
          \/ log[i].id = id /\ log[i].idx # idx
          \/ log[i].id # id
      OBVIOUS
    <3> QED
      BY <3>2, <3>3, <3>4, <3>5, <3>6, <3>7, Zenon
  <2>4. i = Len(log) + 1 \/ i \in DOMAIN log
    BY <1>7, <2>1
  <2> QED
    BY <2>2, <2>3, <2>4
<1>11. ASSUME NEW b \in Callers, at'[b] = at[b], job'[b] = job[b] PROVE MemOk(at[b], job[b])'
  <2>1. MemOk(at[b], job[b]) /\ job[b].expected \in Nat /\ JobOk(at[b], job[b])
    BY CallFacts
  <2>2. CASE job[b].id # id
    <3>1. Current(job[b].id)' = Current(job[b].id)
      BY <1>6, <1>11, <2>2 DEF Current
    <3> QED
      BY <1>11, <2>1, <3>1 DEF MemOk
  <2>3. CASE job[b].id = id
    <3>1. SUFFICES ASSUME job[b].src = Memory, at[b] \in Active PROVE MemOk(at[b], job[b])'
      BY <1>11 DEF MemOk
    <3>2. /\ job[b].expected <= cur.version
          /\ at[b] # "generate" => \E t \in Rewrites : job[b].text = {t}
          /\ job[b].retry => at[b] = "load"
          /\ at[b] = "create" => \A y \in job[b].spec :
                /\ job[b].expected <= y.version /\ y.version <= cur.version
                /\ job[b].idx \in DOMAIN y.checks /\ job[b].text = {y.checks[job[b].idx]}
      BY <2>1, <2>3, <3>1 DEF MemOk, cur
    <3>3. \A y \in job[b].spec : y.version \in Nat
      BY <2>1, <3>1 DEF JobOk, IsSpec
    <3>4. new.version \in Nat /\ cur.version < new.version /\ Current(job[b].id)' = new
      BY <1>0, <1>2, <1>6, <1>11, <2>3 DEF Current
    <3>5. /\ job[b].expected < new.version
          /\ \A y \in job[b].spec : y.version <= cur.version => y.version < new.version
      BY <1>2, <2>1, <3>2, <3>3, <3>4
    <3>6. /\ job[b].expected <= new.version
          /\ \A y \in job[b].spec :
                y.version <= cur.version => y.version <= new.version /\ y.version # new.version
      BY <2>1, <3>3, <3>4, <3>5
    <3> QED
      BY <1>11, <3>2, <3>4, <3>5, <3>6 DEF MemOk
  <2> QED
    BY <2>2, <2>3
<1> QED
  BY <1>9, <1>10, <1>11

\* create_next_version up to the unlock, on a shared source.
LEMMA CreateStep ==
  ASSUME SInv, NEW a \in Callers, CreateNextVersion(a)
  PROVE  SInv'
<1>0. /\ StoreInv /\ JobOk(at[a], job[a]) /\ DOMAIN job[a] = JobFields
      /\ job[a].expected \in Nat /\ a # Engine
  BY CallFacts, Names
<1>1. PICK s, id, v : s = job[a].src /\ id = job[a].id /\ v = job[a].expected + 1
  OBVIOUS
<1>2. /\ at[a] = "create" /\ UNCHANGED <<inner, kv, unsaved>> /\ Compared(s, id, job[a].expected)
      /\ log' = Append(log, [src |-> s, id |-> id, idx |-> job[a].idx, text |-> job[a].text])
  BY <1>0, <1>1 DEF CreateNextVersion
<1>3. PICK x \in job[a].spec :
        LET new == [x EXCEPT !.version = job[a].expected + 1]
        IN  /\ override' = [override EXCEPT ![job[a].src] =
                   [i \in DOMAIN override[job[a].src] \cup {job[a].id} |->
                       IF i = job[a].id THEN new ELSE override[job[a].src][i]]]
            /\ IF job[a].src \in Nodes
               THEN /\ at' = [at EXCEPT ![a] = "put_version"]
                    /\ job' = [job EXCEPT ![a].spec = {new}, ![a].version = job[a].expected + 1]
               ELSE Finish(a, [job[a] EXCEPT !.version = job[a].expected + 1], "repaired")
  BY DEF CreateNextVersion
<1>4. /\ s \in Shared /\ Known(s, id) /\ v \in Nat /\ IsSpec(x, id)
  BY <1>0, <1>1, <1>2 DEF JobOk, Active
<1>5. PICK new : new = [x EXCEPT !.version = job[a].expected + 1]
  OBVIOUS
<1>6. IsSpec(new, id) /\ new.version = v /\ new.checks = x.checks
  BY <1>1, <1>4, <1>5, Versioned
<1>7. override' = [override EXCEPT ![s] = [i \in DOMAIN override[s] \cup {id} |->
                                              IF i = id THEN new ELSE override[s][i]]]
  <2>1. override' = [override EXCEPT ![job[a].src] =
                       [i \in DOMAIN override[job[a].src] \cup {job[a].id} |->
                           IF i = job[a].id THEN new ELSE override[job[a].src][i]]]
    BY <1>3, <1>5
  <2> QED
    BY <1>1, <2>1
<1>8. /\ StoreInv'
      /\ \A r \in Sources \ {s} : override'[r] = override[r]
      /\ DOMAIN override'[s] = DOMAIN override[s] \cup {id} /\ override'[s][id] = new
      /\ \A i \in DOMAIN override[s] \ {id} : override'[s][i] = override[s][i]
  BY <1>0, <1>2, <1>4, <1>6, <1>7, Overridden
<1>9. PointerInv'
  BY <1>2 DEF SInv, PointerInv
<1>10. PICK r : r = [src |-> s, id |-> id, idx |-> job[a].idx, text |-> job[a].text]
  OBVIOUS
<1>11. /\ Len(log) \in Nat /\ DOMAIN log = 1..Len(log)
       /\ Len(log') = Len(log) + 1 /\ DOMAIN log' = 1..(Len(log) + 1)
       /\ \A i \in DOMAIN log : log'[i] = log[i]
       /\ log'[Len(log) + 1] = r
       /\ \E S : log' \in Seq(S)
  BY <1>2, <1>10, LogGrows DEF SInv
<1>12. ASSUME NEW p, NEW j, at' = [at EXCEPT ![a] = p], job' = [job EXCEPT ![a] = j],
              JobOk(p, j), p # "put_latest"
       PROVE  JobInv' /\ EngineInv' /\ at'[a] = p /\ job'[a] = j
              /\ \A b \in Callers \ {a} : at'[b] = at[b] /\ job'[b] = job[b]
  <2>1. /\ EngineInv' /\ at'[a] = p /\ job'[a] = j
        /\ \A b \in Callers \ {a} : at'[b] = at[b] /\ job'[b] = job[b]
    BY <1>12, MoveOnly
  <2>2. ASSUME NEW b \in Callers PROVE JobOk(at[b], job[b])'
    <3>1. CASE b = a
      BY <1>2, <1>12, <2>1, <3>1 DEF JobOk, Known
    <3>2. CASE b # a
      <4>1. JobOk(at[b], job[b])
        BY CallFacts
      <4> QED
        BY <1>2, <2>1, <3>2, <4>1 DEF JobOk, Known
    <3> QED
      BY <3>1, <3>2
  <2>3. JobInv'
    BY <2>2 DEF JobInv
  <2> QED
    BY <2>1, <2>3
<1>13. CASE s \in Nodes
  <2>1. PICK j : j = [[job[a] EXCEPT !.spec = {new}] EXCEPT !.version = v]
    OBVIOUS
  <2>2. at' = [at EXCEPT ![a] = "put_version"] /\ job' = [job EXCEPT ![a] = j]
    <3>1. /\ at' = [at EXCEPT ![a] = "put_version"]
          /\ job' = [job EXCEPT ![a].spec = {new}, ![a].version = job[a].expected + 1]
      BY <1>1, <1>3, <1>5, <1>13
    <3> QED
      BY <1>1, <2>1, <3>1
  <2>3. /\ DOMAIN j = JobFields /\ j.src = s /\ j.id = id /\ j.spec = {new} /\ j.version = v
        /\ j.expected = job[a].expected
    BY <1>0, <1>1, <2>1 DEF JobFields
  <2>4. JobOk("put_version", j)
    BY <1>0, <1>4, <1>6, <1>13, <2>3 DEF JobOk
  <2>5. /\ JobInv' /\ EngineInv' /\ at'[a] = "put_version" /\ job'[a] = j
        /\ \A b \in Callers \ {a} : at'[b] = at[b] /\ job'[b] = job[b]
    BY <1>12, <2>2, <2>4
  <2>6. override'[Memory] = override[Memory] /\ s # Memory
    BY <1>8, <1>13, Names
  <2>7. ASSUME NEW b \in Callers PROVE MemOk(at[b], job[b])'
    <3>1. CASE b = a
      BY <2>3, <2>5, <2>6, <3>1 DEF MemOk
    <3>2. CASE b # a
      <4>1. MemOk(at[b], job[b])
        BY CallFacts
      <4> QED
        BY <1>2, <2>5, <2>6, <3>2, <4>1 DEF MemOk, Current
    <3> QED
      BY <3>1, <3>2
  <2>8. MemInv'
    BY <2>7 DEF MemInv
  <2>9. r.src # Memory
    BY <1>10, <2>6
  <2>10. LogInv'
    BY <1>11, <2>6, <2>9 DEF SInv, LogInv
  <2>11. NoLostRepair'
    <3>1. SUFFICES ASSUME NEW i \in DOMAIN log', log'[i].src = Memory
                   PROVE  \/ log'[i].text = {override'[Memory][log'[i].id].checks[log'[i].idx]}
                          \/ \E k \in (i + 1)..Len(log') :
                                log'[k].src = Memory /\ log'[k].id = log'[i].id
                                /\ log'[k].idx = log'[i].idx
      BY DEF NoLostRepair
    <3>2. i \in DOMAIN log /\ i \in 1..Len(log) /\ log'[i] = log[i]
      BY <1>11, <2>9, <3>1
    <3>3. \/ log[i].text = {override[Memory][log[i].id].checks[log[i].idx]}
          \/ \E k \in (i + 1)..Len(log) :
                log[k].src = Memory /\ log[k].id = log[i].id /\ log[k].idx = log[i].idx
      BY <3>1, <3>2 DEF SInv, NoLostRepair
    <3>4. ASSUME NEW k \in (i + 1)..Len(log)
          PROVE  k \in (i + 1)..Len(log') /\ log'[k] = log[k]
      BY <1>11, <3>2
    <3> QED
      BY <2>6, <3>2, <3>3, <3>4
  <2> QED
    BY <1>8, <1>9, <1>11, <2>5, <2>8, <2>10, <2>11 DEF SInv
<1>14. CASE s \notin Nodes
  <2>1. s = Memory
    BY <1>4, <1>14 DEF Shared
  <2>2. PICK i : i = [job[a] EXCEPT !.version = v]
    OBVIOUS
  <2>3. DOMAIN i = JobFields /\ i.expected = job[a].expected
    BY <1>0, <2>2 DEF JobFields
  <2>4. Finish(a, i, "repaired")
    BY <1>1, <1>3, <1>14, <2>2
  <2>5. PICK j : /\ at' = [at EXCEPT ![a] = "done"] /\ job' = [job EXCEPT ![a] = j]
                 /\ JobOk("done", j) /\ MemOk("done", j)
    BY <1>0, <2>3, <2>4, Ended
  <2>6. /\ JobInv' /\ EngineInv' /\ at'[a] = "done" /\ job'[a] = j
        /\ \A b \in Callers \ {a} : at'[b] = at[b] /\ job'[b] = job[b]
    BY <1>12, <2>5
  <2>7. r.src = Memory /\ r.id = id /\ r.idx = job[a].idx /\ r.text = job[a].text
        /\ log' = Append(log, r)
    BY <1>2, <1>10, <2>1
  <2>8. /\ DOMAIN override'[Memory] = DOMAIN override[Memory] \cup {id}
        /\ override'[Memory][id] = new
        /\ \A k \in DOMAIN override[Memory] \ {id} : override'[Memory][k] = override[Memory][k]
        /\ job[a].src = Memory /\ job[a].id = id /\ Compared(Memory, id, job[a].expected)
        /\ new.version = job[a].expected + 1 /\ inner' = inner
    BY <1>1, <1>2, <1>6, <1>8, <2>1
  <2>9. /\ LogInv' /\ NoLostRepair'
        /\ \A b \in Callers : at'[b] = at[b] /\ job'[b] = job[b] /\ b # a
               => MemOk(at[b], job[b])'
    BY <1>2, <1>6, <2>7, <2>8, MemoryCreate
  <2>10. MemOk(at[a], job[a])'
    BY <2>6 DEF MemOk, Active
  <2>11. MemInv'
    BY <2>6, <2>9, <2>10 DEF MemInv
  <2> QED
    BY <1>8, <1>9, <1>11, <2>6, <2>9, <2>11 DEF SInv
<1> QED
  BY <1>13, <1>14

-----------------------------------------------------------------------------
(* The invariant and the theorems *)

LEMMA InitSInv == ASSUME Init PROVE SInv
<1>0. /\ inner = [s \in Sources |-> IF s = Private THEN <<>> ELSE LoadAll(dir)]
      /\ override = [s \in Sources |-> Idle] /\ kv = [version |-> Idle, latest |-> Idle]
      /\ at = [a \in AllCallers |-> "idle"] /\ job = [a \in AllCallers |-> NoJob]
      /\ log = <<>> /\ unsaved = {}
  BY DEF Init
<1>1. DOMAIN Idle = {}
  BY DEF Idle
<1>2. ASSUME NEW s \in Shared, NEW n \in DOMAIN inner[s]
      PROVE  IsSpec(inner[s][n], inner[s][n].id) /\ inner[s][n].version = 1
  <2>1. inner[s] = LoadAll(dir)
    BY <1>0, Names
  <2>2. inner[s][n] = FileSpec(Readable(dir)[n])
    BY <2>1 DEF LoadAll
  <2>3. PICK f : inner[s][n] = FileSpec(f)
    BY <2>2
  <2> QED
    BY <2>3 DEF FileSpec, IsSpec
<1>3. StoreInv
  <2>1. \A s \in Shared : DOMAIN override[s] = {}
    BY <1>0, <1>1, Names
  <2>2. DOMAIN kv = {"version", "latest"} /\ DOMAIN kv.version = {}
    BY <1>0, <1>1
  <2> QED
    BY <1>0, <1>2, <2>1, <2>2 DEF StoreInv
<1>4. EngineInv
  BY <1>0, NoJobShape, Names DEF EngineInv, Active
<1>5. JobInv /\ MemInv
  <2>1. \A a \in Callers : at[a] = "idle" /\ job[a] = NoJob
    BY <1>0, Names
  <2>2. JobOk("idle", NoJob) /\ MemOk("idle", NoJob)
    BY NoJobShape DEF JobOk, MemOk, Active, AtBucket
  <2> QED
    BY <2>1, <2>2 DEF JobInv, MemInv
<1>6. PointerInv
  BY <1>0, <1>1 DEF PointerInv
<1>7. LogInv /\ NoLostRepair /\ \E S : log \in Seq(S)
  <2>1. log \in Seq({}) /\ DOMAIN log = {}
    BY <1>0
  <2> QED
    BY <2>1 DEF LogInv, NoLostRepair
<1> QED
  BY <1>3, <1>4, <1>5, <1>6, <1>7 DEF SInv

\* Every step keeps the invariant.
LEMMA StepSInv == ASSUME SInv, [Next]_vars PROVE SInv'
<1>1. ASSUME NEW r \in Requests, StartTask(r) PROVE SInv'
  BY <1>1, TaskStep DEF StartTask
<1>2. CASE RunWave
  BY <1>2, TaskStep DEF RunWave
<1>3. CASE NoInstability
  BY <1>3, TaskStep DEF NoInstability
<1>4. CASE BlameFirstCheck
  BY <1>4, TaskStep DEF BlameFirstCheck
<1>5. CASE AccumulateAmbiguity
  BY <1>5, TaskStep DEF AccumulateAmbiguity
<1>6. CASE FireCard
  BY <1>6, TaskStep DEF FireCard
<1>7. CASE NoRepairAdapter
  BY <1>7, TaskStep DEF NoRepairAdapter
<1>8. CASE StartEngineRepair \/ RestartTask \/ RepairFailed
  BY <1>8, EngineSteps
<1>9. ASSUME NEW a \in AllCallers, Advisor(a) PROVE SInv'
  <2>1. CASE a = Engine
    BY <1>9, <2>1, EngineAdvisor
  <2>2. CASE a \in Callers
    BY <1>9, <2>2, GenerateStep, LoadStep, ReadSteps, WarmStep, CreateStep, ConflictStep,
       PutVersionStep, PutLatestStep, PutFailsStep DEF Advisor, AdvisorOwn
  <2> QED
    BY <2>1, <2>2 DEF AllCallers
<1>10. ASSUME NEW a \in Callers, NEW s \in Sources \ {Private}, CallAdvisor(a, s) PROVE SInv'
  BY <1>10, CallStep
<1>11. ASSUME NEW n \in Nodes, RestartNode(n) PROVE SInv'
  BY <1>11, RestartStep
<1>12. CASE UNCHANGED vars
  BY <1>12, TaskStep DEF vars
<1> QED
  BY <1>1, <1>2, <1>3, <1>4, <1>5, <1>6, <1>7, <1>8, <1>9, <1>10, <1>11, <1>12
     DEF Next, Handler, HandlerOwn, HandlerOwn

\* Two advisors on one in-memory source never undo each other's rewrites: the
\* compare-and-swap of create_next_version admits only a spec read at the
\* current version, and the reload after a conflict gives way.
THEOREM RepairsKept == Spec => []NoLostRepair
<1>1. Init => SInv
  BY InitSInv
<1>2. SInv /\ [Next]_vars => SInv'
  BY StepSInv
<1>3. SInv => NoLostRepair
  BY DEF SInv
<1> QED
  BY <1>1, <1>2, <1>3, PTL DEF Spec

\* The record is put before the pointer, whatever creates, restarts, failed
\* reads and failed puts of several nodes overlap: the pointer of the bucket
\* always names a stored record, and that record has its version, unless the
\* put of that very record failed.
THEOREM PointerSound == Spec => []PointerNamesRecord
<1>1. Init => SInv
  BY InitSInv
<1>2. SInv /\ [Next]_vars => SInv'
  BY StepSInv
<1>3. SInv => PointerNamesRecord
  <2>1. SUFFICES ASSUME SInv, NEW id \in DOMAIN kv.latest, NEW key,
                        key = <<id, kv.latest[id]>>
                 PROVE  IF key \in DOMAIN kv.version
                        THEN kv.version[key].version = kv.latest[id] ELSE key \in unsaved
    BY DEF PointerNamesRecord
  <2>2. key \in DOMAIN kv.version \cup unsaved
    BY <2>1 DEF SInv, PointerInv
  <2>3. \A k \in DOMAIN kv.version : kv.version[k].version = k[2]
    BY <2>1 DEF SInv, StoreInv
  <2> QED
    BY <2>1, <2>2, <2>3
<1> QED
  BY <1>1, <1>2, <1>3, PTL DEF Spec

-----------------------------------------------------------------------------
(* Subsequences *)

\* A set of numbers that is not empty has a least one.
LEMMA LeastNatural ==
  ASSUME NEW T, T \subseteq Nat, T # {}
  PROVE  \E x \in T : \A y \in T : x <= y
  <1>. DEFINE R == {ss \in Nat \X Nat : ss[1] < ss[2]}
  <1>1. IsWellFoundedOn(R, Nat)
    BY NatLessThanWellFounded, Zenon DEF OpToRel
  <1>2. PICK x \in T : \A y \in T : ~(<<y, x>> \in R)
    BY <1>1, WFMin, Zenon
  <1>3. ASSUME NEW y \in T PROVE x <= y
    <2>1. <<y, x>> \notin R
      BY <1>2
    <2>2. <<y, x>> \in Nat \X Nat /\ <<y, x>>[1] = y /\ <<y, x>>[2] = x
      OBVIOUS
    <2>3. ~(y < x)
      BY <2>1, <2>2
    <2>. QED  BY <2>3
  <1>. QED  BY <1>3

\* p lists the positions I in order, and the subsequence follows it.
Positions(p, s, I) ==
    /\ p \in [1..Cardinality(I) -> I]
    /\ \A k, l \in 1..Cardinality(I) : k < l => p[k] < p[l]
    /\ \A i \in I : \E k \in 1..Cardinality(I) : p[k] = i
    /\ Subsequence(s, I) = [k \in 1..Cardinality(I) |-> s[p[k]]]

\* The positions of a subsequence: in order, and none but those of I.
LEMMA SubsequencePositions ==
  ASSUME NEW n \in Nat, NEW I \in SUBSET (1..n), NEW s
  PROVE  /\ IsFiniteSet(I) /\ Cardinality(I) \in Nat
         /\ \E p : Positions(p, s, I)
<1> DEFINE Upto(i) == {j \in I : j <= i}
           Rank(i) == Cardinality(Upto(i))
           c == Cardinality(I)
<1>0. \A j \in I : j \in Nat /\ 1 <= j /\ j <= n OBVIOUS
<1>1. IsFiniteSet(I) /\ c \in Nat
  <2>1. IsFiniteSet(1..n) BY FS_Interval
  <2> QED BY <2>1, FS_Subset, FS_CardinalityType
<1>U. \A i : Upto(i) \subseteq I /\ \A j \in I : j \in Upto(i) <=> j <= i OBVIOUS
<1> HIDE DEF Upto
<1>2. \A i \in Nat : IsFiniteSet(Upto(i)) /\ Rank(i) \in Nat /\ Rank(i) <= c
  <2> SUFFICES ASSUME NEW i \in Nat PROVE IsFiniteSet(Upto(i)) /\ Rank(i) \in Nat /\ Rank(i) <= c
    OBVIOUS
  <2>1. Upto(i) \subseteq I BY <1>U
  <2> QED BY <1>1, <2>1, FS_Subset, FS_CardinalityType
<1>3. ASSUME NEW i \in Nat, NEW j \in I, i < j PROVE Rank(i) < Rank(j)
  <2>0. j \in Nat /\ \A x \in I : x \in Nat BY <1>0
  <2>1. Upto(i) \subseteq Upto(j)
    <3>1. \A x \in I : x <= i => x <= j BY <1>3, <2>0
    <3> QED BY <1>U, <3>1
  <2>1a. j \in Upto(j) /\ j \notin Upto(i)
    <3>1. j <= j /\ ~(j <= i) BY <1>3, <2>0
    <3> QED BY <1>U, <3>1
  <2>2. Upto(i) # Upto(j) /\ IsFiniteSet(Upto(j)) BY <1>2, <2>0, <2>1a
  <2>3. Rank(i) <= Rank(j) /\ Rank(i) # Rank(j) BY <2>1, <2>2, FS_Subset
  <2> QED BY <1>2, <2>0, <2>3
<1>4. ASSUME NEW i \in Nat PROVE Rank(i + 1) <= Rank(i) + 1 /\ (i + 1 \notin I => Rank(i + 1) = Rank(i))
  <2>1. CASE i + 1 \in I
    <3>0. /\ \A x \in I : x <= i + 1 <=> (x <= i \/ x = i + 1)
          /\ ~(i + 1 <= i) BY <1>0
    <3>1. Upto(i + 1) = Upto(i) \cup {i + 1} /\ i + 1 \notin Upto(i) BY <1>U, <2>1, <3>0
    <3> QED BY <1>2, <2>1, <3>1, FS_AddElement
  <2>2. CASE i + 1 \notin I
    <3>0. \A x \in I : x <= i + 1 <=> x <= i BY <1>0, <2>2
    <3>1. Upto(i + 1) \subseteq Upto(i) BY <1>U, <3>0
    <3>2. Upto(i) \subseteq Upto(i + 1) BY <1>U, <3>0
    <3>3. Upto(i + 1) = Upto(i) BY <3>1, <3>2
    <3> QED BY <1>2, <2>2, <3>3
  <2> QED BY <2>1, <2>2
<1>5. Rank(0) = 0 /\ Rank(n) = c
  <2>1. Upto(0) = {} /\ Upto(n) = I BY <1>0, <1>U
  <2> QED BY <2>1, FS_EmptySet
<1> HIDE DEF Rank, c
<1>6. \A k \in 1..c : \E i \in I : Rank(i) = k
  <2> SUFFICES ASSUME NEW k \in 1..c PROVE \E i \in I : Rank(i) = k OBVIOUS
  <2> DEFINE T == {i \in Nat : Rank(i) >= k}
  <2>1. n \in T BY <1>1, <1>5
  <2>2. PICK i \in T : \A j \in T : i <= j BY <2>1, LeastNatural
  <2>3. i # 0 /\ i \in Nat /\ i - 1 \in Nat /\ (i - 1) + 1 = i BY <1>1, <1>5
  <2>4. Rank(i - 1) < k /\ Rank(i) >= k BY <1>1, <1>2, <2>2, <2>3
  <2>5. Rank(i) <= Rank(i - 1) + 1 /\ (i \notin I => Rank(i) = Rank(i - 1)) BY <1>4, <2>3
  <2>6. Rank(i) \in Nat /\ Rank(i - 1) \in Nat BY <1>2, <2>3
  <2> QED BY <1>1, <2>4, <2>5, <2>6
<1> DEFINE p == [k \in 1..c |-> CHOOSE i \in I : Rank(i) = k]
<1>7. \A k \in 1..c : p[k] \in I /\ Rank(p[k]) = k BY <1>6
<1> HIDE DEF p
<1>8. ASSUME NEW k \in 1..c, NEW l \in 1..c, k < l PROVE p[k] < p[l]
  <2>1. p[k] \in Nat /\ p[l] \in Nat /\ p[k] \in I /\ p[l] \in I BY <1>0, <1>7
  <2>2. Rank(p[k]) = k /\ Rank(p[l]) = l BY <1>7
  <2>3. CASE p[l] < p[k]
    <3>1. Rank(p[l]) < Rank(p[k]) BY <1>3, <2>1, <2>3
    <3> QED BY <1>1, <1>8, <2>2, <3>1
  <2>4. p[l] # p[k] BY <1>8, <2>2, <1>1
  <2> QED BY <2>1, <2>3, <2>4
<1>9. ASSUME NEW i \in I PROVE \E k \in 1..c : p[k] = i
  <2>1. i \in Nat /\ i # 0 /\ Rank(i) \in Nat /\ Rank(i) <= c BY <1>2
  <2>2. Rank(0) < Rank(i) BY <1>3, <2>1
  <2>3. Rank(i) \in 1..c BY <1>1, <1>5, <2>1, <2>2
  <2>4. p[Rank(i)] \in I /\ Rank(p[Rank(i)]) = Rank(i) BY <1>7, <2>3
  <2>5. PICK m \in I : m = p[Rank(i)] /\ Rank(m) = Rank(i) BY <2>4
  <2>6. ~(m < i)
    <3>1. m < i => Rank(m) < Rank(i) BY <1>3, <2>5
    <3> QED BY <2>1, <2>5, <3>1
  <2>7. ~(i < m)
    <3>1. i < m => Rank(i) < Rank(m) BY <1>3, <2>1
    <3> QED BY <2>1, <2>5, <3>1
  <2>8. m = i BY <2>1, <2>5, <2>6, <2>7
  <2> QED BY <2>3, <2>5, <2>8
<1>10. Subsequence(s, I) = [k \in 1..c |-> s[p[k]]] BY DEF Subsequence, p, Rank, Upto, c
<1>11. p \in [1..c -> I] BY <1>7 DEF p
<1> QED BY <1>1, <1>8, <1>9, <1>10, <1>11 DEF c, Positions

\* p lists m positions of I, none twice, and the subsequence follows it.
Selects(p, m, I, s) ==
    /\ p \in [1..m -> I]
    /\ \A k, l \in 1..m : p[k] = p[l] => k = l
    /\ Subsequence(s, I) = [k \in 1..m |-> s[p[k]]]

\* A subsequence takes no position twice.
LEMMA SubsequenceSelects ==
  ASSUME NEW n \in Nat, NEW I \in SUBSET (1..n), NEW s
  PROVE  \E m \in Nat : \E p : Selects(p, m, I, s)
<1>1. Cardinality(I) \in Nat /\ \E p : Positions(p, s, I)
  BY SubsequencePositions
<1>2. PICK p : Positions(p, s, I)
  BY <1>1
<1>3. PICK m \in Nat : m = Cardinality(I)
  BY <1>1
<1>4. /\ p \in [1..m -> I] /\ Subsequence(s, I) = [k \in 1..m |-> s[p[k]]]
      /\ \A k, l \in 1..m : k < l => p[k] < p[l]
  BY <1>2, <1>3 DEF Positions
<1>5. ASSUME NEW k \in 1..m, NEW l \in 1..m, p[k] = p[l] PROVE k = l
  <2>1. PICK i \in I : i = p[k] /\ i = p[l]
    BY <1>4, <1>5
  <2>2. ~(i < i)
    OBVIOUS
  <2>3. ~(k < l) /\ ~(l < k)
    BY <1>4, <2>1, <2>2
  <2>. QED  BY <2>3
<1>. QED  BY <1>4, <1>5 DEF Selects

-----------------------------------------------------------------------------
(* The corpus of a task *)

\* One document of an id: a request that names an id twice has it twice.
OneEach(docs) ==
    /\ \A i, k \in DOMAIN docs : docs[i].id = docs[k].id => docs[i] = docs[k]
    /\ \A i \in DOMAIN docs : docs[i].version \in Nat

\* A directory is loaded with one document of an id: the first file wins.
LEMMA LoadedOnce ==
  ASSUME NEW d \in Directories
  PROVE  \E m \in Nat : DOMAIN LoadCorpus(d) = 1..m /\ OneEach(LoadCorpus(d))
<1>. DEFINE I == {i \in DOMAIN d : /\ Loads(d[i])
                                   /\ \A j \in 1..(i - 1) : Loads(d[j]) => d[j].id # d[i].id}
<1>1. PICK n \in Nat : DOMAIN d = 1..n
  BY DirectoriesAssumption
<1>2. I \in SUBSET (1..n) /\ Readable(d) = Subsequence(d, I)
  BY <1>1 DEF Readable
<1>3. ASSUME NEW i \in I, NEW k \in I, d[i].id = d[k].id PROVE i = k
  <2>1. i \in Nat /\ k \in Nat /\ 1 <= i /\ 1 <= k /\ Loads(d[i]) /\ Loads(d[k])
    BY <1>1
  <2>2. CASE i < k
    <3>1. i \in 1..(k - 1)
      BY <2>1, <2>2
    <3>. QED  BY <1>3, <2>1, <3>1
  <2>3. CASE k < i
    <3>1. k \in 1..(i - 1)
      BY <2>1, <2>3
    <3>. QED  BY <1>3, <2>1, <3>1
  <2>. QED  BY <2>1, <2>2, <2>3
<1>. HIDE DEF I
<1>m. PICK m \in Nat : \E p : Selects(p, m, I, d)
  BY <1>2, SubsequenceSelects
<1>4. PICK p : Selects(p, m, I, d)
  BY <1>m
<1>5. PICK fs : fs = Readable(d)
  OBVIOUS
<1>6. /\ fs = [k \in 1..m |-> d[p[k]]] /\ \A k \in 1..m : p[k] \in I
      /\ \A k, l \in 1..m : p[k] = p[l] => k = l
  BY <1>2, <1>4, <1>5 DEF Selects
<1>7. PICK docs : docs = LoadCorpus(d)
  OBVIOUS
<1>8. docs = [i \in 1..m |-> FileDoc(fs[i])]
  BY <1>5, <1>6, <1>7 DEF LoadCorpus
<1>9. \A i \in 1..m : docs[i].id = d[p[i]].id /\ docs[i].version = 1
  BY <1>6, <1>8 DEF FileDoc
<1>10. DOMAIN docs = 1..m /\ OneEach(docs)
  BY <1>3, <1>6, <1>8, <1>9 DEF OneEach
<1>. QED  BY <1>7, <1>10

\* What a task resolves of them has one document of an id as well.
LEMMA ResolvedOnce ==
  ASSUME NEW docs, NEW n \in Nat, DOMAIN docs = 1..n, OneEach(docs), NEW t, NEW q,
         NEW e, NEW l \in Nat, DOMAIN e = 1..l
  PROVE  OneEach(Resolve(docs, e, t, q))
<1>1. PICK r : r = Resolve(docs, e, t, q)
  OBVIOUS
<1>2. CASE e # <<>>
  <2>. DEFINE I == {i \in DOMAIN e : \E d \in ToSet(docs) : d.id = e[i]}
  <2>1. I \in SUBSET (1..l) /\ FindByIds(docs, e) = Subsequence(e, I)
    BY DEF FindByIds
  <2>2. \A i \in I : DocOf(docs, e[i]) \in ToSet(docs) /\ DocOf(docs, e[i]).id = e[i]
    BY DEF DocOf
  <2>. HIDE DEF I
  <2>m. PICK m \in Nat : \E p : Selects(p, m, I, e)
    BY <2>1, SubsequenceSelects
  <2>3. PICK p : Selects(p, m, I, e)
    BY <2>m
  <2>4. PICK ids : ids = FindByIds(docs, e)
    OBVIOUS
  <2>5. ids = [k \in 1..m |-> e[p[k]]] /\ \A k \in 1..m : p[k] \in I
    BY <2>1, <2>3, <2>4 DEF Selects
  <2>6. r = [k \in 1..m |-> DocOf(docs, e[p[k]])]
    BY <1>1, <1>2, <2>4, <2>5 DEF Resolve, LoadMany
  <2>7. \A k \in 1..m : r[k] \in ToSet(docs) /\ r[k].id = e[p[k]]
    BY <2>2, <2>5, <2>6
  <2>8. \A d \in ToSet(docs) : d.version \in Nat
    BY DEF OneEach, ToSet
  <2>. QED  BY <1>1, <2>6, <2>7, <2>8 DEF OneEach
<1>3. CASE e = <<>>
  <2>. DEFINE ids == FindByTags(docs, t) \cup Search(docs, q)
              I == {i \in DOMAIN docs : docs[i].id \in ids}
  <2>1. I \in SUBSET (1..n) /\ Resolve(docs, e, t, q) = Subsequence(docs, I)
    BY <1>3 DEF Resolve
  <2>. HIDE DEF I
  <2>m. PICK m \in Nat : \E p : Selects(p, m, I, docs)
    BY <2>1, SubsequenceSelects
  <2>2. PICK p : Selects(p, m, I, docs)
    BY <2>m
  <2>3. r = [k \in 1..m |-> docs[p[k]]] /\ \A k \in 1..m : p[k] \in DOMAIN docs
    BY <1>1, <2>1, <2>2 DEF Selects
  <2>. QED  BY <1>1, <2>3 DEF OneEach
<1>. QED  BY <1>2, <1>3

\* The static scanner has evidence against the check idx of the constraint id.
Confirmed(docs, id, idx) ==
    \A i \in DOMAIN docs : docs[i].id = id => ScanCheck(docs[i], idx) # {}

IsCard(x) == DOMAIN x = {"score", "static", "applied"}

\* The controller's first cards are those the scanner has evidence for.
LEMMA SeedConfirms ==
  ASSUME NEW docs, OneEach(docs), NEW enabled, NEW k \in DOMAIN SeedScorecards(docs, enabled)
  PROVE  IsCard(SeedScorecards(docs, enabled)[k]) /\ Confirmed(docs, k[1], k[2])
<1>. DEFINE flagged == {p \in UNION {{<<d, i>> : i \in DOMAIN d.checks} : d \in ToSet(docs)} :
                           ScanCheck(p[1], p[2]) # {}}
            seen(j) == CHOOSE q \in flagged : q[1].id = j[1] /\ q[2] = j[2]
            seeds == [j \in {<<p[1].id, p[2]>> : p \in flagged} |->
                         Card(ScoreOf(ScanCheck(seen(j)[1], seen(j)[2])), TRUE)]
<1>1. SeedScorecards(docs, enabled) = IF ~enabled THEN <<>> ELSE seeds
  BY DEF SeedScorecards
<1>2. SeedScorecards(docs, enabled) = seeds /\ k \in DOMAIN seeds
  <2>. HIDE DEF seeds
  <2>1. CASE enabled
    BY <1>1, <2>1
  <2>2. CASE ~enabled
    <3>1. SeedScorecards(docs, enabled) = <<>> /\ DOMAIN <<>> = {}
      BY <1>1, <2>2
    <3>. QED  BY <3>1
  <2>. QED  BY <2>1, <2>2
<1>3. IsCard(seeds[k])
  BY <1>2 DEF IsCard, Card
<1>4. PICK p \in flagged : k = <<p[1].id, p[2]>>
  BY <1>2
<1>5. PICK d \in ToSet(docs) : p \in {<<d, i>> : i \in DOMAIN d.checks}
  OBVIOUS
<1>6. PICK i : p = <<d, i>>
  BY <1>5
<1>7. ScanCheck(d, i) # {} /\ k[1] = d.id /\ k[2] = i
  BY <1>4, <1>6
<1>8. PICK n \in DOMAIN docs : d = docs[n]
  BY DEF ToSet
<1>9. Confirmed(docs, k[1], k[2])
  BY <1>7, <1>8 DEF Confirmed, OneEach
<1>. QED  BY <1>2, <1>3, <1>9

-----------------------------------------------------------------------------
(* The task and its repair *)

\* A card that pinpoints a check goes back to the scanner, and so does what is
\* reported of it.
CardsInv ==
    \A k \in DOMAIN cards :
        IsCard(cards[k]) /\ (cards[k].static /\ k[2] # Dynamic => Confirmed(corpus, k[1], k[2]))

SignalInv ==
    pc \in {"signalled", "repairing"} /\ conf.detection =>
        \A sig \in signal : Confirmed(corpus, sig.id, sig.idx)

\* The document's spec with a check rewritten, in its next version.
Repaired(x, doc, idx) ==
    \E t \in Rewrites : x = [[MinimalSpec(doc) EXCEPT !.checks[idx] = t]
                                EXCEPT !.version = doc.version + 1]

\* The engine's call at p with job j on its private source, which overrides
\* over, for a document.  It meets no conflict, so it never reloads.
RepairOf(doc, over, p, j) ==
    /\ p # "done" => j.expected = doc.version /\ ~j.retry /\ DOMAIN over = {}
    /\ p \in {"load", "create"} => \E t \in Rewrites : j.text = {t}
    /\ p = "create" => /\ j.idx \in DOMAIN doc.checks
                       /\ j.spec = {RewriteOf(j, MinimalSpec(doc))}
    /\ p = "done" /\ j.out = "repaired" =>
          /\ j.id \in DOMAIN over /\ j.idx \in DOMAIN doc.checks
          /\ Repaired(over[j.id], doc, j.idx)

RepairInv ==
    pc = "repairing" =>
        /\ inner[Private] = [i \in DOMAIN corpus |-> MinimalSpec(corpus[i])]
        /\ at[Engine] \in {"generate", "load", "create", "done"}
        /\ DOMAIN override[Private] \subseteq {job[Engine].id}
        /\ \E sig \in signal : job[Engine].id = sig.id /\ job[Engine].idx = sig.idx
        /\ \A n \in DOMAIN corpus :
              corpus[n].id = job[Engine].id =>
                  RepairOf(corpus[n], override[Private], at[Engine], job[Engine])

\* While a task runs nobody calls the advisor on a shared source.
Alone == pc # "off" => \A a \in Callers : at[a] = "idle"

TaskInv ==
    dir \in Directories /\ OneEach(corpus) /\ CardsInv /\ SignalInv /\ RepairInv /\ Alone

\* The task goes on without a report.
LEMMA GoesOn ==
  ASSUME TaskInv, dir' = dir, corpus' = corpus, CardsInv', pc # "off",
         pc' \notin {"signalled", "repairing"}, \A a \in Callers : at'[a] = at[a]
  PROVE  TaskInv'
<1>1. SignalInv' /\ RepairInv'
  BY DEF SignalInv, RepairInv
<1>2. Alone'
  BY DEF TaskInv, Alone
<1>3. dir' \in Directories /\ OneEach(corpus)'
  BY DEF TaskInv
<1>. QED  BY <1>1, <1>2, <1>3 DEF TaskInv

\* The engine's part is left alone.
LEMMA TaskSame ==
  ASSUME TaskInv, UNCHANGED <<dir, conf, pc, corpus, cards, signal>>,
         inner'[Private] = inner[Private], override'[Private] = override[Private],
         at'[Engine] = at[Engine], job'[Engine] = job[Engine],
         pc # "off" => \A a \in Callers : at'[a] = at[a]
  PROVE  TaskInv'
<1>1. CardsInv' /\ SignalInv' /\ Alone' /\ dir' \in Directories /\ OneEach(corpus)'
  BY DEF TaskInv, CardsInv, SignalInv, Alone
<1>2. RepairInv'
  BY DEF TaskInv, RepairInv
<1>. QED  BY <1>1, <1>2 DEF TaskInv

\* Evidence from a wave leaves the scanner's verdict on a card alone.
LEMMA FrozenCard ==
  ASSUME CardsInv, NEW c, NEW k \in CardKeys(c)
  PROVE  LET card == FreezeEvidence(CurrentCard(k))
         IN  /\ IsCard(card) /\ IsCard([card EXCEPT !.applied = TRUE])
             /\ [card EXCEPT !.applied = TRUE].static = card.static
             /\ card.static /\ k[2] # Dynamic => Confirmed(corpus, k[1], k[2])
             /\ k[2] # Dynamic => k[1] = c
<1>. DEFINE old == CurrentCard(k)   card == FreezeEvidence(old)
<1>1. IsCard(old) /\ (k \in DOMAIN cards => old = cards[k])
  BY DEF CardsInv, CurrentCard, Card, IsCard
<1>2. (k \in DOMAIN cards /\ k[1] = c) \/ k = <<c, Dynamic>>
  BY DEF CardKeys, StaticKeys
<1>3. IsCard(card) /\ card.static = old.static
  BY <1>1 DEF IsCard, FreezeEvidence
<1>. HIDE DEF old, card
<1>4. IsCard([card EXCEPT !.applied = TRUE]) /\ [card EXCEPT !.applied = TRUE].static = card.static
  BY <1>3 DEF IsCard
<1>5. k[2] # Dynamic => k \in DOMAIN cards /\ k[1] = c
  BY <1>2
<1>6. card.static /\ k[2] # Dynamic => Confirmed(corpus, k[1], k[2])
  BY <1>1, <1>3, <1>5 DEF CardsInv
<1>. QED  BY <1>3, <1>4, <1>5, <1>6 DEF old, card

\* A card the scanner confirms may be put.
LEMMA CardPut ==
  ASSUME CardsInv, NEW k, NEW card, IsCard(card), cards' = PutCard(k, card), corpus' = corpus,
         card.static /\ k[2] # Dynamic => Confirmed(corpus, k[1], k[2])
  PROVE  CardsInv'
BY DEF CardsInv, PutCard

\* The steps of the waves.
LEMMA WaveSteps ==
  ASSUME TaskInv, RunWave \/ NoInstability \/ AccumulateAmbiguity \/ BlameFirstCheck \/ FireCard
  PROVE  TaskInv'
<1>0. CardsInv
  BY DEF TaskInv
<1>1. CASE RunWave \/ NoInstability
  <2>1. /\ dir' = dir /\ corpus' = corpus /\ cards' = cards /\ at' = at /\ pc # "off"
        /\ pc' \in {"wave", "decide", "exhausted", "resolved"}
    BY <1>1 DEF RunWave, NoInstability, Retry
  <2>2. CardsInv'
    BY <1>0, <2>1 DEF CardsInv
  <2>. QED  BY <2>1, <2>2, GoesOn
<1>2. CASE AccumulateAmbiguity
  <2>1. /\ dir' = dir /\ corpus' = corpus /\ at' = at /\ pc # "off"
        /\ pc' \in {"wave", "exhausted", "resolved"}
    BY <1>2 DEF AccumulateAmbiguity, Retry
  <2>2. PICK c, k :
           /\ k \in CardKeys(c)
           /\ cards' = cards \/ cards' = PutCard(k, FreezeEvidence(CurrentCard(k)))
    BY <1>2 DEF AccumulateAmbiguity
  <2>3. CardsInv'
    <3>1. CASE cards' = cards
      BY <1>0, <2>1, <3>1 DEF CardsInv
    <3>2. CASE cards' = PutCard(k, FreezeEvidence(CurrentCard(k)))
      <4>1. PICK card : card = FreezeEvidence(CurrentCard(k))
        OBVIOUS
      <4>2. IsCard(card) /\ (card.static /\ k[2] # Dynamic => Confirmed(corpus, k[1], k[2]))
        BY <1>0, <2>2, <4>1, FrozenCard
      <4>. QED  BY <1>0, <2>1, <3>2, <4>1, <4>2, CardPut
    <3>. QED  BY <2>2, <3>1, <3>2
  <2>. QED  BY <2>1, <2>3, GoesOn
<1>3. CASE BlameFirstCheck
  <2>1. /\ UNCHANGED <<dir, conf, corpus, cards, at>> /\ pc = "decide" /\ pc' = "signalled"
        /\ ~conf.detection
    BY <1>3 DEF BlameFirstCheck
  <2>2. CardsInv' /\ SignalInv' /\ RepairInv' /\ Alone'
    BY <2>1 DEF TaskInv, CardsInv, SignalInv, RepairInv, Alone
  <2>. QED  BY <2>1, <2>2 DEF TaskInv
<1>4. CASE FireCard
  <2>1. UNCHANGED <<dir, conf, corpus, at>> /\ pc = "decide"
    BY <1>4 DEF FireCard
  <2>2. PICK c, k :
           k \in CardKeys(c) /\
           LET card == FreezeEvidence(CurrentCard(k))
           IN  /\ cards' = PutCard(k, [card EXCEPT !.applied = TRUE])
               /\ IF Precise(k, card)
                  THEN signal' = {[id |-> c, idx |-> k[2], scored |-> TRUE]} /\ pc' = "signalled"
                  ELSE Retry
    BY <1>4 DEF FireCard
  <2>3. PICK card : card = FreezeEvidence(CurrentCard(k))
    OBVIOUS
  <2>4. PICK fired : fired = [card EXCEPT !.applied = TRUE]
    OBVIOUS
  <2>5. /\ IsCard(fired) /\ fired.static = card.static /\ (k[2] # Dynamic => k[1] = c)
        /\ card.static /\ k[2] # Dynamic => Confirmed(corpus, k[1], k[2])
    BY <1>0, <2>2, <2>3, <2>4, FrozenCard
  <2>6. CardsInv'
    BY <1>0, <2>1, <2>2, <2>3, <2>4, <2>5, CardPut
  <2>7. CASE Precise(k, card)
    <3>1. signal' = {[id |-> c, idx |-> k[2], scored |-> TRUE]} /\ pc' = "signalled"
      BY <2>2, <2>3, <2>7
    <3>2. Confirmed(corpus, c, k[2])
      BY <2>5, <2>7 DEF Precise
    <3>3. SignalInv'
      BY <2>1, <3>1, <3>2 DEF SignalInv
    <3>. QED  BY <2>1, <2>6, <3>1, <3>3 DEF TaskInv, RepairInv, Alone
  <2>8. CASE ~Precise(k, card)
    <3>1. pc' \in {"wave", "exhausted", "resolved"}
      BY <2>2, <2>3, <2>8 DEF Retry
    <3>. QED  BY <2>1, <2>6, <3>1, GoesOn
  <2>. QED  BY <2>7, <2>8
<1>. QED  BY <1>1, <1>2, <1>3, <1>4

\* A task starts on the documents resolved for it.
LEMMA StartStep ==
  ASSUME TaskInv, NEW r \in Requests, StartTask(r)
  PROVE  TaskInv'
<1>1. /\ dir' = dir /\ at' = at /\ pc = "idle" /\ pc' = "wave"
      /\ corpus' = Resolve(LoadCorpus(dir), r.explicit, r.tags, r.query)
      /\ cards' = SeedScorecards(corpus', conf.detection)
  BY DEF StartTask
<1>2. OneEach(corpus')
  <2>1. dir \in Directories
    BY DEF TaskInv
  <2>2. PICK l \in Nat : DOMAIN r.explicit = 1..l
    BY RequestsAssumption
  <2>3. PICK m \in Nat : DOMAIN LoadCorpus(dir) = 1..m /\ OneEach(LoadCorpus(dir))
    BY <2>1, LoadedOnce
  <2>. QED  BY <1>1, <2>2, <2>3, ResolvedOnce
<1>3. CardsInv'
  <2>1. PICK docs : docs = corpus'
    OBVIOUS
  <2>2. PICK on : on = conf.detection
    OBVIOUS
  <2>3. \A k \in DOMAIN cards' : IsCard(cards'[k]) /\ Confirmed(docs, k[1], k[2])
    BY <1>1, <1>2, <2>1, <2>2, SeedConfirms
  <2>. QED  BY <2>1, <2>3 DEF CardsInv
<1>. QED  BY <1>1, <1>2, <1>3 DEF TaskInv, SignalInv, RepairInv, Alone

\* A document is found by its id.
LEMMA FoundById ==
  ASSUME NEW docs, \A i, k \in DOMAIN docs : docs[i].id = docs[k].id => docs[i] = docs[k],
         NEW n \in DOMAIN docs
  PROVE  DocOf(docs, docs[n].id) = docs[n]
<1>1. docs[n] \in ToSet(docs)
  BY DEF ToSet
<1>2. PICK x : x = DocOf(docs, docs[n].id)
  OBVIOUS
<1>3. x \in ToSet(docs) /\ x.id = docs[n].id
  BY <1>1, <1>2 DEF DocOf
<1>4. PICK m \in DOMAIN docs : x = docs[m]
  BY <1>3 DEF ToSet
<1>. QED  BY <1>2, <1>3, <1>4

\* The engine's call moves on.
LEMMA EngineMoves ==
  ASSUME SInv, TaskInv, UNCHANGED <<dir, conf, taskVars, inner>>, NEW p, NEW j,
         at' = [at EXCEPT ![Engine] = p], job' = [job EXCEPT ![Engine] = j],
         pc = "repairing" =>
             /\ p \in {"generate", "load", "create", "done"}
             /\ j.id = job[Engine].id /\ j.idx = job[Engine].idx
             /\ DOMAIN override'[Private] \subseteq {j.id}
             /\ \A n \in DOMAIN corpus :
                   corpus[n].id = j.id => RepairOf(corpus[n], override'[Private], p, j)
  PROVE  TaskInv'
<1>1. EngineInv /\ Engine \in AllCallers
  BY Names DEF SInv
<1>2. at'[Engine] = p /\ job'[Engine] = j /\ \A a \in Callers : at'[a] = at[a]
  BY <1>1, Moved, Names
<1>3. UNCHANGED <<dir, conf, pc, corpus, cards, signal, inner>>
  BY DEF taskVars
<1>4. CardsInv' /\ SignalInv' /\ Alone' /\ dir' \in Directories /\ OneEach(corpus)'
  BY <1>2, <1>3 DEF TaskInv, CardsInv, SignalInv, Alone
<1>5. RepairInv'
  BY <1>2, <1>3 DEF TaskInv, RepairInv
<1>. QED  BY <1>4, <1>5 DEF TaskInv

\* The engine's call got a spec.
LEMMA EngineGot ==
  ASSUME EngineInv, NEW spec, GotSpec(Engine, spec)
  PROVE  \E p, j :
           /\ at' = [at EXCEPT ![Engine] = p] /\ job' = [job EXCEPT ![Engine] = j]
           /\ p \in {"create", "done"} /\ j.id = job[Engine].id /\ j.idx = job[Engine].idx
           /\ ~job[Engine].retry =>
                \/ p = "done" /\ j.out = "failed"
                \/ /\ p = "create" /\ j.idx \in DOMAIN spec.checks
                   /\ j.spec = {RewriteOf(j, spec)} /\ j.text = job[Engine].text
                   /\ j.expected = job[Engine].expected /\ ~j.retry
<1>. DEFINE old == job[Engine]
<1>0. DOMAIN old = JobFields
  BY DEF EngineInv
<1>1. CASE /\ ~old.retry /\ old.idx \in DOMAIN spec.checks
           /\ at' = [at EXCEPT ![Engine] = "create"]
           /\ job' = [job EXCEPT ![Engine].spec = {RewriteOf(old, spec)}]
  <2>. DEFINE j == [old EXCEPT !.spec = {RewriteOf(old, spec)}]
  <2>1. job' = [job EXCEPT ![Engine] = j]
    BY <1>1
  <2>2. /\ j.spec = {RewriteOf(old, spec)} /\ j.id = old.id /\ j.expected = old.expected
        /\ j.retry = old.retry /\ j.text = old.text /\ j.idx = old.idx
    BY <1>0 DEF JobFields
  <2>. HIDE DEF j
  <2>3. RewriteOf(j, spec) = RewriteOf(old, spec)
    BY <2>2 DEF RewriteOf
  <2>. QED  BY <1>1, <2>1, <2>2, <2>3
<1>2. ASSUME NEW i, NEW out, Finish(Engine, i, out), DOMAIN i = JobFields,
             i.id = old.id, i.idx = old.idx
      PROVE  \E j : /\ at' = [at EXCEPT ![Engine] = "done"] /\ job' = [job EXCEPT ![Engine] = j]
                    /\ j.id = old.id /\ j.idx = old.idx /\ j.out = out
  <2>. DEFINE j == [i EXCEPT !.out = out]
  <2>1. j.id = old.id /\ j.idx = old.idx /\ j.out = out
    BY <1>2 DEF JobFields
  <2>. QED  BY <1>2, <2>1 DEF Finish
<1>3. CASE ~old.retry /\ Finish(Engine, old, "failed")
  BY <1>0, <1>2, <1>3
<1>4. CASE old.retry /\ Finish(Engine, [old EXCEPT !.version = spec.version], "repaired")
  <2>1. PICK i : i = [old EXCEPT !.version = spec.version]
    OBVIOUS
  <2>2. DOMAIN i = JobFields /\ i.id = old.id /\ i.idx = old.idx
    BY <1>0, <2>1 DEF JobFields
  <2>3. Finish(Engine, i, "repaired")
    BY <1>4, <2>1
  <2>4. PICK j : /\ at' = [at EXCEPT ![Engine] = "done"] /\ job' = [job EXCEPT ![Engine] = j]
                 /\ j.id = old.id /\ j.idx = old.idx
    BY <1>2, <2>2, <2>3
  <2>. QED  BY <1>4, <2>4
<1>5. CASE /\ old.retry
           /\ at' = [at EXCEPT ![Engine] = "create"]
           /\ job' = [job EXCEPT ![Engine].expected = spec.version]
  <2>. DEFINE j == [old EXCEPT !.expected = spec.version]
  <2>1. job' = [job EXCEPT ![Engine] = j]
    BY <1>5
  <2>2. j.id = old.id /\ j.idx = old.idx
    BY <1>0 DEF JobFields
  <2>. HIDE DEF j
  <2>. QED  BY <1>5, <2>1, <2>2
<1>. QED  BY <1>1, <1>3, <1>4, <1>5 DEF GotSpec

\* The engine's advisor on its private source.
LEMMA EngineAdvises ==
  ASSUME SInv, TaskInv, Advisor(Engine)
  PROVE  TaskInv'
<1>0. EngineInv /\ DOMAIN override = Sources /\ Private \in Sources /\ Private \notin Nodes
  BY NamesAssumption DEF SInv, StoreInv, Sources
<1>1. UNCHANGED <<dir, conf, taskVars, inner>>
  BY DEF Advisor, AdvisorOwn, GenerateCandidates, LoadLatest, ReadPointer, ReadRecord, ReadFails, WarmCache,
         CreateNextVersion, VersionConflict, PutVersion, PutLatest, PutFails, storeVars
<1>2. CASE pc # "repairing"
  <2>1. PICK p : at' = [at EXCEPT ![Engine] = p]
    BY DEF Advisor, AdvisorOwn, GenerateCandidates, LoadLatest, ReadPointer, ReadRecord, ReadFails, WarmCache,
           CreateNextVersion, VersionConflict, PutVersion, PutLatest, PutFails, Finish, GotSpec
  <2>2. \A a \in Callers : at'[a] = at[a]
    BY <1>0, <2>1, NamesAssumption DEF EngineInv
  <2>3. UNCHANGED <<dir, conf, pc, corpus, cards>>
    BY <1>1 DEF taskVars
  <2>4. /\ CardsInv' /\ Alone' /\ dir' \in Directories /\ OneEach(corpus)'
        /\ (pc = "signalled" => SignalInv') /\ RepairInv'
    BY <1>1, <1>2, <2>2, <2>3 DEF TaskInv, CardsInv, Alone, SignalInv, RepairInv, taskVars
  <2>5. SignalInv'
    BY <1>2, <2>3, <2>4 DEF SignalInv
  <2>. QED  BY <2>4, <2>5 DEF TaskInv
<1>. DEFINE over == override[Private]   old == job[Engine]
<1>3. ASSUME pc = "repairing"
      PROVE  /\ at[Engine] \in {"generate", "load", "create"} /\ old.src = Private
             /\ DOMAIN over \subseteq {old.id}
             /\ \A n \in DOMAIN corpus :
                   corpus[n].id = old.id =>
                       /\ RepairOf(corpus[n], over, at[Engine], old)
                       /\ DocOf(inner[Private], old.id) = MinimalSpec(corpus[n])
  <2>1. /\ inner[Private] = [i \in DOMAIN corpus |-> MinimalSpec(corpus[i])]
        /\ at[Engine] \in {"generate", "load", "create", "done"} /\ DOMAIN over \subseteq {old.id}
        /\ \A n \in DOMAIN corpus :
              corpus[n].id = old.id => RepairOf(corpus[n], over, at[Engine], old)
    BY <1>3 DEF TaskInv, RepairInv
  <2>2. at[Engine] # "done"
    BY DEF Advisor, AdvisorOwn, GenerateCandidates, LoadLatest, ReadPointer, ReadRecord, ReadFails, WarmCache,
           CreateNextVersion, VersionConflict, PutVersion, PutLatest, PutFails
  <2>3. old.src = Private
    BY <1>0, <2>1, <2>2 DEF EngineInv, Active
  <2>4. ASSUME NEW n \in DOMAIN corpus, corpus[n].id = old.id
        PROVE  DocOf(inner[Private], old.id) = MinimalSpec(corpus[n])
    <3>1. PICK docs : docs = inner[Private]
      OBVIOUS
    <3>2. docs = [i \in DOMAIN corpus |-> MinimalSpec(corpus[i])]
      BY <2>1, <3>1
    <3>3. DOMAIN docs = DOMAIN corpus /\ \A i \in DOMAIN docs : docs[i].id = corpus[i].id
      BY <3>2 DEF MinimalSpec
    <3>4. \A i, k \in DOMAIN docs : docs[i].id = docs[k].id => docs[i] = docs[k]
      BY <3>2, <3>3 DEF TaskInv, OneEach
    <3>5. DocOf(docs, docs[n].id) = docs[n]
      BY <3>3, <3>4, FoundById
    <3>. QED  BY <2>4, <3>1, <3>2, <3>3, <3>5
  <2>. QED  BY <2>1, <2>2, <2>3, <2>4
<1>. HIDE DEF over, old
<1>4. CASE pc = "repairing" /\ GenerateCandidates(Engine)
  <2>1. at[Engine] = "generate" /\ override' = override
    BY <1>4 DEF GenerateCandidates, storeVars
  <2>2. PICK accepted \in Proposals :
           IF accepted = {} THEN Finish(Engine, old, "failed")
           ELSE /\ job' = [job EXCEPT ![Engine].text = accepted]
                /\ at' = [at EXCEPT ![Engine] = "load"]
    BY <1>4 DEF GenerateCandidates, old
  <2>0. DOMAIN old = JobFields /\ old = job[Engine] /\ over = override[Private]
    BY <1>0 DEF EngineInv, old, over
  <2>3. CASE accepted = {}
    <3>1. PICK j : j = [old EXCEPT !.out = "failed"]
      OBVIOUS
    <3>2. j.id = old.id /\ j.idx = old.idx /\ j.out = "failed"
      BY <2>0, <3>1 DEF JobFields
    <3>3. at' = [at EXCEPT ![Engine] = "done"] /\ job' = [job EXCEPT ![Engine] = j]
      BY <2>2, <2>3, <3>1 DEF Finish
    <3>4. \A doc : RepairOf(doc, override'[Private], "done", j)
      BY <3>2 DEF RepairOf
    <3>. QED  BY <1>1, <1>3, <1>4, <2>0, <2>1, <3>2, <3>3, <3>4, EngineMoves
  <2>4. CASE accepted # {}
    <3>1. PICK j : j = [old EXCEPT !.text = accepted]
      OBVIOUS
    <3>2. /\ j.id = old.id /\ j.idx = old.idx /\ j.text = accepted
          /\ j.expected = old.expected /\ j.retry = old.retry
      BY <2>0, <3>1 DEF JobFields
    <3>3. at' = [at EXCEPT ![Engine] = "load"] /\ job' = [job EXCEPT ![Engine] = j]
      BY <2>0, <2>2, <2>4, <3>1
    <3>4. \E t \in Rewrites : j.text = {t}
      BY <2>4, <3>2, OneProposal
    <3>5. \A doc : RepairOf(doc, over, "generate", old) => RepairOf(doc, over, "load", j)
      BY <3>2, <3>4 DEF RepairOf
    <3>. QED  BY <1>1, <1>3, <1>4, <2>0, <2>1, <3>2, <3>3, <3>5, EngineMoves
  <2>. QED  BY <2>3, <2>4
<1>5. CASE pc = "repairing" /\ LoadLatest(Engine)
  <2>0. old = job[Engine] /\ over = override[Private] /\ override' = override
    BY <1>5 DEF LoadLatest, old, over, storeVars
  <2>1. at[Engine] = "load" /\ old.src = Private
    BY <1>3, <1>5 DEF LoadLatest
  <2>2. PICK spec : /\ GotSpec(Engine, spec)
                    /\ old.id \notin DOMAIN over => spec = DocOf(inner[Private], old.id)
    BY <1>0, <1>5, <2>0, <2>1 DEF LoadLatest
  <2>3. PICK p, j :
           /\ at' = [at EXCEPT ![Engine] = p] /\ job' = [job EXCEPT ![Engine] = j]
           /\ p \in {"create", "done"} /\ j.id = old.id /\ j.idx = old.idx
           /\ ~old.retry =>
                \/ p = "done" /\ j.out = "failed"
                \/ /\ p = "create" /\ j.idx \in DOMAIN spec.checks
                   /\ j.spec = {RewriteOf(j, spec)} /\ j.text = old.text
                   /\ j.expected = old.expected /\ ~j.retry
    BY <1>0, <2>0, <2>2, EngineGot
  <2>4. ASSUME NEW n \in DOMAIN corpus, corpus[n].id = j.id
        PROVE  RepairOf(corpus[n], over, p, j)
    <3>1. RepairOf(corpus[n], over, "load", old) /\ DocOf(inner[Private], old.id) = MinimalSpec(corpus[n])
      BY <1>3, <1>5, <2>1, <2>3, <2>4
    <3>2. /\ ~old.retry /\ DOMAIN over = {} /\ old.expected = corpus[n].version
          /\ \E t \in Rewrites : old.text = {t}
      BY <3>1 DEF RepairOf
    <3>3. spec = MinimalSpec(corpus[n])
      BY <2>2, <3>1, <3>2
    <3>4. spec.checks = corpus[n].checks
      BY <3>3 DEF MinimalSpec
    <3>. QED  BY <2>3, <3>2, <3>3, <3>4 DEF RepairOf
  <2>. QED  BY <1>1, <1>3, <1>5, <2>0, <2>3, <2>4, EngineMoves
<1>6. CASE pc = "repairing" /\ CreateNextVersion(Engine)
  <2>0. old = job[Engine] /\ over = override[Private] /\ DOMAIN old = JobFields
    BY <1>0 DEF EngineInv, old, over
  <2>1. at[Engine] = "create" /\ old.src = Private
    BY <1>3, <1>6 DEF CreateNextVersion
  <2>2. PICK spec \in old.spec :
          /\ override' = [override EXCEPT ![Private] =
                 [i \in DOMAIN over \cup {old.id} |->
                     IF i = old.id THEN [spec EXCEPT !.version = old.expected + 1] ELSE over[i]]]
          /\ Finish(Engine, [old EXCEPT !.version = old.expected + 1], "repaired")
    BY <1>0, <1>6, <2>0, <2>1 DEF CreateNextVersion
  <2>3. PICK new : new = [spec EXCEPT !.version = old.expected + 1]
    OBVIOUS
  <2>4. override'[Private] = [i \in DOMAIN over \cup {old.id} |->
                                 IF i = old.id THEN new ELSE over[i]]
    BY <1>0, <2>2, <2>3
  <2>5. DOMAIN override'[Private] = {old.id} /\ override'[Private][old.id] = new
    BY <1>3, <1>6, <2>4
  <2>6. PICK j : j = [[old EXCEPT !.version = old.expected + 1] EXCEPT !.out = "repaired"]
    OBVIOUS
  <2>7. at' = [at EXCEPT ![Engine] = "done"] /\ job' = [job EXCEPT ![Engine] = j]
    BY <2>2, <2>6 DEF Finish
  <2>8. j.id = old.id /\ j.idx = old.idx
    BY <2>0, <2>6 DEF JobFields
  <2>9. ASSUME NEW n \in DOMAIN corpus, corpus[n].id = j.id
        PROVE  RepairOf(corpus[n], override'[Private], "done", j)
    <3>1. RepairOf(corpus[n], over, "create", old)
      BY <1>3, <1>6, <2>1, <2>8, <2>9
    <3>2. PICK t \in Rewrites : old.text = {t}
      BY <3>1 DEF RepairOf
    <3>3. /\ old.expected = corpus[n].version /\ old.idx \in DOMAIN corpus[n].checks
          /\ spec = RewriteOf(old, MinimalSpec(corpus[n]))
      BY <2>2, <3>1 DEF RepairOf
    <3>4. spec = [MinimalSpec(corpus[n]) EXCEPT !.checks[old.idx] = t]
      BY <3>2, <3>3 DEF RewriteOf
    <3>5. Repaired(new, corpus[n], old.idx)
      BY <2>3, <3>2, <3>3, <3>4 DEF Repaired
    <3>. QED  BY <2>5, <2>8, <3>3, <3>5 DEF RepairOf
  <2>. QED  BY <1>1, <1>6, <2>0, <2>5, <2>7, <2>8, <2>9, EngineMoves
<1>7. CASE pc = "repairing" /\ VersionConflict(Engine)
  <2>0. /\ old = job[Engine] /\ over = override[Private] /\ DOMAIN old = JobFields
        /\ override' = override /\ at[Engine] = "create" /\ old.src = Private
    BY <1>0, <1>3, <1>7 DEF EngineInv, old, over, VersionConflict, storeVars
  <2>1. ~Compared(Private, old.id, old.expected)
    BY <1>7, <2>0 DEF VersionConflict
  <2>2. \A n \in DOMAIN corpus : corpus[n].id # old.id
    <3>. SUFFICES ASSUME NEW n \in DOMAIN corpus, corpus[n].id = old.id PROVE FALSE
      OBVIOUS
    <3>1. /\ RepairOf(corpus[n], over, "create", old)
          /\ DocOf(inner[Private], old.id) = MinimalSpec(corpus[n])
      BY <1>3, <1>7, <2>0
    <3>2. old.expected = corpus[n].version /\ DOMAIN over = {}
      BY <3>1 DEF RepairOf
    <3>3. CurrentVersion(Private, old.id) = corpus[n].version
      BY <2>0, <3>1, <3>2 DEF CurrentVersion, MinimalSpec
    <3>. QED  BY <2>1, <3>2, <3>3 DEF Compared
  <2>3. PICK p, j : /\ at' = [at EXCEPT ![Engine] = p] /\ job' = [job EXCEPT ![Engine] = j]
                    /\ p \in {"load", "done"} /\ j.id = old.id /\ j.idx = old.idx
    <3>1. \/ Finish(Engine, old, "failed")
          \/ /\ at' = [at EXCEPT ![Engine] = "load"]
             /\ job' = [job EXCEPT ![Engine].retry = TRUE]
      BY <1>7, <2>0 DEF VersionConflict
    <3>2. /\ [old EXCEPT !.out = "failed"].id = old.id /\ [old EXCEPT !.out = "failed"].idx = old.idx
          /\ [old EXCEPT !.retry = TRUE].id = old.id /\ [old EXCEPT !.retry = TRUE].idx = old.idx
      BY <2>0 DEF JobFields
    <3>3. \/ /\ at' = [at EXCEPT ![Engine] = "done"]
             /\ job' = [job EXCEPT ![Engine] = [old EXCEPT !.out = "failed"]]
          \/ /\ at' = [at EXCEPT ![Engine] = "load"]
             /\ job' = [job EXCEPT ![Engine] = [old EXCEPT !.retry = TRUE]]
      BY <2>0, <3>1 DEF Finish
    <3>. QED  BY <3>2, <3>3
  <2>. QED  BY <1>1, <1>3, <1>7, <2>0, <2>2, <2>3, EngineMoves
<1>8. ASSUME pc = "repairing", ~GenerateCandidates(Engine), ~LoadLatest(Engine),
             ~CreateNextVersion(Engine), ~VersionConflict(Engine)
      PROVE  FALSE
  <2>1. at[Engine] \in {"pointer", "record", "warm", "put_version", "put_latest"}
    BY <1>8 DEF Advisor, AdvisorOwn, ReadPointer, ReadRecord, ReadFails, WarmCache, PutVersion, PutLatest, PutFails
  <2>. QED  BY <1>3, <1>8, <2>1
<1>. QED  BY <1>2, <1>4, <1>5, <1>6, <1>7, <1>8

\* The engine starts a repair.
LEMMA RepairStarts ==
  ASSUME SInv, TaskInv, StartEngineRepair
  PROVE  TaskInv'
<1>0. /\ EngineInv /\ DOMAIN inner = Sources /\ DOMAIN override = Sources /\ Private \in Sources
      /\ OneEach(corpus)
  BY DEF SInv, StoreInv, Sources, TaskInv
<1>1. /\ UNCHANGED <<dir, conf, corpus, cards, signal>> /\ pc = "signalled" /\ pc' = "repairing"
      /\ at' = [at EXCEPT ![Engine] = "generate"]
      /\ inner' = [inner EXCEPT ![Private] = [i \in DOMAIN corpus |-> MinimalSpec(corpus[i])]]
      /\ override' = [override EXCEPT ![Private] = Idle]
  BY DEF StartEngineRepair
<1>2. PICK sig \in signal :
        job' = [job EXCEPT ![Engine] =
                   [NoJob EXCEPT !.src = Private, !.id = sig.id, !.idx = sig.idx,
                                 !.expected = DocOf(corpus, sig.id).version]]
  BY DEF StartEngineRepair
<1>3. PICK j : j = [NoJob EXCEPT !.src = Private, !.id = sig.id, !.idx = sig.idx,
                                 !.expected = DocOf(corpus, sig.id).version]
  OBVIOUS
<1>4. /\ j.id = sig.id /\ j.idx = sig.idx /\ j.expected = DocOf(corpus, sig.id).version
      /\ j.retry = FALSE
  BY <1>3, NoJobShape DEF JobFields
<1>5. at'[Engine] = "generate" /\ job'[Engine] = j /\ \A a \in Callers : at'[a] = at[a]
  BY <1>0, <1>1, <1>2, <1>3, Moved, Names
<1>6. DOMAIN override'[Private] = {} /\ inner'[Private] = [i \in DOMAIN corpus |-> MinimalSpec(corpus[i])]
  BY <1>0, <1>1 DEF Idle
<1>7. ASSUME NEW n \in DOMAIN corpus, corpus[n].id = j.id
      PROVE  RepairOf(corpus[n], override'[Private], "generate", j)
  <2>1. DocOf(corpus, corpus[n].id) = corpus[n]
    BY <1>0, FoundById DEF OneEach
  <2>. QED  BY <1>4, <1>6, <1>7, <2>1 DEF RepairOf
<1>8. RepairInv'
  BY <1>1, <1>4, <1>5, <1>6, <1>7 DEF RepairInv
<1>9. CardsInv' /\ SignalInv' /\ Alone' /\ dir' \in Directories /\ OneEach(corpus)'
  BY <1>1, <1>5 DEF TaskInv, CardsInv, SignalInv, Alone
<1>. QED  BY <1>8, <1>9 DEF TaskInv

\* What a restart does to one document.
PreciseChange(old, new, sig) ==
    /\ new.id = old.id /\ DOMAIN new.checks = DOMAIN old.checks
    /\ \A k \in DOMAIN old.checks :
          new.checks[k] # old.checks[k] => old.id = sig.id /\ k = sig.idx
    /\ old.id = sig.id =>
          /\ new.checks[sig.idx] \in Rewrites
          /\ new.version = old.version + 1
          /\ conf.detection => ScanCheck(old, sig.idx) # {}

\* The corpus after a repair.
LEMMA RestartChanges ==
  ASSUME TaskInv, RestartTask
  PROVE  /\ DOMAIN corpus' = DOMAIN corpus
         /\ \A i \in DOMAIN corpus : corpus[i].version \in Nat => corpus'[i].version \in Nat
         /\ \A i, k \in DOMAIN corpus : corpus[i] = corpus[k] => corpus'[i] = corpus'[k]
         /\ \E sig \in signal : \A i \in DOMAIN corpus : PreciseChange(corpus[i], corpus'[i], sig)
<1>1. /\ pc = "repairing" /\ at[Engine] = "done" /\ job[Engine].out = "repaired"
      /\ corpus' = LET specs == LoadOverridden(Private)
                   IN  [i \in DOMAIN specs |-> SpecDoc(specs[i])]
  BY DEF RestartTask
<1>2. PICK over, j : over = override[Private] /\ j = job[Engine]
  OBVIOUS
<1>3. /\ inner[Private] = [i \in DOMAIN corpus |-> MinimalSpec(corpus[i])]
      /\ DOMAIN over \subseteq {j.id}
      /\ \E sig \in signal : j.id = sig.id /\ j.idx = sig.idx
      /\ \A n \in DOMAIN corpus : corpus[n].id = j.id => RepairOf(corpus[n], over, "done", j)
  BY <1>1, <1>2 DEF TaskInv, RepairInv
<1>4. PICK sig \in signal : j.id = sig.id /\ j.idx = sig.idx
  BY <1>3
<1>5. PICK specs : specs = LoadOverridden(Private)
  OBVIOUS
<1>6. specs = [i \in DOMAIN corpus |->
                  IF corpus[i].id \in DOMAIN over THEN over[corpus[i].id]
                  ELSE MinimalSpec(corpus[i])]
  BY <1>2, <1>3, <1>5 DEF LoadOverridden, MinimalSpec
<1>7. corpus' = [i \in DOMAIN corpus |-> SpecDoc(specs[i])]
  BY <1>1, <1>5, <1>6
<1>8. conf.detection => Confirmed(corpus, sig.id, sig.idx)
  BY <1>1 DEF TaskInv, SignalInv
<1>9. ASSUME NEW i \in DOMAIN corpus
      PROVE  /\ corpus[i].version \in Nat => corpus'[i].version \in Nat
             /\ PreciseChange(corpus[i], corpus'[i], sig)
  <2>1. PICK old, new : old = corpus[i] /\ new = corpus'[i]
    OBVIOUS
  <2>2. new = SpecDoc(specs[i])
    BY <1>7, <2>1
  <2>3. new.id = specs[i].id /\ new.checks = specs[i].checks /\ new.version = specs[i].version
    BY <2>2 DEF SpecDoc
  <2>4. CASE old.id = j.id
    <3>1. RepairOf(old, over, "done", j)
      BY <1>3, <2>1, <2>4
    <3>2. j.id \in DOMAIN over /\ j.idx \in DOMAIN old.checks /\ Repaired(over[j.id], old, j.idx)
      BY <1>1, <1>2, <3>1 DEF RepairOf
    <3>3. specs[i] = over[j.id]
      BY <1>6, <2>1, <2>4, <3>2
    <3>4. PICK t \in Rewrites :
             specs[i] = [[MinimalSpec(old) EXCEPT !.checks[j.idx] = t]
                            EXCEPT !.version = old.version + 1]
      BY <3>2, <3>3 DEF Repaired
    <3>5. /\ specs[i].id = old.id /\ specs[i].version = old.version + 1
          /\ specs[i].checks = [old.checks EXCEPT ![j.idx] = t]
      BY <3>4 DEF MinimalSpec
    <3>6. /\ DOMAIN new.checks = DOMAIN old.checks /\ new.checks[j.idx] = t
          /\ \A k \in DOMAIN old.checks : k # j.idx => new.checks[k] = old.checks[k]
      BY <2>3, <3>2, <3>5
    <3>7. conf.detection => ScanCheck(old, sig.idx) # {}
      BY <1>4, <1>8, <2>1, <2>4 DEF Confirmed
    <3>8. PreciseChange(old, new, sig)
      BY <1>4, <2>3, <2>4, <3>5, <3>6, <3>7 DEF PreciseChange
    <3>. QED  BY <2>1, <2>3, <3>5, <3>8
  <2>5. CASE old.id # j.id
    <3>1. specs[i] = MinimalSpec(old)
      BY <1>3, <1>6, <2>1, <2>5
    <3>2. new.id = old.id /\ new.checks = old.checks /\ new.version = old.version
      BY <2>3, <3>1 DEF MinimalSpec
    <3>3. PreciseChange(old, new, sig)
      BY <1>4, <2>5, <3>2 DEF PreciseChange
    <3>. QED  BY <2>1, <3>2, <3>3
  <2>. QED  BY <2>4, <2>5
<1>10. ASSUME NEW i \in DOMAIN corpus, NEW k \in DOMAIN corpus, corpus[i] = corpus[k]
       PROVE  corpus'[i] = corpus'[k]
  <2>1. specs[i] = specs[k]
    BY <1>6, <1>10
  <2>. QED  BY <1>7, <2>1
<1>. QED  BY <1>7, <1>9, <1>10

\* A repair ends, or does not begin.
LEMMA RepairEnded ==
  ASSUME SInv, TaskInv, RestartTask \/ RepairFailed \/ NoRepairAdapter
  PROVE  TaskInv'
<1>0. EngineInv
  BY DEF SInv
<1>1. CASE RepairFailed \/ NoRepairAdapter
  <2>1. UNCHANGED <<dir, corpus, cards>> /\ pc \in {"repairing", "signalled"} /\ pc' = "exhausted"
    BY <1>1 DEF RepairFailed, NoRepairAdapter
  <2>2. \A a \in Callers : at'[a] = at[a]
    BY <1>0, <1>1, Names DEF RepairFailed, NoRepairAdapter, EngineInv
  <2>3. CardsInv'
    BY <2>1 DEF TaskInv, CardsInv
  <2>. QED  BY <2>1, <2>2, <2>3, GoesOn
<1>2. CASE RestartTask
  <2>1. /\ dir' = dir /\ pc = "repairing" /\ pc' = "wave"
        /\ at' = [at EXCEPT ![Engine] = "idle"]
        /\ cards' = SeedScorecards(corpus', conf.detection)
    BY <1>2 DEF RestartTask
  <2>2. \A a \in Callers : at'[a] = at[a]
    BY <1>0, <2>1, Names DEF EngineInv
  <2>3. /\ OneEach(corpus) /\ DOMAIN corpus' = DOMAIN corpus
        /\ \A i \in DOMAIN corpus : corpus[i].version \in Nat => corpus'[i].version \in Nat
        /\ \A i \in DOMAIN corpus : corpus'[i].id = corpus[i].id
        /\ \A i, k \in DOMAIN corpus : corpus[i] = corpus[k] => corpus'[i] = corpus'[k]
    BY <1>2, RestartChanges DEF TaskInv, PreciseChange
  <2>4. OneEach(corpus')
    BY <2>3 DEF OneEach
  <2>5. CardsInv'
    <3>1. PICK docs, on : docs = corpus' /\ on = conf.detection
      OBVIOUS
    <3>2. \A k \in DOMAIN cards' : IsCard(cards'[k]) /\ Confirmed(docs, k[1], k[2])
      BY <2>1, <2>4, <3>1, SeedConfirms
    <3>. QED  BY <3>1, <3>2 DEF CardsInv
  <2>. QED  BY <2>1, <2>2, <2>4, <2>5 DEF TaskInv, SignalInv, RepairInv, Alone
<1>. QED  BY <1>1, <1>2

\* The callers of shared sources.
LEMMA CallersApart ==
  ASSUME SInv, TaskInv,
         \/ \E a \in Callers : Advisor(a)
         \/ \E a \in Callers, s \in Sources \ {Private} : CallAdvisor(a, s)
         \/ \E n \in Nodes : RestartNode(n)
  PROVE  TaskInv'
<1>1. UNCHANGED <<dir, conf, pc, corpus, cards>>
  BY DEF CallAdvisor, RestartNode, taskVars, Advisor, AdvisorOwn, GenerateCandidates, LoadLatest, ReadPointer,
         ReadRecord, ReadFails, WarmCache, CreateNextVersion, VersionConflict, PutVersion, PutLatest, PutFails
<1>2. pc = "off"
  <2>1. ASSUME NEW a \in Callers, Advisor(a) PROVE at[a] # "idle"
    BY <2>1 DEF Advisor, AdvisorOwn, GenerateCandidates, LoadLatest, ReadPointer, ReadRecord, ReadFails, WarmCache,
                CreateNextVersion, VersionConflict, PutVersion, PutLatest, PutFails
  <2>. QED  BY <2>1 DEF TaskInv, Alone, CallAdvisor, RestartNode
<1>. QED  BY <1>1, <1>2 DEF TaskInv, CardsInv, SignalInv, RepairInv, Alone

\* Every step keeps the invariant, and it holds at the start.
LEMMA StepTaskInv == ASSUME SInv, TaskInv, [Next]_vars PROVE TaskInv'
<1>1. CASE UNCHANGED vars
  <2>1. /\ UNCHANGED <<dir, conf, pc, corpus, cards, signal>> /\ inner' = inner
        /\ override' = override /\ at' = at /\ job' = job
    BY <1>1 DEF vars, taskVars, storeVars
  <2>. QED  BY <2>1, TaskSame
<1>2. ASSUME NEW r \in Requests, StartTask(r) PROVE TaskInv'
  BY <1>2, StartStep
<1>3. CASE Handler
  BY <1>3, WaveSteps, RepairStarts, RepairEnded DEF Handler, HandlerOwn
<1>4. ASSUME NEW a \in AllCallers, Advisor(a) PROVE TaskInv'
  <2>1. CASE a = Engine
    BY <1>4, <2>1, EngineAdvises
  <2>2. CASE a # Engine
    BY <1>4, <2>2, CallersApart DEF AllCallers
  <2>. QED  BY <2>1, <2>2
<1>5. CASE \/ \E a \in Callers, s \in Sources \ {Private} : CallAdvisor(a, s)
           \/ \E n \in Nodes : RestartNode(n)
  BY <1>5, CallersApart
<1>. QED  BY <1>1, <1>2, <1>3, <1>4, <1>5 DEF Next

LEMMA InitTaskInv == ASSUME Init PROVE TaskInv
<1>1. /\ dir \in Directories /\ corpus = <<>> /\ cards = Idle /\ pc \in {"idle", "off"}
      /\ at = [a \in AllCallers |-> "idle"]
  BY DEF Init
<1>2. OneEach(corpus)
  BY <1>1 DEF OneEach
<1>. QED  BY <1>1, <1>2 DEF TaskInv, CardsInv, Idle, SignalInv, RepairInv, Alone, AllCallers

\* A restart after a repair rewrites the reported check and nothing else of
\* the checks, in the constraint's next version, whatever the directory and
\* however often the task was restarted before.
THEOREM RestartPrecise == Spec => RestartIsPrecise
<1>1. Init => SInv /\ TaskInv
  BY InitSInv, InitTaskInv
<1>2. SInv /\ TaskInv /\ [Next]_vars => (SInv /\ TaskInv)'
  BY StepSInv, StepTaskInv
<1>3. ASSUME TaskInv, [Next]_vars, restarts' # restarts
      PROVE  \E sig \in signal : \A i \in DOMAIN corpus :
                 LET old == corpus[i]   new == corpus'[i]
                 IN  /\ new.id = old.id /\ DOMAIN new.checks = DOMAIN old.checks
                     /\ \A k \in DOMAIN old.checks :
                            new.checks[k] # old.checks[k] => old.id = sig.id /\ k = sig.idx
                     /\ old.id = sig.id =>
                            /\ new.checks[sig.idx] \in Rewrites
                            /\ new.version = old.version + 1
                            /\ conf.detection => ScanCheck(old, sig.idx) # {}
  <2>1. RestartTask
    BY <1>3 DEF Next, Handler, HandlerOwn, vars, taskVars, StartTask, RunWave, NoInstability, BlameFirstCheck,
         AccumulateAmbiguity, FireCard, NoRepairAdapter, StartEngineRepair, RepairFailed, Advisor, AdvisorOwn,
         CallAdvisor, RestartNode, GenerateCandidates, LoadLatest, ReadPointer, ReadRecord,
         ReadFails, WarmCache, CreateNextVersion, VersionConflict, PutVersion, PutLatest, PutFails
  <2>2. \E sig \in signal : \A i \in DOMAIN corpus : PreciseChange(corpus[i], corpus'[i], sig)
    BY <1>3, <2>1, RestartChanges
  <2>. QED  BY <2>2 DEF PreciseChange
<1>. QED  BY <1>1, <1>2, <1>3, PTL DEF Spec, RestartIsPrecise
=============================================================================
