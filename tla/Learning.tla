------------------------------ MODULE Learning ------------------------------
(***************************************************************************)
(* What the control plane learns from its tasks, and what of it survives a *)
(* restart: the calibration of the default tenant (measured by POST        *)
(* /calibrate and at startup, relabelled when the adapters are             *)
(* unreachable, patched by oracle results and by the correlation EMA), the *)
(* copy a second tenant is seeded with, the bandit, the oracle window, the *)
(* OPRO prompt variants, the skill nodes and the distilled memory.         *)
(*                                                                         *)
(* Calibration runs, task pipelines and the oracle accumulator are         *)
(* concurrent tokio tasks that share the tenant state through locks held   *)
(* for one assignment, and a NATS key-value store that they write          *)
(* afterwards.  A step is what runs between two awaits on shared state.    *)
(* A crash loses the memory and kills every run; a restart reloads what    *)
(* the store has.                                                          *)
(***************************************************************************)
EXTENDS Naturals, Sequences, FiniteSets, SequencesExt

CONSTANTS
    Calibrations,     \* the calibration runs
    Tasks,            \* the tasks whose results are learned from
    TenantTasks,      \* those of them of a tenant that is not the default
    AdapterCount,     \* calibration_adapter_count
    OracleWindow,     \* oracle_window_size
    PatchAt,          \* observations before the oracle patches p (10)
    BatchSize,        \* induction_batch_size
    SuppressTasks,    \* opro.suppress_n_tasks
    MaxRuns,          \* bound on the calibrations and tasks that are started
    MaxFaults         \* bound on crashes and failed store operations

ASSUME TenantTasksAssumption == TenantTasks \subseteq Tasks
ASSUME SizesAssumption ==
    /\ AdapterCount \in Nat \ {0} /\ OracleWindow \in Nat \ {0}
    /\ PatchAt \in Nat
    /\ BatchSize \in Nat \ {0} /\ SuppressTasks \in Nat
    /\ MaxRuns \in Nat /\ MaxFaults \in Nat

VARIABLES
    up,        \* the server process runs
    faults,    \* crashes and failed store operations so far
    cal,       \* the default tenant's calibration: {} or one record
    tenantCal, \* the other tenant's calibration
    kvCal,     \* the persisted calibration
    measured,  \* measurements written so far; the order of a body
    cpc,       \* where each calibration run is
    ccal,      \* the calibration a run holds between two awaits
    overtaken, \* history: runs whose copy the cache moved past (see Overtake)
    notify,    \* the runs a client waits for
    answers,   \* the events published for a run
    tpc,       \* where each task is
    seed,      \* the default calibration a task copied for its tenant
    pending,   \* oracle evaluations asked for
    results,   \* oracle results not yet accumulated
    acc,       \* the accumulator: "idle", "patch", "rebuild" or "bandit"
    rhoRead,   \* the rho it read, between two lock scopes
    obs,       \* the persisted oracle window
    bandit,    \* updates the default tenant's bandit has seen
    banditCopy,\* the bandit a task writes while it holds the read guard
    kvBandit,  \* the persisted bandit
    cold,      \* history: the bandit started from defaults, its load failed
    opro,      \* the persisted OPRO state
    oproCopy,  \* the OPRO state a task loaded
    variants,  \* the stored prompt variants
    skills,    \* the skill provider's nodes, by the task they come from
    kvSkills,  \* the persisted skill nodes of each tenant
    resolved,  \* resolved_task_count of each tenant
    metas,     \* task_meta_state records: bucket name -> tasks
    semantic   \* the distilled memory of a tenant: {} or the tasks it is over

calVars    == <<cal, tenantCal, kvCal, measured>>
runVars    == <<cpc, ccal, overtaken, notify, answers>>
oracleVars == <<pending, results, acc, rhoRead, obs>>
banditVars == <<bandit, banditCopy, kvBandit, cold>>
oproVars   == <<opro, oproCopy, variants>>
storeVars  == <<skills, kvSkills, resolved, metas, semantic>>
vars == <<up, faults, calVars, runVars, tpc, seed, oracleVars, banditVars,
          oproVars, storeVars>>

\* A calibration: the id it is served under, the number of the measurement
\* it holds, how often the oracle patched p, and where rho comes from: a
\* measurement, the correlation EMA or the accumulator's fallback value.
Rho == [from : {"measured", "ema", "fallback"}, of : Nat]
MeasuredRho(n) == [from |-> "measured", of |-> n]
EmaRho == [from |-> "ema", of |-> 0]
FallbackRho == [from |-> "fallback", of |-> 0]

CalibrationCompletedEvent ==
    [id : Calibrations \cup {"restored"}, body : Nat, p : Nat, rho : Rho]

\* Fewer than two adapters give no ensemble, so there is nothing to patch.
HasEnsemble == AdapterCount >= 2

\* The runs that hold a copy of the calibration that the step outdates.
Overtake == overtaken \cup {c \in Calibrations : cpc[c] = "relabel"}

MayStart ==
    Cardinality({c \in Calibrations : cpc[c] # "idle"})
      + Cardinality({t \in Tasks : tpc[t] # "idle"}) < MaxRuns

Content(set) == CHOOSE x \in set : TRUE

\* A new id: which of the unused ones does not matter.
FreshIn(unused) == IF unused = {} THEN {} ELSE {CHOOSE x \in unused : TRUE}

TenantOf(t) == IF t \in TenantTasks THEN "tenant" ELSE "default"
Tenants == {"default", "tenant"}

\* The bucket the engine writes a resolved task's meta state to, and the one
\* the distillation cycle lists: its prefix already ends with the tenant, and
\* the store appends the tenant again.
TenantBucketName(prefix, tenant) == Append(prefix, tenant)
EngineBucket(tenant) == TenantBucketName(<<"H2AI_META">>, tenant)
DistillBucket(tenant) == TenantBucketName(<<"H2AI_META", tenant>>, tenant)

\* A put changes the store or is logged as failed.
KvPut(ok, old, new) == IF ok THEN new ELSE old

\* The process has not started; an earlier one may have left a calibration
\* and a bandit in the store.
Init ==
    /\ up = FALSE /\ faults = 0
    /\ kvCal \in {{}, {[id |-> "restored", body |-> 0, p |-> 0, rho |-> MeasuredRho(0)]}}
    /\ cal = {} /\ tenantCal = {} /\ measured = 0
    /\ cpc = [c \in Calibrations |-> "idle"]
    /\ ccal = [c \in Calibrations |-> {}]
    /\ overtaken = {} /\ notify = {} /\ answers = [c \in Calibrations |-> <<>>]
    /\ tpc = [t \in Tasks |-> "idle"] /\ seed = [t \in Tasks |-> {}]
    /\ pending = {} /\ results = <<>> /\ acc = "idle" /\ obs = <<>>
    /\ rhoRead = FallbackRho
    /\ bandit = 0 /\ banditCopy = [t \in Tasks |-> 0] /\ cold = FALSE
    /\ kvBandit = IF kvCal = {} THEN 0 ELSE 1
    /\ opro = [n |-> 0, suppress |-> 0, arms |-> {}]
    /\ oproCopy = [t \in Tasks |-> opro] /\ variants = {}
    /\ skills = {} /\ kvSkills = [k \in Tenants |-> {}]
    /\ resolved = [k \in Tenants |-> 0]
    /\ metas = [b \in {EngineBucket(k) : k \in Tenants} |-> {}]
    /\ semantic = [k \in Tenants |-> {}]

-----------------------------------------------------------------------------
(* Calibration runs                                                        *)

\* start_calibration accepts the request and spawns the run; the startup run
\* has no client.
StartCalibration(c, asked) ==
    /\ up /\ MayStart /\ c \in FreshIn({x \in Calibrations : cpc[x] = "idle"})
    /\ cpc' = [cpc EXCEPT ![c] = "harness"]
    /\ notify' = IF asked THEN notify \cup {c} ELSE notify
    /\ UNCHANGED <<up, faults, calVars, ccal, overtaken, answers, tpc, seed,
                   oracleVars, banditVars, oproVars, storeVars>>

\* The harness runs two adapters, then all of them, and any adapter error
\* ends it; run_calibration_core tells network errors from the others.
HarnessResults == {"measured", "unreachable", "error"}

RunHarness(c) ==
    /\ up /\ cpc[c] = "harness"
    /\ \E result \in HarnessResults : cpc' = [cpc EXCEPT ![c] = result]
    /\ UNCHANGED <<up, faults, calVars, ccal, overtaken, notify, answers, tpc,
                   seed, oracleVars, banditVars, oproVars, storeVars>>

\* Every adapter answered: the event replaces the cached calibration.
CacheMeasurement(c) ==
    /\ up /\ cpc[c] = "measured"
    /\ measured' = measured + 1 /\ overtaken' = Overtake
    /\ cal' = {[id |-> c, body |-> measured', p |-> 0, rho |-> MeasuredRho(measured')]}
    /\ ccal' = [ccal EXCEPT ![c] = cal']
    /\ cpc' = [cpc EXCEPT ![c] = "put"]
    /\ UNCHANGED <<up, faults, tenantCal, kvCal, notify, answers, tpc, seed,
                   oracleVars, banditVars, oproVars, storeVars>>

\* The copy taken from the store instead of the cache.
CopyStoredCalibration(c) ==
    /\ up /\ cpc[c] = "unreachable" /\ kvCal # {}
    /\ ccal' = [ccal EXCEPT ![c] = kvCal]
    /\ cpc' = [cpc EXCEPT ![c] = "relabel"]
    /\ UNCHANGED <<up, faults, calVars, overtaken, notify, answers, tpc, seed,
                   oracleVars, banditVars, oproVars, storeVars>>

\* A network error with a calibration in the cache: the run takes a copy of
\* it under the read lock.
CopyCachedCalibration(c) ==
    /\ up /\ cpc[c] = "unreachable" /\ cal # {}
    /\ ccal' = [ccal EXCEPT ![c] = cal]
    /\ cpc' = [cpc EXCEPT ![c] = "relabel"]
    /\ UNCHANGED <<up, faults, calVars, overtaken, notify, answers, tpc, seed, oracleVars,
                   banditVars, oproVars, storeVars>>

\* ... and writes it back under its own id in a second lock scope.
Relabel(c) ==
    /\ up /\ cpc[c] = "relabel"
    /\ cal' = {[Content(ccal[c]) EXCEPT !.id = c]}
    /\ overtaken' = Overtake \ {c}
    /\ ccal' = [ccal EXCEPT ![c] = cal']
    /\ cpc' = [cpc EXCEPT ![c] = "put"]
    /\ UNCHANGED <<up, faults, tenantCal, kvCal, measured, notify, answers, tpc,
                   seed, oracleVars, banditVars, oproVars, storeVars>>

\* The event is persisted; a failed write is logged and nothing else.
PutCalibration(c, ok) ==
    /\ up /\ cpc[c] = "put"
    /\ ok \/ faults < MaxFaults
    /\ faults' = IF ok THEN faults ELSE faults + 1
    /\ kvCal' = KvPut(ok, kvCal, ccal[c])
    /\ ccal' = [ccal EXCEPT ![c] = {}]
    /\ cpc' = [cpc EXCEPT ![c] = IF c \in notify THEN "completed" ELSE "done"]
    /\ UNCHANGED <<up, cal, tenantCal, measured, overtaken, notify, answers, tpc,
                   seed, oracleVars, banditVars, oproVars, storeVars>>

\* Returning after the log line, as the startup run may.
CalibrationFailsSilently(c) ==
    /\ up /\ cpc[c] \in {"error"} \cup IF cal = {} THEN {"unreachable"} ELSE {}
    /\ cpc' = [cpc EXCEPT ![c] = "done"]
    /\ UNCHANGED <<up, faults, calVars, ccal, overtaken, notify, answers, tpc,
                   seed, oracleVars, banditVars, oproVars, storeVars>>

\* An error with nothing cached, or one that is not the network's.
CalibrationFails(c) ==
    /\ up /\ cpc[c] \in {"error"} \cup IF cal = {} THEN {"unreachable"} ELSE {}
    /\ cpc' = [cpc EXCEPT ![c] = IF c \in notify THEN "failed" ELSE "done"]
    /\ UNCHANGED <<up, faults, calVars, ccal, overtaken, notify, answers, tpc, seed,
                   oracleVars, banditVars, oproVars, storeVars>>

\* The client's event stream gets CalibrationCompleted or CalibrationFailed;
\* a failed publish is logged or ignored, and not tried again.
PublishAnswer(c, ok) ==
    /\ up /\ cpc[c] \in {"completed", "failed"}
    /\ ok \/ faults < MaxFaults
    /\ faults' = IF ok THEN faults ELSE faults + 1
    /\ answers' = IF ok THEN [answers EXCEPT ![c] = Append(@, cpc[c])] ELSE answers
    /\ cpc' = [cpc EXCEPT ![c] = IF ok THEN "done" ELSE "unpublished"]
    /\ UNCHANGED <<up, calVars, ccal, overtaken, notify, tpc, seed, oracleVars,
                   banditVars, oproVars, storeVars>>

-----------------------------------------------------------------------------
(* Tasks                                                                   *)

\* submit_task for the default tenant: refused until a calibration exists.
SubmitTask(t) ==
    /\ up /\ MayStart /\ t \in FreshIn({x \in Tasks \ TenantTasks : tpc[x] = "idle"})
    /\ cal # {}
    /\ tpc' = [tpc EXCEPT ![t] = "engine"]
    /\ UNCHANGED <<up, faults, calVars, runVars, seed, oracleVars, banditVars,
                   oproVars, storeVars>>

\* submit_task for another tenant first looks for a calibration of its own;
\* without one it copies the default tenant's ...
SubmitTenantTask(t) ==
    /\ up /\ MayStart /\ t \in FreshIn({x \in TenantTasks : tpc[x] = "idle"})
    /\ tenantCal # {} \/ cal # {}
    /\ seed' = [seed EXCEPT ![t] = IF tenantCal = {} THEN cal ELSE {}]
    /\ tpc' = [tpc EXCEPT ![t] = IF tenantCal = {} THEN "seed" ELSE "engine"]
    /\ UNCHANGED <<up, faults, calVars, runVars, oracleVars, banditVars,
                   oproVars, storeVars>>

\* ... and stores the copy.
SeedTenant(t) ==
    /\ up /\ tpc[t] = "seed"
    /\ tenantCal' = seed[t]
    /\ seed' = [seed EXCEPT ![t] = {}]
    /\ tpc' = [tpc EXCEPT ![t] = "engine"]
    /\ UNCHANGED <<up, faults, cal, kvCal, measured, runVars, oracleVars,
                   banditVars, oproVars, storeVars>>

\* The bandit's write lock waits for every reader, the ones that persist it
\* included.  The other tenant has a bandit of its own.
BanditUnread == \A t \in Tasks \ TenantTasks : tpc[t] # "guard"

\* A wave of the task merged or synthesised an output: the bandit of the
\* task's tenant learns its quality, whatever the gates after the merge say
\* of it (a task may merge in several waves; one stands for them).
WaveMerges(t) ==
    /\ up /\ tpc[t] = "engine"
    /\ IF t \in TenantTasks THEN UNCHANGED bandit
                            ELSE BanditUnread /\ bandit' = bandit + 1
    /\ tpc' = [tpc EXCEPT ![t] = "merged"]
    /\ UNCHANGED <<up, faults, calVars, runVars, seed, oracleVars, banditCopy,
                   kvBandit, cold, oproVars, storeVars>>

\* The engine resolved the task and wrote its meta state (a failed write
\* only drops the record; it is left out).
EngineResolves(t) ==
    /\ up /\ tpc[t] = "merged"
    /\ metas' = [metas EXCEPT ![EngineBucket(TenantOf(t))] = @ \cup {t}]
    /\ tpc' = [tpc EXCEPT ![t] = "post"]
    /\ UNCHANGED <<up, faults, calVars, runVars, seed, oracleVars, banditVars,
                   oproVars, skills, kvSkills, resolved, semantic>>

\* Skill nodes, when the run gave any, replace the stored ones of the tenant
\* (a failed write is logged) and join the nodes of the provider.
PersistSkills(t, learned, stored) ==
    /\ stored \/ (learned /\ faults < MaxFaults)
    /\ faults' = IF stored THEN faults ELSE faults + 1
    /\ kvSkills' = KvPut(learned /\ stored, kvSkills, [kvSkills EXCEPT ![TenantOf(t)] = {t}])
    /\ skills' = IF learned THEN skills \cup {t} ELSE skills

\* The engine failed: only the skill nodes of its retries are kept.
EngineFails(t, learned, stored) ==
    /\ up /\ tpc[t] \in {"engine", "merged"}
    /\ PersistSkills(t, learned, stored)
    /\ tpc' = [tpc EXCEPT ![t] = "persist"]
    /\ UNCHANGED <<up, calVars, runVars, seed, oracleVars, banditVars,
                   oproVars, resolved, metas, semantic>>

\* post_run up to mark_resolved: the correlation EMA, once it has seen enough
\* pairs, patches rho of the tenant's calibration, and the
\* oracle is asked (for the default tenant, whoever owns the task).
PostRun(t, empirical) ==
    /\ up /\ tpc[t] = "post"
    /\ LET patch(set) == {[x EXCEPT !.rho = IF empirical /\ HasEnsemble THEN EmaRho ELSE @] : x \in set} IN
       IF t \in TenantTasks
       THEN tenantCal' = patch(tenantCal) /\ UNCHANGED <<cal, overtaken>>
       ELSE /\ cal' = patch(cal)
            /\ overtaken' = IF cal' # cal THEN Overtake ELSE overtaken
            /\ UNCHANGED tenantCal
    /\ pending' = pending \cup {t}
    /\ tpc' = [tpc EXCEPT ![t] = "stores"]
    /\ UNCHANGED <<up, faults, kvCal, measured, cpc, ccal, notify, answers,
                   seed, results, acc, rhoRead, obs, banditVars, oproVars, storeVars>>

\* list_task_meta_states: a bucket that cannot be opened is an empty list.
ListMetaStates(k) ==
    IF DistillBucket(k) \in DOMAIN metas THEN metas[DistillBucket(k)] ELSE {}

\* The rest of post_run: the task's skill nodes are kept, and every
\* BatchSize-th task distils the meta states.
PostRunStores(t, learned, stored) ==
    /\ up /\ tpc[t] = "stores"
    /\ PersistSkills(t, learned, stored)
    /\ LET k == TenantOf(t) IN
       /\ resolved' = [resolved EXCEPT ![k] = @ + 1]
       /\ semantic' = IF resolved'[k] % BatchSize = 0
                      THEN [semantic EXCEPT ![k] = {ListMetaStates(k)}]
                      ELSE semantic
    /\ tpc' = [tpc EXCEPT ![t] = "persist"]
    /\ UNCHANGED <<up, calVars, runVars, seed, oracleVars, banditVars,
                   oproVars, metas>>

Resolved(t) == t \in metas[EngineBucket(TenantOf(t))]

\* The pipeline serialises the bandit under the read guard and sends it ...
PersistBandit(t) ==
    /\ up /\ tpc[t] = "persist"
    /\ banditCopy' = [banditCopy EXCEPT ![t] = bandit]
    /\ tpc' = [tpc EXCEPT ![t] = "guard"]
    /\ UNCHANGED <<up, faults, calVars, runVars, seed, oracleVars, bandit,
                   kvBandit, cold, oproVars, storeVars>>

\* ... and keeps the guard until the store has answered.
BanditPersisted(t, ok) ==
    /\ up /\ tpc[t] = "guard"
    /\ ok \/ faults < MaxFaults
    /\ faults' = IF ok THEN faults ELSE faults + 1
    /\ kvBandit' = KvPut(ok /\ t \notin TenantTasks, kvBandit, banditCopy[t])
    /\ cold' = (cold /\ ~(ok /\ t \notin TenantTasks))
    /\ banditCopy' = [banditCopy EXCEPT ![t] = 0]
    /\ tpc' = [tpc EXCEPT ![t] = IF Resolved(t) THEN "opro" ELSE "done"]
    /\ UNCHANGED <<up, calVars, runVars, seed, oracleVars, bandit, oproVars,
                   storeVars>>

-----------------------------------------------------------------------------
(* The OPRO trigger, spawned per resolved task.  It shares no state with    *)
(* the rest of the task's pipeline, so it is taken after it.               *)

\* The state is loaded and the task counted; a low quality outside the
\* suppressed range asks the adapter for a better prompt.
ShouldTriggerOpro(o, low) == low /\ o.n >= o.suppress

LoadOpro(t, low) ==
    /\ up /\ tpc[t] = "opro"
    /\ LET o == [opro EXCEPT !.n = @ + 1] IN
       /\ oproCopy' = [oproCopy EXCEPT ![t] = o]
       /\ tpc' = [tpc EXCEPT ![t] = IF ShouldTriggerOpro(o, low) THEN "llm" ELSE "oproput"]
    /\ UNCHANGED <<up, faults, calVars, runVars, seed, oracleVars, banditVars,
                   opro, variants, storeVars>>

\* The variant's write failed; the trigger must not reach the state's write.
StoreVariantUnchecked(t) ==
    /\ up /\ tpc[t] = "llm"
    /\ oproCopy' = [oproCopy EXCEPT ![t].arms = @ \cup {t},
                                    ![t].suppress = oproCopy[t].n + SuppressTasks]
    /\ tpc' = [tpc EXCEPT ![t] = "oproput"]
    /\ UNCHANGED <<up, faults, calVars, runVars, seed, oracleVars, banditVars,
                   opro, variants, storeVars>>

\* A candidate with every template variable is stored and becomes an arm; no
\* arm is ever called "seed", so none graduates to the active variant.
StoreVariant(t) ==
    /\ up /\ tpc[t] = "llm"
    /\ variants' = variants \cup {t}
    /\ oproCopy' = [oproCopy EXCEPT ![t].arms = @ \cup {t},
                                    ![t].suppress = oproCopy[t].n + SuppressTasks]
    /\ tpc' = [tpc EXCEPT ![t] = "oproput"]
    /\ UNCHANGED <<up, faults, calVars, runVars, seed, oracleVars, banditVars,
                   opro, storeVars>>

\* A candidate that lost a template variable only suppresses the next ones.
DiscardCandidate(t) ==
    /\ up /\ tpc[t] = "llm"
    /\ oproCopy' = [oproCopy EXCEPT ![t].suppress = oproCopy[t].n + SuppressTasks]
    /\ tpc' = [tpc EXCEPT ![t] = "oproput"]
    /\ UNCHANGED <<up, faults, calVars, runVars, seed, oracleVars, banditVars,
                   opro, variants, storeVars>>

\* An adapter or store error: the trigger returns it and nothing is counted.
OproFails(t) ==
    /\ up /\ tpc[t] \in {"opro", "llm", "oproput"} /\ faults < MaxFaults
    /\ faults' = faults + 1
    /\ oproCopy' = [oproCopy EXCEPT ![t] = [n |-> 0, suppress |-> 0, arms |-> {}]]
    /\ tpc' = [tpc EXCEPT ![t] = "done"]
    /\ UNCHANGED <<up, calVars, runVars, seed, oracleVars, banditVars, opro,
                   variants, storeVars>>

\* The state is written back whole, over whatever another task wrote.
PutOpro(t) ==
    /\ up /\ tpc[t] = "oproput"
    /\ opro' = oproCopy[t]
    /\ oproCopy' = [oproCopy EXCEPT ![t] = [n |-> 0, suppress |-> 0, arms |-> {}]]
    /\ tpc' = [tpc EXCEPT ![t] = "done"]
    /\ UNCHANGED <<up, faults, calVars, runVars, seed, oracleVars, banditVars,
                   variants, storeVars>>

-----------------------------------------------------------------------------
(* The oracle worker and the accumulator                                   *)

\* One evaluation; every error of the oracle is a failed verdict.
OracleWorker(t) ==
    /\ up /\ t \in pending
    /\ pending' = pending \ {t}
    /\ results' = Append(results, t)
    /\ UNCHANGED <<up, faults, calVars, runVars, tpc, seed, acc, rhoRead, obs,
                   banditVars, oproVars, storeVars>>

\* handle_result loads the window (an error counts as an empty one), appends
\* the result, drops the oldest ones and writes the window back.
EnforceFifoCap(s) ==
    IF Len(s) > OracleWindow THEN SubSeq(s, Len(s) - OracleWindow + 1, Len(s)) ELSE s

AccumulateResult(loaded, stored) ==
    /\ up /\ acc = "idle" /\ results # <<>>
    /\ (loaded /\ stored) \/ faults < MaxFaults
    /\ faults' = IF loaded /\ stored THEN faults ELSE faults + 1
    /\ LET w == EnforceFifoCap(Append(IF loaded THEN obs ELSE <<>>, Head(results))) IN
       /\ obs' = KvPut(stored, obs, w)
       /\ acc' = IF Len(w) >= PatchAt THEN "patch" ELSE "bandit"
    /\ results' = Tail(results)
    /\ UNCHANGED <<up, calVars, runVars, tpc, seed, pending, rhoRead, banditVars,
                   oproVars, storeVars>>

\* handle_result reads rho of the cached ensemble under the read lock, or
\* takes a fallback ...
ReadRho ==
    /\ up /\ acc = "patch"
    /\ rhoRead' = IF cal # {} /\ HasEnsemble THEN Content(cal).rho ELSE FallbackRho
    /\ acc' = "rebuild"
    /\ UNCHANGED <<up, faults, calVars, runVars, tpc, seed, pending, results, obs,
                   banditVars, oproVars, storeVars>>

\* ... and patch_ensemble_p_from_oracle builds, under the write lock taken
\* later, a new ensemble of the pass rate and of that rho for whatever
\* calibration is cached then.  The patched calibration is not persisted.
PatchEnsemble ==
    /\ up /\ acc = "rebuild"
    /\ cal' = IF HasEnsemble THEN {[x EXCEPT !.p = @ + 1, !.rho = rhoRead] : x \in cal}
              ELSE cal
    /\ overtaken' = IF cal' # cal THEN Overtake ELSE overtaken
    /\ rhoRead' = FallbackRho
    /\ acc' = "bandit"
    /\ UNCHANGED <<up, faults, tenantCal, kvCal, measured, cpc, ccal, notify,
                   answers, tpc, seed, pending, results, obs, banditVars,
                   oproVars, storeVars>>

\* The oracle's verdict updates the bandit too; here without its lock.
UpdateBanditAnyTime ==
    /\ up /\ acc = "bandit"
    /\ bandit' = bandit + 1
    /\ acc' = "idle"
    /\ UNCHANGED <<up, faults, calVars, runVars, tpc, seed, pending, results,
                   rhoRead, obs, banditCopy, kvBandit, cold, oproVars, storeVars>>

\* The oracle's verdict updates the bandit too, under the write lock.
UpdateBandit ==
    /\ up /\ acc = "bandit" /\ BanditUnread
    /\ bandit' = bandit + 1
    /\ acc' = "idle"
    /\ UNCHANGED <<up, faults, calVars, runVars, tpc, seed, pending, results,
                   rhoRead, obs, banditCopy, kvBandit, cold, oproVars, storeVars>>

-----------------------------------------------------------------------------
(* Crash and restart                                                       *)

\* The process dies: memory, runs and unconsumed core-NATS messages go.
Crash ==
    /\ up /\ faults < MaxFaults
    /\ up' = FALSE /\ faults' = faults + 1
    /\ cpc' = [c \in Calibrations |-> IF cpc[c] = "idle" THEN "idle" ELSE "done"]
    /\ notify' = {c \in notify : cpc[c] = "done"}
    /\ tpc' = [t \in Tasks |-> IF tpc[t] = "idle" THEN "idle" ELSE "done"]
    /\ cal' = {} /\ tenantCal' = {} /\ bandit' = 0 /\ skills' = {}
    /\ ccal' = [c \in Calibrations |-> {}] /\ overtaken' = {}
    /\ seed' = [t \in Tasks |-> {}] /\ banditCopy' = [t \in Tasks |-> 0]
    /\ oproCopy' = [t \in Tasks |-> [n |-> 0, suppress |-> 0, arms |-> {}]]
    /\ pending' = {} /\ results' = <<>> /\ acc' = "idle"
    /\ rhoRead' = FallbackRho /\ cold' = FALSE
    /\ resolved' = [k \in Tenants |-> 0]
    /\ UNCHANGED <<kvCal, measured, answers, obs, kvBandit, opro, variants,
                   kvSkills, metas, semantic>>

\* load_tenant_state of the default tenant: a value that cannot be read or
\* decoded is left at its default.
RestoreCalibration(loaded) == cal' = IF loaded THEN kvCal ELSE {}
RestoreBandit(loaded) ==
    /\ bandit' = IF loaded THEN kvBandit ELSE 0
    /\ cold' = ~loaded
RestoreSkills(loaded) == skills' = IF loaded THEN kvSkills["default"] ELSE {}

\* The server starts, or starts again; loads may fail, together as one fault.
Restart(calLoaded, banditLoaded, skillsLoaded) ==
    /\ ~up
    /\ (calLoaded /\ banditLoaded /\ skillsLoaded) \/ faults < MaxFaults
    /\ faults' = IF calLoaded /\ banditLoaded /\ skillsLoaded THEN faults ELSE faults + 1
    /\ up' = TRUE
    /\ RestoreCalibration(calLoaded) /\ RestoreBandit(banditLoaded)
    /\ RestoreSkills(skillsLoaded)
    /\ UNCHANGED <<tenantCal, kvCal, measured, runVars, tpc, seed,
                   oracleVars, banditCopy, kvBandit, oproVars, kvSkills,
                   resolved, metas, semantic>>

-----------------------------------------------------------------------------
\* The steps of a run between the adapters' answers and its end; none of
\* them waits for a model.
OwnStep(c) ==
    \/ CacheMeasurement(c) \/ CopyCachedCalibration(c) \/ CalibrationFails(c)
    \/ Relabel(c)
    \/ \E ok \in BOOLEAN : PutCalibration(c, ok) \/ PublishAnswer(c, ok)

CalibrationStep(c) == RunHarness(c) \/ OwnStep(c)

TaskStep(t) ==
    \/ SeedTenant(t) \/ WaveMerges(t) \/ EngineResolves(t)
    \/ \E learned, stored \in BOOLEAN :
          EngineFails(t, learned, stored) \/ PostRunStores(t, learned, stored)
    \/ \E empirical \in BOOLEAN : PostRun(t, empirical)
    \/ PersistBandit(t)
    \/ \E ok \in BOOLEAN : BanditPersisted(t, ok)
    \/ \E low \in BOOLEAN : LoadOpro(t, low)
    \/ StoreVariant(t) \/ DiscardCandidate(t) \/ OproFails(t) \/ PutOpro(t)

OracleStep ==
    \/ \E t \in Tasks : OracleWorker(t)
    \/ \E loaded, stored \in BOOLEAN : AccumulateResult(loaded, stored)
    \/ ReadRho \/ PatchEnsemble \/ UpdateBandit

Next ==
    \/ \E c \in Calibrations, asked \in BOOLEAN : StartCalibration(c, asked)
    \/ \E c \in Calibrations : CalibrationStep(c)
    \/ \E t \in Tasks : SubmitTask(t) \/ SubmitTenantTask(t) \/ TaskStep(t)
    \/ OracleStep
    \/ Crash
    \/ \E calLoaded, banditLoaded, skillsLoaded \in BOOLEAN :
          Restart(calLoaded, banditLoaded, skillsLoaded)

\* Fair are the run's own steps.  The harness awaits the adapters, most of
\* which have no timeout, so what depends on their answer says so.
Spec ==
    /\ Init /\ [][Next]_vars
    /\ \A c \in Calibrations : WF_vars(OwnStep(c))

-----------------------------------------------------------------------------
TypeOK ==
    /\ up \in BOOLEAN /\ faults \in 0..MaxFaults
    /\ \A s \in {cal, tenantCal, kvCal} :
          s = {} \/ \E e \in s : s = {e} /\ DOMAIN e = {"id", "body", "p", "rho"}
    /\ cpc \in [Calibrations -> {"idle", "harness", "relabel", "put", "completed",
                                 "measured", "unreachable", "error",
                                 "failed", "unpublished", "done"}]
    /\ tpc \in [Tasks -> {"idle", "seed", "engine", "merged", "post", "stores", "persist",
                          "guard", "opro", "llm", "oproput", "done"}]
    /\ acc \in {"idle", "patch", "rebuild", "bandit"} /\ rhoRead \in Rho
    /\ Len(obs) <= OracleWindow
    /\ bandit \in Nat /\ kvBandit \in Nat

\* The accumulator rebuilds the ensemble from a rho that is no longer the
\* cached one.
StaleRebuild(a) == acc = "rebuild" /\ acc' = "bandit" /\ rhoRead # a.rho

\* The calibration in the cache never goes back to an older measurement, nor
\* loses an oracle patch or the empirical rho of the one it holds, whatever
\* calibrations, pipelines, the accumulator, crashes and restarts overlap,
\* but for the two windows the code leaves open between a read lock and the
\* write lock after it: a relabelling run writes the copy it took before the
\* cache moved on (routes/calibrate.rs), and the accumulator rebuilds the
\* ensemble from a rho it read before it was patched (oracle/mod.rs).
CalibrationMovesForward ==
    [][\A a \in cal, b \in cal' :
          \/ b.body > a.body
          \/ /\ b.body = a.body /\ b.p >= a.p
             /\ a.rho.from = "ema" => b.rho.from = "ema" \/ StaleRebuild(a)
          \/ \E c \in overtaken : cpc[c] = "relabel" /\ cpc'[c] = "put"]_vars

\* A relabelling run re-emits the calibration the cache holds under its own
\* id: the comment above it says "Re-emit the existing cached calibration
\* under the new cal_id".
RelabelKeepsMeasurement ==
    [][\A c \in Calibrations : cpc[c] = "relabel" /\ cpc'[c] = "put" =>
          \A a \in cal, b \in cal' : b.body = a.body]_vars

\* The oracle's patch keeps the rho of the calibration it patches: it is
\* documented to "Derive `cg_mean` from the existing calibration".
OraclePatchKeepsRho ==
    [][\A a \in cal, b \in cal' : b.body = a.body /\ b.p > a.p => b.rho = a.rho]_vars

\* A persisted bandit is never replaced by one that has seen less, unless its
\* load failed when the server started: the read guard is held until the
\* store answers, so no update of a wave or of the oracle falls between the
\* copy and the write of any of the pipelines (task_pipeline.rs), and a
\* restart goes on from the stored one.  After a failed load
\* (load_tenant_state falls back to defaults) the first write of the default
\* tenant replaces the stored bandit; from then on it only grows again.  (The
\* experiment harness's reset route, which empties the bandit on purpose, is
\* not part of the model.)
BanditNeverRegresses == [][cold \/ kvBandit' >= kvBandit]_vars

\* Every arm of the stored OPRO state names a stored prompt variant, in
\* whatever order triggers overlap, fail or are cut by a crash: the variant
\* is written before the state that mentions it.
ArmsAreStored == opro.arms \subseteq variants

\* If the adapters answer, a client that asked for a calibration is answered,
\* with the completed or the failed event and only once, unless the server
\* crashed under the run or the publication of the event failed.
CalibrationAnswered ==
    (\A c \in Calibrations : WF_vars(RunHarness(c))) =>
        \A c \in Calibrations :
            [](c \in notify => <>(c \notin notify \/ Len(answers[c]) = 1
                                  \/ cpc[c] = "unpublished"))

\* The distilled memory is over the tasks that were resolved: a cycle that
\* runs when tasks have been resolved sees their meta states.
DistillsResolvedTasks ==
    \A k \in Tenants : \A seen \in semantic[k] : seen # {}
=============================================================================
