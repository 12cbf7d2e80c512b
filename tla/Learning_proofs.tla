-------------------------- MODULE Learning_proofs --------------------------
(***************************************************************************)
(* What the control plane has learned is not lost by its own concurrency,  *)
(* for any number of calibrations and tasks and any bound on faults: a      *)
(* stored bandit is never replaced by one that has seen less, every arm of  *)
(* the stored OPRO state names a stored variant, and the cached calibration *)
(* goes back only through the two windows the code leaves open.            *)
(***************************************************************************)
EXTENDS Learning, TLAPS

TaskPlaces == {"idle", "seed", "engine", "merged", "post", "stores", "persist", "guard",
               "opro", "llm", "oproput", "done"}
RunPlaces == {"idle", "harness", "relabel", "put", "completed", "measured", "unreachable",
              "error", "failed", "unpublished", "done"}

\* Nothing runs while the server is down.
PlacesInv ==
    /\ up \in BOOLEAN
    /\ tpc \in [Tasks -> TaskPlaces] /\ cpc \in [Calibrations -> RunPlaces]
    /\ ~up => /\ \A t \in Tasks : tpc[t] \in {"idle", "done"}
              /\ \A c \in Calibrations : cpc[c] \in {"idle", "done"}

\* The bandit: the stored one is behind the one in memory unless its load
\* failed, and a pipeline of the default tenant that holds the read guard
\* writes the current one.
BanditInv ==
    /\ bandit \in Nat /\ kvBandit \in Nat /\ banditCopy \in [Tasks -> Nat]
    /\ cold \in BOOLEAN
    /\ up => cold \/ kvBandit <= bandit
    /\ \A t \in Tasks \ TenantTasks : tpc[t] = "guard" => banditCopy[t] = bandit

\* The OPRO state: the copies a trigger holds name stored variants only.
OproState == [n : Nat, suppress : Nat, arms : SUBSET Tasks]
OproInv ==
    /\ opro \in OproState /\ oproCopy \in [Tasks -> OproState]
    /\ opro.arms \subseteq variants
    /\ \A t \in Tasks : oproCopy[t].arms \subseteq variants

\* A cache slot, a stored value or a copy: none or one calibration, of a
\* measurement that was made.
Slot(s) ==
    /\ s \subseteq CalibrationCompletedEvent
    /\ \A a, b \in s : a = b
    /\ \A a \in s : a.body <= measured

\* The calibration: a run that relabels holds what the cache holds, unless the
\* cache moved on under it.
CalInv ==
    /\ measured \in Nat /\ Slot(cal) /\ Slot(kvCal) /\ rhoRead \in Rho
    /\ ~up => cal = {}
    /\ ccal \in [Calibrations -> SUBSET CalibrationCompletedEvent]
    /\ \A c \in Calibrations : Slot(ccal[c])
    /\ \A c \in Calibrations : cpc[c] = "relabel" =>
          ccal[c] # {} /\ (c \notin overtaken => ccal[c] = cal)

LInv == PlacesInv /\ BanditInv /\ OproInv /\ CalInv

-----------------------------------------------------------------------------
(* Where the runs and the tasks are *)

\* A task that moves does so alone, in a running server.
LEMMA TaskMoves ==
  ASSUME PlacesInv, NEW t \in Tasks, SubmitTask(t) \/ SubmitTenantTask(t) \/ TaskStep(t)
  PROVE  /\ up /\ up' = up /\ cpc' = cpc
         /\ \E p \in TaskPlaces : tpc' = [tpc EXCEPT ![t] = p]
<1> USE DEF TaskPlaces, runVars
<1>1. CASE SubmitTask(t)
  BY <1>1 DEF SubmitTask
<1>2. CASE SubmitTenantTask(t)
  BY <1>2 DEF SubmitTenantTask
<1>3. CASE SeedTenant(t)
  BY <1>3 DEF SeedTenant
<1>4. CASE WaveMerges(t)
  BY <1>4 DEF WaveMerges
<1>5. CASE EngineResolves(t)
  BY <1>5 DEF EngineResolves
<1>6. ASSUME NEW l \in BOOLEAN, NEW s \in BOOLEAN, EngineFails(t, l, s)
      PROVE  /\ up /\ up' = up /\ cpc' = cpc
             /\ \E p \in TaskPlaces : tpc' = [tpc EXCEPT ![t] = p]
  BY <1>6 DEF EngineFails
<1>7. ASSUME NEW l \in BOOLEAN, NEW s \in BOOLEAN, PostRunStores(t, l, s)
      PROVE  /\ up /\ up' = up /\ cpc' = cpc
             /\ \E p \in TaskPlaces : tpc' = [tpc EXCEPT ![t] = p]
  BY <1>7 DEF PostRunStores
<1>8. ASSUME NEW empirical \in BOOLEAN, PostRun(t, empirical)
      PROVE  /\ up /\ up' = up /\ cpc' = cpc
             /\ \E p \in TaskPlaces : tpc' = [tpc EXCEPT ![t] = p]
  BY <1>8 DEF PostRun
<1>9. CASE PersistBandit(t)
  BY <1>9 DEF PersistBandit
<1>10. ASSUME NEW ok \in BOOLEAN, BanditPersisted(t, ok)
       PROVE  /\ up /\ up' = up /\ cpc' = cpc
              /\ \E p \in TaskPlaces : tpc' = [tpc EXCEPT ![t] = p]
  BY <1>10 DEF BanditPersisted
<1>11. ASSUME NEW low \in BOOLEAN, LoadOpro(t, low)
       PROVE  /\ up /\ up' = up /\ cpc' = cpc
              /\ \E p \in TaskPlaces : tpc' = [tpc EXCEPT ![t] = p]
  BY <1>11 DEF LoadOpro
<1>12. CASE StoreVariant(t) \/ DiscardCandidate(t) \/ OproFails(t) \/ PutOpro(t)
  BY <1>12 DEF StoreVariant, DiscardCandidate, OproFails, PutOpro
<1> QED
  BY <1>1, <1>2, <1>3, <1>4, <1>5, <1>6, <1>7, <1>8, <1>9, <1>10, <1>11, <1>12 DEF TaskStep

\* So does a calibration run.
LEMMA RunMoves ==
  ASSUME PlacesInv, NEW c \in Calibrations,
         (\E asked \in BOOLEAN : StartCalibration(c, asked)) \/ CalibrationStep(c)
  PROVE  /\ up /\ up' = up /\ tpc' = tpc
         /\ \E p \in RunPlaces : cpc' = [cpc EXCEPT ![c] = p]
<1> USE DEF RunPlaces
<1>1. CASE \E asked \in BOOLEAN : StartCalibration(c, asked)
  BY <1>1 DEF StartCalibration
<1>2. CASE RunHarness(c)
  BY <1>2 DEF RunHarness, HarnessResults
<1>3. CASE CacheMeasurement(c) \/ CopyCachedCalibration(c) \/ CalibrationFails(c)
  BY <1>3 DEF CacheMeasurement, CopyCachedCalibration, CalibrationFails
<1>4. CASE Relabel(c)
  BY <1>4 DEF Relabel
<1>5. ASSUME NEW ok \in BOOLEAN, PutCalibration(c, ok) \/ PublishAnswer(c, ok)
      PROVE  /\ up /\ up' = up /\ tpc' = tpc
             /\ \E p \in RunPlaces : cpc' = [cpc EXCEPT ![c] = p]
  BY <1>5 DEF PutCalibration, PublishAnswer
<1> QED
  BY <1>1, <1>2, <1>3, <1>4, <1>5 DEF CalibrationStep, OwnStep

\* The oracle's steps move neither.
LEMMA OracleMoves == OracleStep => up /\ UNCHANGED <<up, tpc, cpc>>
  BY DEF OracleStep, OracleWorker, AccumulateResult, ReadRho, PatchEnsemble, UpdateBandit, runVars

\* Every process stays at a place of its own code.
LEMMA StepPlaces == PlacesInv /\ [Next]_vars => PlacesInv'
<1> SUFFICES ASSUME PlacesInv, [Next]_vars PROVE PlacesInv'
  OBVIOUS
<1>1. ASSUME NEW t \in Tasks, SubmitTask(t) \/ SubmitTenantTask(t) \/ TaskStep(t)
      PROVE  PlacesInv'
  BY <1>1, TaskMoves DEF PlacesInv
<1>2. ASSUME NEW c \in Calibrations,
             (\E asked \in BOOLEAN : StartCalibration(c, asked)) \/ CalibrationStep(c)
      PROVE  PlacesInv'
  BY <1>2, RunMoves DEF PlacesInv
<1>3. CASE OracleStep
  BY <1>3, OracleMoves DEF PlacesInv
<1>4. CASE Crash
  BY <1>4 DEF Crash, PlacesInv, TaskPlaces, RunPlaces
<1>5. ASSUME NEW k \in BOOLEAN, NEW b \in BOOLEAN, NEW s \in BOOLEAN, Restart(k, b, s)
      PROVE  PlacesInv'
  BY <1>5 DEF Restart, PlacesInv, runVars
<1>6. CASE UNCHANGED vars
  BY <1>6 DEF vars, PlacesInv, runVars
<1> QED
  BY <1>1, <1>2, <1>3, <1>4, <1>5, <1>6 DEF Next

-----------------------------------------------------------------------------
(* The bandit *)

\* A task that leaves the bandit alone and does not take the read guard.
LEMMA BanditAside ==
  ASSUME BanditInv, UNCHANGED banditVars, up' = up,
         \A t \in Tasks : tpc'[t] = "guard" => tpc[t] = "guard"
  PROVE  BanditInv' /\ (cold \/ kvBandit' >= kvBandit)
BY DEF BanditInv, banditVars

\* The steps of a task: the write lock waits for the readers, and a reader
\* writes what it read.
LEMMA TaskBandit ==
  ASSUME PlacesInv, BanditInv, NEW t \in Tasks,
         SubmitTask(t) \/ SubmitTenantTask(t) \/ TaskStep(t)
  PROVE  BanditInv' /\ (cold \/ kvBandit' >= kvBandit)
<1>1. CASE SubmitTask(t) \/ SubmitTenantTask(t)
  BY <1>1, BanditAside DEF SubmitTask, SubmitTenantTask, PlacesInv
<1>2. CASE SeedTenant(t) \/ EngineResolves(t)
  BY <1>2, BanditAside DEF SeedTenant, EngineResolves, PlacesInv
<1>3. ASSUME NEW l \in BOOLEAN, NEW s \in BOOLEAN, EngineFails(t, l, s) \/ PostRunStores(t, l, s)
      PROVE  BanditInv' /\ (cold \/ kvBandit' >= kvBandit)
  BY <1>3, BanditAside DEF EngineFails, PostRunStores, PlacesInv
<1>4. ASSUME NEW empirical \in BOOLEAN, PostRun(t, empirical)
      PROVE  BanditInv' /\ (cold \/ kvBandit' >= kvBandit)
  BY <1>4, BanditAside DEF PostRun, PlacesInv
<1>5. ASSUME NEW low \in BOOLEAN, LoadOpro(t, low)
      PROVE  BanditInv' /\ (cold \/ kvBandit' >= kvBandit)
  BY <1>5, BanditAside DEF LoadOpro, PlacesInv
<1>6. CASE StoreVariant(t) \/ DiscardCandidate(t) \/ OproFails(t) \/ PutOpro(t)
  BY <1>6, BanditAside DEF StoreVariant, DiscardCandidate, OproFails, PutOpro, PlacesInv
<1>7. CASE WaveMerges(t)
  BY <1>7 DEF WaveMerges, BanditUnread, BanditInv, PlacesInv
<1>8. CASE PersistBandit(t)
  BY <1>8 DEF PersistBandit, BanditInv, PlacesInv
<1>9. ASSUME NEW ok \in BOOLEAN, BanditPersisted(t, ok)
      PROVE  BanditInv' /\ (cold \/ kvBandit' >= kvBandit)
  BY <1>9 DEF BanditPersisted, KvPut, BanditInv, PlacesInv
<1> QED
  BY <1>1, <1>2, <1>3, <1>4, <1>5, <1>6, <1>7, <1>8, <1>9 DEF TaskStep

\* A calibration run never touches the bandit.
LEMMA RunBandit ==
  ASSUME PlacesInv, BanditInv, NEW c \in Calibrations,
         (\E asked \in BOOLEAN : StartCalibration(c, asked)) \/ CalibrationStep(c)
  PROVE  BanditInv' /\ (cold \/ kvBandit' >= kvBandit)
<1>1. UNCHANGED banditVars
  BY DEF CalibrationStep, StartCalibration, RunHarness, CacheMeasurement,
         CopyCachedCalibration, CalibrationFails, Relabel, PublishAnswer, PutCalibration, OwnStep
<1> QED
  BY <1>1, RunMoves, BanditAside

\* The stored bandit is never ahead of the one in memory, and grows.
LEMMA StepBandit ==
  PlacesInv /\ BanditInv /\ [Next]_vars => BanditInv' /\ (cold \/ kvBandit' >= kvBandit)
<1> SUFFICES ASSUME PlacesInv, BanditInv, [Next]_vars
             PROVE  BanditInv' /\ (cold \/ kvBandit' >= kvBandit)
  OBVIOUS
<1>1. CASE OracleStep
  <2>1. CASE UpdateBandit
    BY <2>1 DEF UpdateBandit, BanditUnread, BanditInv
  <2>2. ASSUME ~UpdateBandit PROVE UNCHANGED banditVars
    BY <1>1, <2>2 DEF OracleStep, OracleWorker, AccumulateResult, ReadRho, PatchEnsemble
  <2> QED
    BY <1>1, <2>1, <2>2, OracleMoves, BanditAside
<1>2. CASE Crash
  <2>1. /\ up' = FALSE /\ bandit' = 0 /\ kvBandit' = kvBandit
        /\ banditCopy' = [t \in Tasks |-> 0] /\ cold' \in BOOLEAN
        /\ \A t \in Tasks : tpc'[t] # "guard"
    BY <1>2 DEF Crash
  <2> QED
    BY <2>1 DEF BanditInv
<1>3. ASSUME NEW k \in BOOLEAN, NEW b \in BOOLEAN, NEW s \in BOOLEAN, Restart(k, b, s)
      PROVE  BanditInv' /\ (cold \/ kvBandit' >= kvBandit)
  <2>1. /\ ~up /\ kvBandit' = kvBandit /\ banditCopy' = banditCopy /\ tpc' = tpc
        /\ cold' \in BOOLEAN
        /\ (cold' /\ bandit' = 0) \/ bandit' = kvBandit
    BY <1>3 DEF Restart, RestoreBandit
  <2>2. \A t \in Tasks : tpc[t] # "guard"
    BY <2>1 DEF PlacesInv
  <2> QED
    BY <2>1, <2>2 DEF BanditInv
<1>4. CASE UNCHANGED vars
  BY <1>4, BanditAside DEF vars
<1> QED
  BY <1>1, <1>2, <1>3, <1>4, TaskBandit, RunBandit DEF Next

-----------------------------------------------------------------------------
(* The OPRO state *)

LEMMA OproAside == OproInv /\ UNCHANGED oproVars => OproInv'
  BY DEF OproInv, oproVars

\* A pipeline's copy of the OPRO state names stored variants only.
LEMMA TaskOpro ==
  ASSUME PlacesInv, OproInv, NEW t \in Tasks,
         SubmitTask(t) \/ SubmitTenantTask(t) \/ TaskStep(t)
  PROVE  OproInv'
<1>0. oproCopy[t] \in OproState /\ opro \in OproState /\ SuppressTasks \in Nat
  BY SizesAssumption DEF OproInv
<1>1. CASE SubmitTask(t) \/ SubmitTenantTask(t) \/ SeedTenant(t) \/ WaveMerges(t)
           \/ EngineResolves(t) \/ PersistBandit(t)
  BY <1>1, OproAside DEF SubmitTask, SubmitTenantTask, SeedTenant, WaveMerges,
                         EngineResolves, PersistBandit
<1>2. ASSUME NEW l \in BOOLEAN, NEW s \in BOOLEAN, EngineFails(t, l, s) \/ PostRunStores(t, l, s)
      PROVE  OproInv'
  BY <1>2, OproAside DEF EngineFails, PostRunStores
<1>3. ASSUME NEW empirical \in BOOLEAN, PostRun(t, empirical) PROVE OproInv'
  BY <1>3, OproAside DEF PostRun
<1>4. ASSUME NEW ok \in BOOLEAN, BanditPersisted(t, ok) PROVE OproInv'
  BY <1>4, OproAside DEF BanditPersisted
<1>5. ASSUME NEW new \in OproState, oproCopy' = [oproCopy EXCEPT ![t] = new],
             opro' \in OproState, opro'.arms \subseteq variants',
             new.arms \subseteq variants', variants \subseteq variants'
      PROVE  OproInv'
  BY <1>5 DEF OproInv
<1>6. ASSUME NEW low \in BOOLEAN, LoadOpro(t, low) PROVE OproInv'
  <2> DEFINE new == [opro EXCEPT !.n = @ + 1]
  <2>1. new \in OproState /\ new.arms = opro.arms
    BY <1>0 DEF OproState
  <2>2. oproCopy' = [oproCopy EXCEPT ![t] = new] /\ variants' = variants /\ opro' = opro
    BY <1>6 DEF LoadOpro
  <2>3. opro.arms \subseteq variants
    BY DEF OproInv
  <2> HIDE DEF new
  <2> QED
    BY <1>0, <1>5, <2>1, <2>2, <2>3
<1>7. CASE StoreVariant(t)
  <2> DEFINE new == [oproCopy[t] EXCEPT !.arms = @ \cup {t},
                                        !.suppress = oproCopy[t].n + SuppressTasks]
  <2>1. new \in OproState /\ new.arms = oproCopy[t].arms \cup {t}
    <3> DEFINE mid == [oproCopy[t] EXCEPT !.arms = @ \cup {t}]
    <3>1. oproCopy[t].arms \cup {t} \in SUBSET Tasks /\ oproCopy[t].n + SuppressTasks \in Nat
      BY <1>0 DEF OproState
    <3>2. mid \in OproState /\ mid.arms = oproCopy[t].arms \cup {t}
      BY <1>0, <3>1 DEF OproState
    <3>3. new = [mid EXCEPT !.suppress = oproCopy[t].n + SuppressTasks]
      OBVIOUS
    <3> HIDE DEF mid, new
    <3> QED
      BY <3>1, <3>2, <3>3 DEF OproState
  <2>2. oproCopy' = [oproCopy EXCEPT ![t] = new]
    BY <1>7, <1>0 DEF StoreVariant, OproInv, OproState
  <2>3. variants' = variants \cup {t} /\ opro' = opro
    BY <1>7 DEF StoreVariant
  <2>4. oproCopy[t].arms \subseteq variants /\ opro.arms \subseteq variants
    BY DEF OproInv
  <2> HIDE DEF new
  <2> QED
    BY <1>0, <1>5, <2>1, <2>2, <2>3, <2>4
<1>8. CASE DiscardCandidate(t)
  <2> DEFINE new == [oproCopy[t] EXCEPT !.suppress = oproCopy[t].n + SuppressTasks]
  <2>1. new \in OproState /\ new.arms = oproCopy[t].arms
    BY <1>0 DEF OproState
  <2>2. oproCopy' = [oproCopy EXCEPT ![t] = new] /\ variants' = variants /\ opro' = opro
    BY <1>8, <1>0 DEF DiscardCandidate, OproInv, OproState
  <2>4. oproCopy[t].arms \subseteq variants /\ opro.arms \subseteq variants
    BY DEF OproInv
  <2> HIDE DEF new
  <2> QED
    BY <1>0, <1>5, <2>1, <2>2, <2>4
<1>9. CASE OproFails(t) \/ PutOpro(t)
  <2> DEFINE new == [n |-> 0, suppress |-> 0, arms |-> {}]
  <2>1. new \in OproState /\ new.arms = {}
    BY DEF OproState
  <2>2. oproCopy' = [oproCopy EXCEPT ![t] = new] /\ variants' = variants
        /\ opro' \in {opro, oproCopy[t]}
    BY <1>9 DEF OproFails, PutOpro
  <2>4. oproCopy[t].arms \subseteq variants /\ opro.arms \subseteq variants
    BY DEF OproInv
  <2> HIDE DEF new
  <2> QED
    BY <1>0, <1>5, <2>1, <2>2, <2>4
<1> QED
  BY <1>1, <1>2, <1>3, <1>4, <1>6, <1>7, <1>8, <1>9 DEF TaskStep

\* The OPRO state, over every step.
LEMMA StepOpro == PlacesInv /\ OproInv /\ [Next]_vars => OproInv'
<1> SUFFICES ASSUME PlacesInv, OproInv, [Next]_vars PROVE OproInv'
  OBVIOUS
<1>1. ASSUME NEW c \in Calibrations,
             (\E asked \in BOOLEAN : StartCalibration(c, asked)) \/ CalibrationStep(c)
      PROVE  OproInv'
  BY <1>1, OproAside
     DEF CalibrationStep, StartCalibration, RunHarness, CacheMeasurement,
         CopyCachedCalibration, CalibrationFails, Relabel, PublishAnswer, PutCalibration, OwnStep
<1>2. CASE OracleStep
  BY <1>2, OproAside DEF OracleStep, OracleWorker, AccumulateResult, ReadRho, PatchEnsemble, UpdateBandit
<1>3. CASE Crash
  <2>1. [n |-> 0, suppress |-> 0, arms |-> {}] \in OproState
    BY DEF OproState
  <2> QED
    BY <1>3, <2>1 DEF Crash, OproInv
<1>4. ASSUME NEW k \in BOOLEAN, NEW b \in BOOLEAN, NEW s \in BOOLEAN, Restart(k, b, s)
      PROVE  OproInv'
  BY <1>4, OproAside DEF Restart
<1>5. CASE UNCHANGED vars
  BY <1>5, OproAside DEF vars
<1> QED
  BY <1>1, <1>2, <1>3, <1>4, <1>5, TaskOpro DEF Next

-----------------------------------------------------------------------------
(* The calibration *)

\* What a step may do to the cached calibration (CalibrationMovesForward).
Forward ==
    \A a \in cal, b \in cal' :
       \/ b.body > a.body
       \/ /\ b.body = a.body /\ b.p >= a.p
          /\ a.rho.from = "ema" => b.rho.from = "ema" \/ StaleRebuild(a)
       \/ \E c \in overtaken : cpc[c] = "relabel" /\ cpc'[c] = "put"

calState == <<cal, kvCal, measured, ccal, overtaken, rhoRead>>

\* A step that leaves the calibration and its copies alone, and starts no
\* relabelling.
LEMMA CalAside ==
  ASSUME CalInv, UNCHANGED <<cal, kvCal, measured, ccal, overtaken>>, up' = up, rhoRead' \in Rho,
         \A c \in Calibrations : cpc'[c] = "relabel" => cpc[c] = "relabel"
  PROVE  CalInv' /\ Forward
<1>1. CalInv'
  BY DEF CalInv, Slot
<1>2. Forward
  <2> SUFFICES ASSUME NEW a \in cal, NEW b \in cal PROVE b.body = a.body /\ b.p >= a.p /\ b.rho = a.rho
    BY DEF Forward
  <2>1. a = b /\ a \in CalibrationCompletedEvent
    BY DEF CalInv, Slot
  <2> QED
    BY <2>1 DEF CalibrationCompletedEvent
<1> QED
  BY <1>1, <1>2

\* The cache's record is patched under the write lock: one record becomes one
\* record of the same measurement, with no patch less.
LEMMA Patched ==
  ASSUME CalInv, up, up' = up, UNCHANGED <<kvCal, measured, ccal, cpc>>, rhoRead' \in Rho,
         NEW f, cal' = {f[x] : x \in cal}, f \in [cal -> CalibrationCompletedEvent],
         \A x \in cal : f[x].body = x.body /\ f[x].p >= x.p,
         \A x \in cal : x.rho.from = "ema" => f[x].rho.from = "ema" \/ StaleRebuild(x),
         overtaken' = IF cal' # cal THEN Overtake ELSE overtaken
  PROVE  CalInv' /\ Forward
<1>0. Slot(cal) /\ \A x \in cal : f[x] \in CalibrationCompletedEvent /\ f[x].body = x.body
  BY SMT DEF CalInv, StaleRebuild
<1>1. Slot(cal)'
  BY <1>0 DEF Slot
<1>2. ASSUME NEW c \in Calibrations, cpc[c] = "relabel", c \notin overtaken'
      PROVE  ccal[c] = cal'
  BY <1>2 DEF CalInv, Overtake
<1>3. CalInv'
  BY <1>1, <1>2 DEF CalInv, Slot
<1>4. Forward
  <2> SUFFICES ASSUME NEW a \in cal, NEW b \in cal'
               PROVE  /\ b.body = a.body /\ b.p >= a.p
                      /\ a.rho.from = "ema" => b.rho.from = "ema" \/ StaleRebuild(a)
    BY DEF Forward
  <2>1. b = f[a]
    BY <1>0 DEF Slot
  <2> QED
    BY <2>1, SMT DEF StaleRebuild
<1> QED
  BY <1>3, <1>4

\* What a pipeline does to the calibration cache.
LEMMA TaskCal ==
  ASSUME PlacesInv, CalInv, NEW t \in Tasks,
         SubmitTask(t) \/ SubmitTenantTask(t) \/ TaskStep(t)
  PROVE  CalInv' /\ Forward
<1>0. up /\ up' = up /\ cpc' = cpc
  BY TaskMoves
<1>1. ASSUME NEW empirical \in BOOLEAN, PostRun(t, empirical)
      PROVE  CalInv' /\ Forward
  <2>1. CASE t \in TenantTasks
    BY <1>0, <1>1, <2>1, CalAside DEF PostRun, CalInv
  <2>2. CASE t \notin TenantTasks
    <3> DEFINE f == [x \in cal |-> [x EXCEPT !.rho = IF empirical /\ HasEnsemble THEN EmaRho ELSE @]]
    <3>1. cal \subseteq CalibrationCompletedEvent
      BY DEF CalInv, Slot
    <3>2. \A x \in cal : /\ f[x] \in CalibrationCompletedEvent
                         /\ f[x].body = x.body /\ f[x].p >= x.p
                         /\ x.rho.from = "ema" => f[x].rho.from = "ema"
      BY <3>1 DEF CalibrationCompletedEvent, EmaRho, Rho
    <3>3. f \in [cal -> CalibrationCompletedEvent]
      BY <3>2
    <3>4. cal' = {f[x] : x \in cal}
      BY <1>1, <2>2 DEF PostRun
    <3>5. overtaken' = IF cal' # cal THEN Overtake ELSE overtaken
      BY <1>1, <2>2 DEF PostRun
    <3>6. UNCHANGED <<kvCal, measured, ccal, cpc>> /\ rhoRead' \in Rho
      BY <1>1 DEF PostRun, CalInv
    <3> HIDE DEF f
    <3> QED
      BY <1>0, <3>2, <3>3, <3>4, <3>5, <3>6, Patched
  <2> QED
    BY <2>1, <2>2
<1>2. ASSUME ~ \E empirical \in BOOLEAN : PostRun(t, empirical)
      PROVE  UNCHANGED calState
  <2> USE DEF calState, calVars, runVars, oracleVars
  <2>1. CASE SubmitTask(t) \/ SubmitTenantTask(t) \/ SeedTenant(t) \/ WaveMerges(t)
             \/ EngineResolves(t) \/ PersistBandit(t)
    BY <2>1 DEF SubmitTask, SubmitTenantTask, SeedTenant, WaveMerges, EngineResolves, PersistBandit
  <2>2. ASSUME NEW l \in BOOLEAN, NEW s \in BOOLEAN,
               EngineFails(t, l, s) \/ PostRunStores(t, l, s)
        PROVE  UNCHANGED calState
    BY <2>2 DEF EngineFails, PostRunStores
  <2>3. ASSUME NEW b \in BOOLEAN, BanditPersisted(t, b) \/ LoadOpro(t, b)
        PROVE  UNCHANGED calState
    BY <2>3 DEF BanditPersisted, LoadOpro
  <2>4. CASE StoreVariant(t) \/ DiscardCandidate(t) \/ OproFails(t) \/ PutOpro(t)
    BY <2>4 DEF StoreVariant, DiscardCandidate, OproFails, PutOpro
  <2> HIDE DEF calState
  <2> QED
    BY <1>2, <2>1, <2>2, <2>3, <2>4 DEF TaskStep
<1> QED
  BY <1>0, <1>1, <1>2, CalAside DEF calState, CalInv

\* A measurement is newer than every copy; a relabelling writes the cached
\* calibration back under another id, unless the cache moved on meanwhile.
LEMMA RunCal ==
  ASSUME PlacesInv, CalInv, NEW c \in Calibrations,
         (\E asked \in BOOLEAN : StartCalibration(c, asked)) \/ CalibrationStep(c)
  PROVE  CalInv' /\ Forward
<1>0. up /\ up' = up /\ \E p \in RunPlaces : cpc' = [cpc EXCEPT ![c] = p]
  BY RunMoves
<1>1. cpc \in [Calibrations -> RunPlaces] /\ ccal \in [Calibrations -> SUBSET CalibrationCompletedEvent]
  BY DEF PlacesInv, CalInv
<1>2. CASE (\E asked \in BOOLEAN : StartCalibration(c, asked)) \/ RunHarness(c)
           \/ CalibrationFails(c) \/ (\E ok \in BOOLEAN : PublishAnswer(c, ok))
  <2>1. UNCHANGED calState
    BY <1>2 DEF calState, calVars, oracleVars, StartCalibration, RunHarness, CalibrationFails,
               PublishAnswer
  <2>2. cpc'[c] # "relabel"
    BY <1>1, <1>2 DEF StartCalibration, RunHarness, HarnessResults, CalibrationFails, PublishAnswer
  <2> QED
    BY <1>0, <1>1, <2>1, <2>2, CalAside DEF calState, CalInv
<1>3. CASE CacheMeasurement(c)
  <2> DEFINE new == [id |-> c, body |-> measured', p |-> 0, rho |-> MeasuredRho(measured')]
  <2>1. measured \in Nat /\ measured' = measured + 1
    BY <1>3 DEF CacheMeasurement, CalInv
  <2>2. new \in CalibrationCompletedEvent /\ new.body = measured'
    BY <2>1 DEF CalibrationCompletedEvent, MeasuredRho, Rho
  <2>3. cal' = {new} /\ ccal' = [ccal EXCEPT ![c] = {new}]
        /\ cpc' = [cpc EXCEPT ![c] = "put"] /\ overtaken' = Overtake /\ kvCal' = kvCal
        /\ rhoRead' = rhoRead
    BY <1>3 DEF CacheMeasurement, oracleVars
  <2> HIDE DEF new
  <2>4. Slot(cal)' /\ \A a \in cal : a.body < measured' /\ a.body \in Nat
    BY <2>1, <2>2, <2>3 DEF CalInv, Slot, CalibrationCompletedEvent
  <2>5. Slot(kvCal)' /\ \A d \in Calibrations : Slot(ccal[d])'
    <3>1. \A e \in CalibrationCompletedEvent : e.body \in Nat
      BY DEF CalibrationCompletedEvent
    <3> QED
      BY <1>1, <2>1, <2>2, <2>3, <3>1 DEF CalInv, Slot
  <2>6. \A d \in Calibrations : cpc'[d] = "relabel" => ccal'[d] # {} /\ d \in overtaken'
    BY <1>1, <2>3 DEF CalInv, Overtake
  <2>7. ccal' \in [Calibrations -> SUBSET CalibrationCompletedEvent]
    BY <1>1, <2>2, <2>3
  <2>8. CalInv'
    <3>1. measured' \in Nat /\ rhoRead' \in Rho /\ up'
      BY <1>0, <2>1, <2>3 DEF CalInv
    <3> QED
      BY <3>1, <2>4, <2>5, <2>6, <2>7 DEF CalInv
  <2>9. Forward
    BY <2>1, <2>2, <2>3, <2>4 DEF Forward
  <2> QED
    BY <2>8, <2>9
<1>4. CASE CopyCachedCalibration(c)
  <2>1. ccal' = [ccal EXCEPT ![c] = cal] /\ cal # {} /\ cpc' = [cpc EXCEPT ![c] = "relabel"]
        /\ UNCHANGED <<cal, kvCal, measured, overtaken, rhoRead>>
    BY <1>4 DEF CopyCachedCalibration, calVars, oracleVars
  <2>2. CalInv'
    BY <1>0, <1>1, <2>1 DEF CalInv, Slot
  <2>3. Forward
    <3> SUFFICES ASSUME NEW a \in cal, NEW b \in cal
                 PROVE  b.body = a.body /\ b.p >= a.p /\ b.rho = a.rho
      BY <2>1 DEF Forward
    <3>1. a = b /\ a \in CalibrationCompletedEvent
      BY DEF CalInv, Slot
    <3> QED
      BY <3>1 DEF CalibrationCompletedEvent
  <2> QED
    BY <2>2, <2>3
<1>5. CASE Relabel(c)
  <2> DEFINE old == Content(ccal[c])
             new == [old EXCEPT !.id = c]
  <2>1. old \in ccal[c]
    BY <1>5 DEF Relabel, CalInv, Content
  <2>2. old \in CalibrationCompletedEvent /\ old.body <= measured
    BY <2>1 DEF CalInv, Slot
  <2>3. new \in CalibrationCompletedEvent /\ new.body = old.body /\ new.p = old.p
        /\ new.rho = old.rho
    BY <2>2 DEF CalibrationCompletedEvent
  <2>4. cal' = {new} /\ ccal' = [ccal EXCEPT ![c] = {new}]
        /\ cpc' = [cpc EXCEPT ![c] = "put"] /\ overtaken' = Overtake \ {c}
        /\ UNCHANGED <<kvCal, measured, rhoRead>> /\ cpc[c] = "relabel"
    BY <1>5 DEF Relabel, oracleVars
  <2>5. c \in overtaken \/ ccal[c] = cal
    BY <2>4 DEF CalInv
  <2> HIDE DEF old, new
  <2>6. Slot(cal)' /\ Slot(kvCal)' /\ \A d \in Calibrations : Slot(ccal[d])'
    BY <1>1, <2>2, <2>3, <2>4 DEF CalInv, Slot
  <2>7. \A d \in Calibrations : cpc'[d] = "relabel" => ccal'[d] # {} /\ d \in overtaken'
    BY <1>1, <2>4 DEF CalInv, Overtake
  <2>8. ccal' \in [Calibrations -> SUBSET CalibrationCompletedEvent]
    BY <1>1, <2>3, <2>4
  <2>9. CalInv'
    BY <1>0, <2>4, <2>6, <2>7, <2>8 DEF CalInv
  <2>10. Forward
    <3>1. CASE c \in overtaken
      BY <1>1, <2>4, <3>1 DEF Forward
    <3>2. CASE ccal[c] = cal
      <4>1. \A a \in cal : a = old
        BY <2>1, <3>2 DEF CalInv, Slot
      <4>2. old.body \in Nat /\ old.p \in Nat
        BY <2>2 DEF CalibrationCompletedEvent
      <4> QED
        BY <2>3, <2>4, <4>1, <4>2 DEF Forward
    <3> QED
      BY <2>5, <3>1, <3>2
  <2> QED
    BY <2>9, <2>10
<1>6. ASSUME NEW ok \in BOOLEAN, PutCalibration(c, ok)
      PROVE  CalInv' /\ Forward
  <2>1. kvCal' \in {kvCal, ccal[c]} /\ ccal' = [ccal EXCEPT ![c] = {}]
        /\ UNCHANGED <<cal, measured, overtaken, rhoRead>> /\ cpc'[c] # "relabel"
    BY <1>1, <1>6 DEF PutCalibration, KvPut, oracleVars
  <2>2. Slot(kvCal)' /\ Slot(cal)' /\ \A d \in Calibrations : Slot(ccal[d])'
    BY <1>1, <2>1 DEF CalInv, Slot
  <2>3. CalInv'
    BY <1>0, <1>1, <2>1, <2>2 DEF CalInv
  <2>4. Forward
    <3> SUFFICES ASSUME NEW a \in cal, NEW b \in cal
                 PROVE  b.body = a.body /\ b.p >= a.p /\ b.rho = a.rho
      BY <2>1 DEF Forward
    <3>1. a = b /\ a \in CalibrationCompletedEvent
      BY DEF CalInv, Slot
    <3> QED
      BY <3>1 DEF CalibrationCompletedEvent
  <2> QED
    BY <2>3, <2>4
<1> QED
  BY <1>2, <1>3, <1>4, <1>5, <1>6 DEF CalibrationStep, OwnStep

\* The calibration cache, over every step.
LEMMA StepCal == PlacesInv /\ CalInv /\ [Next]_vars => CalInv' /\ Forward
<1> SUFFICES ASSUME PlacesInv, CalInv, [Next]_vars PROVE CalInv' /\ Forward
  OBVIOUS
<1>1. CASE OracleStep
  <2>0. up /\ UNCHANGED <<up, cpc>>
    BY <1>1, OracleMoves
  <2>1. CASE PatchEnsemble /\ HasEnsemble
    <3> DEFINE f == [x \in cal |-> [x EXCEPT !.p = @ + 1, !.rho = rhoRead]]
    <3>1. cal \subseteq CalibrationCompletedEvent /\ rhoRead \in Rho
      BY DEF CalInv, Slot
    <3>2. \A x \in cal : /\ f[x] \in CalibrationCompletedEvent
                         /\ f[x].body = x.body /\ f[x].p >= x.p /\ f[x].rho = rhoRead
      <4> SUFFICES ASSUME NEW x \in cal, NEW m, m = [x EXCEPT !.p = @ + 1]
                   PROVE  /\ [m EXCEPT !.rho = rhoRead] \in CalibrationCompletedEvent
                          /\ [m EXCEPT !.rho = rhoRead].body = x.body
                          /\ [m EXCEPT !.rho = rhoRead].p >= x.p
                          /\ [m EXCEPT !.rho = rhoRead].rho = rhoRead
        OBVIOUS
      <4>1. m \in CalibrationCompletedEvent /\ m.body = x.body /\ m.p >= x.p
        BY <3>1 DEF CalibrationCompletedEvent
      <4> QED
        BY <3>1, <4>1 DEF CalibrationCompletedEvent
    <3>3. f \in [cal -> CalibrationCompletedEvent]
      BY <3>2
    <3>4. cal' = {f[x] : x \in cal} /\ UNCHANGED <<kvCal, measured, ccal>>
          /\ overtaken' = (IF cal' # cal THEN Overtake ELSE overtaken)
          /\ acc = "rebuild" /\ acc' = "bandit" /\ rhoRead' = FallbackRho
      BY <2>1 DEF PatchEnsemble
    <3>5. rhoRead' \in Rho
      BY <3>4 DEF FallbackRho, Rho
    <3>6. \A x \in cal : x.rho.from = "ema" => f[x].rho.from = "ema" \/ StaleRebuild(x)
      BY <3>2, <3>4 DEF StaleRebuild
    <3> HIDE DEF f
    <3> QED
      BY <2>0, <3>2, <3>3, <3>4, <3>5, <3>6, Patched
  <2>2. CASE PatchEnsemble /\ ~HasEnsemble
    <3>1. UNCHANGED <<cal, kvCal, measured, ccal, overtaken>> /\ rhoRead' \in Rho
      BY <2>2 DEF PatchEnsemble, FallbackRho, Rho
    <3> QED
      BY <2>0, <3>1, CalAside
  <2>3. CASE ReadRho
    <3>1. UNCHANGED <<cal, kvCal, measured, ccal, overtaken>>
      BY <2>3 DEF ReadRho, calVars, runVars
    <3>2. \A x \in cal : x.rho \in Rho
      BY DEF CalInv, Slot, CalibrationCompletedEvent
    <3>3. FallbackRho \in Rho
      BY DEF FallbackRho, Rho
    <3>4. rhoRead' \in Rho
      BY <2>3, <3>2, <3>3 DEF ReadRho, Content
    <3> QED
      BY <2>0, <3>1, <3>4, CalAside
  <2>4. ASSUME ~PatchEnsemble, ~ReadRho PROVE UNCHANGED calState
    BY <1>1, <2>4 DEF OracleStep, OracleWorker, AccumulateResult, UpdateBandit,
                      calState, calVars, runVars
  <2> QED
    BY <2>0, <2>1, <2>2, <2>3, <2>4, CalAside DEF calState, CalInv
<1>2. CASE Crash
  <2>1. FallbackRho \in Rho
    BY DEF FallbackRho, Rho
  <2> QED
    BY <1>2, <2>1 DEF Crash, CalInv, Slot, Forward
<1>3. ASSUME NEW k \in BOOLEAN, NEW b \in BOOLEAN, NEW s \in BOOLEAN, Restart(k, b, s)
      PROVE  CalInv' /\ Forward
  BY <1>3 DEF Restart, RestoreCalibration, CalInv, PlacesInv, Slot, Forward, runVars, oracleVars
<1>4. CASE UNCHANGED vars
  BY <1>4, CalAside DEF vars, calVars, runVars, oracleVars, calState, CalInv
<1> QED
  BY <1>1, <1>2, <1>3, <1>4, TaskCal, RunCal DEF Next

-----------------------------------------------------------------------------
(* The theorems *)

LEMMA InitLearning == Init => LInv
<1> SUFFICES ASSUME Init PROVE LInv
  OBVIOUS
<1>1. PlacesInv
  BY DEF Init, PlacesInv, TaskPlaces, RunPlaces
<1>2. BanditInv
  BY DEF Init, BanditInv
<1>3. OproInv
  <2>1. [n |-> 0, suppress |-> 0, arms |-> {}] \in OproState
    BY DEF OproState
  <2> QED
    BY <2>1 DEF Init, OproInv
<1>4. CalInv
  <2> DEFINE restored == [id |-> "restored", body |-> 0, p |-> 0, rho |-> MeasuredRho(0)]
  <2>1. restored \in CalibrationCompletedEvent /\ restored.body = 0
    BY DEF CalibrationCompletedEvent, MeasuredRho, Rho
  <2>2. kvCal \in {{}, {restored}} /\ cal = {} /\ measured = 0 /\ rhoRead \in Rho
    BY DEF Init, FallbackRho, Rho
  <2> HIDE DEF restored
  <2>3. Slot(cal) /\ Slot(kvCal) /\ Slot({})
    BY <2>1, <2>2 DEF Slot
  <2> QED
    BY <2>2, <2>3 DEF Init, CalInv
<1> QED
  BY <1>1, <1>2, <1>3, <1>4 DEF LInv

LEMMA StepLearning == LInv /\ [Next]_vars => LInv'
  BY StepPlaces, StepBandit, StepOpro, StepCal DEF LInv

\* What the three parts of the model keep, in every behaviour.
LEMMA LearningInvariant == Spec => []LInv
  BY InitLearning, StepLearning, PTL DEF Spec

\* However triggers overlap, fail or are cut by a crash, the stored OPRO state
\* names no arm whose prompt variant is not stored (opro.rs writes the variant
\* before the state): for any number of tasks.
THEOREM ArmsStored == Spec => []ArmsAreStored
<1>1. LInv => ArmsAreStored
  BY DEF LInv, OproInv, ArmsAreStored
<1> QED
  BY <1>1, LearningInvariant, PTL

\* No pipeline, however many persist at once, and no restart that could load
\* it replaces the stored bandit by one that has seen less (task_pipeline.rs
\* holds the read guard over the write); only a server whose load failed may,
\* until its first write.
THEOREM BanditKept == Spec => BanditNeverRegresses
<1>1. LInv /\ [Next]_vars => [cold \/ kvBandit' >= kvBandit]_vars
  BY StepBandit DEF LInv
<1> QED
  BY <1>1, LearningInvariant, PTL DEF Spec, BanditNeverRegresses

\* The cached calibration goes back only in the two windows between a read
\* lock and a write lock: a relabelling run writes a copy it took before the
\* cache moved on (routes/calibrate.rs), and the accumulator rebuilds the
\* ensemble from a rho read before it was patched (oracle/mod.rs); for any
\* number of calibration runs, tasks, oracle patches, crashes and failed loads.
THEOREM CalibrationForward == Spec => CalibrationMovesForward
<1>1. LInv /\ [Next]_vars => Forward
  BY StepCal DEF LInv
<1> QED
  BY <1>1, LearningInvariant, PTL DEF Spec, CalibrationMovesForward, Forward
=============================================================================
