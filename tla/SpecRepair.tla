----------------------------- MODULE SpecRepair -----------------------------
(***************************************************************************)
(* Repair of ambiguous constraint specs.  Two callers use it:              *)
(*                                                                         *)
(* - the task engine: verifier reasons that change from wave to wave add   *)
(*   to a check's scorecard; a card that crosses the threshold makes the   *)
(*   engine rewrite the check in a private in-memory source, reload the    *)
(*   corpus from it and restart the task;                                  *)
(* - callers of SpecRepairAdvisor on a source they share, in memory or     *)
(*   backed by a NATS bucket that several nodes use.                       *)
(*                                                                         *)
(* A step of the advisor is what it does between two awaits.  The lock of  *)
(* the override map is held for the compare-and-swap only.                 *)
(***************************************************************************)
EXTENDS ConstraintCorpus

CONSTANTS
    Directories,   \* constraint directories: sequences of files
    Requests,      \* what tasks ask for: [explicit, tags, query]
    Callers,       \* callers of the advisor on shared sources
    Nodes,         \* nodes with a source backed by the NATS bucket
    Rewrites,      \* texts the adapter proposes as candidates
    Reasons,       \* verifier reasons; different ones share no word
    ProbeRuns,     \* gap_k1.probe_runs
    Acceptance,    \* gap_k1.repair_acceptance_threshold, in percent
    ScoreThreshold,\* ambiguity_detection.score_threshold, in percent
    MaxWaves,      \* bound on the waves of one start of the task
    MaxRestarts,   \* bound on the restarts that are explored
    MaxFaults      \* bound on node restarts, failed reads and failed puts

\* A directory is listed as a sequence of files.
ASSUME DirectoriesAssumption == \A d \in Directories : d \in Seq(ToSet(d))

\* A request names its constraints in order.
ASSUME RequestsAssumption == \A r \in Requests : r.explicit \in Seq(ToSet(r.explicit))

ASSUME BoundsAssumption ==
    /\ Rewrites \subseteq Texts
    /\ ProbeRuns \in Nat \ {0} /\ Acceptance \in 0..100
    /\ ScoreThreshold \in 0..100
    /\ MaxWaves \in Nat /\ MaxRestarts \in Nat /\ MaxFaults \in Nat

Engine  == "engine"      \* the caller that is the task engine
Memory  == "memory"      \* a shared source without a bucket
Private == "private"     \* the engine's source, new for every repair
Sources == Nodes \cup {Memory, Private}
Dynamic == 0             \* DYNAMIC_ONLY_CHECK_IDX; checks count from 1
None    == "none"

\* The engine is no caller of a shared source, and only the nodes' sources
\* have a bucket.
ASSUME NamesAssumption == Engine \notin Callers /\ {Memory, Private} \cap Nodes = {}

VARIABLES
    dir,       \* the directory the process was started with
    conf,      \* ambiguity_detection.enabled and gap_k1.auto_repair_enabled
    pc,        \* where the task is
    corpus,    \* the task's constraint documents
    cards,     \* ambiguity_scorecards: <<id, check>> -> card
    wave,      \* retry_count
    last,      \* the hard violations' reasons of the last wave
    prev,      \* and of the wave before it
    signal,    \* the instability the controller reported: {} or one record
    restarts,  \* spec_ambiguous_restarts
    events,    \* ConstraintAmbiguityDetected events published
    inner,     \* the specs a source wraps
    override,  \* the override map of a source: id -> spec
    kv,        \* the bucket: version records and the latest pointer
    at,        \* where each caller of the advisor is
    job,       \* what it works on
    log,       \* history: successful creates, in order
    faults,    \* node restarts, failed reads and failed puts so far
    unsaved    \* history: the versions whose record could not be put

taskVars  == <<pc, corpus, cards, wave, last, prev, signal, restarts, events>>
storeVars == <<inner, override, kv>>
vars == <<dir, conf, taskVars, storeVars, at, job, log, faults, unsaved>>

AllCallers == Callers \cup {Engine}
NoJob == [src |-> Memory, id |-> None, idx |-> 1, expected |-> 0, text |-> {},
          spec |-> {}, read |-> {}, retry |-> FALSE, version |-> 0, ptr |-> 0, out |-> None]

Idle == [i \in {} |-> None]

\* The process starts with a directory; either a task runs on it or callers
\* share sources over it (the engine's source is its own, so the two never
\* meet).
Init ==
    /\ dir \in Directories
    /\ conf \in [detection : BOOLEAN, autoRepair : BOOLEAN]
    /\ pc \in {"idle", "off"}
    /\ pc = "off" => conf = [detection |-> FALSE, autoRepair |-> FALSE]
    /\ corpus = <<>> /\ cards = Idle /\ wave = 0 /\ last = Idle /\ prev = Idle
    /\ signal = {} /\ restarts = 0 /\ events = {}
    /\ inner = [s \in Sources |-> IF s = Private THEN <<>> ELSE LoadAll(dir)]
    /\ override = [s \in Sources |-> Idle]
    /\ kv = [version |-> Idle, latest |-> Idle]
    /\ at = [a \in AllCallers |-> "idle"]
    /\ job = [a \in AllCallers |-> NoJob]
    /\ log = <<>> /\ faults = 0 /\ unsaved = {}

-----------------------------------------------------------------------------
(* The task: waves and instability *)

\* submit_task resolves the corpus; the controller seeds the scorecards.
StartTask(request) ==
    /\ pc = "idle"
    /\ corpus' = Resolve(LoadCorpus(dir), request.explicit, request.tags, request.query)
    /\ cards' = SeedScorecards(corpus', conf.detection)
    /\ pc' = "wave"
    /\ UNCHANGED <<dir, conf, wave, last, prev, signal, restarts, events,
                   storeVars, at, job, log, faults, unsaved>>

HardIds == {d.id : d \in {e \in ToSet(corpus) : e.severity.kind = "Hard"}}

\* A wave prunes proposals; each violated hard constraint has a reason.
RunWave ==
    /\ pc = "wave"
    /\ \E violated \in SUBSET HardIds : \E r \in [violated -> Reasons] :
           last' = r
    /\ prev' = last
    /\ pc' = "decide"
    /\ UNCHANGED <<dir, conf, corpus, cards, wave, signal, restarts, events,
                   storeVars, at, job, log, faults, unsaved>>

\* find_instability: constraints whose reasons of the last two waves share
\* too few words.  The map's order decides which one is taken.
Unstable == {c \in DOMAIN last \cap DOMAIN prev : last[c] # prev[c]}

\* accumulate_ambiguity: the card with the best score among the constraint's
\* flagged checks, else the card that names no check.
StaticKeys(c) == {k \in DOMAIN cards : k[1] = c /\ k[2] # Dynamic}
CardKeys(c) ==
    IF StaticKeys(c) = {} THEN {<<c, Dynamic>>}
    ELSE {k \in StaticKeys(c) : \A l \in StaticKeys(c) : cards[l].score <= cards[k].score}
CurrentCard(k) == IF k \in DOMAIN cards THEN cards[k] ELSE Card(0, FALSE)
FreezeEvidence(card) ==
    [card EXCEPT !.score = AddScore(@, Weight("JaccardFreezeWave"))]
PutCard(k, card) == [l \in DOMAIN cards \cup {k} |-> IF l = k THEN card ELSE cards[l]]

\* AmbiguityScorecard::patch_mode.
Precise(k, card) == card.static /\ k[2] # Dynamic

\* Nothing to repair: the loop takes its other decisions; here it retries
\* until the waves are used up, or returns a proposal.
Retry ==
    \/ wave < MaxWaves /\ pc' = "wave" /\ wave' = wave + 1
    \/ wave >= MaxWaves /\ pc' = "exhausted" /\ UNCHANGED wave
    \/ pc' = "resolved" /\ UNCHANGED wave

NoInstability ==
    /\ pc = "decide" /\ Unstable = {}
    /\ Retry
    /\ UNCHANGED <<dir, conf, corpus, cards, last, prev, signal, restarts, events,
                   storeVars, at, job, log, faults, unsaved>>

\* With detection disabled the first check is blamed.
BlameFirstCheck ==
    /\ pc = "decide" /\ ~conf.detection
    /\ \E c \in Unstable : signal' = {[id |-> c, idx |-> 1, scored |-> FALSE]}
    /\ pc' = "signalled"
    /\ UNCHANGED <<dir, conf, corpus, cards, wave, last, prev, restarts, events,
                   storeVars, at, job, log, faults, unsaved>>

\* The card has fired before, or stays below the threshold.
AccumulateAmbiguity ==
    /\ pc = "decide" /\ conf.detection
    /\ \E c \in Unstable : \E k \in CardKeys(c) :
           LET card == FreezeEvidence(CurrentCard(k))
           IN  \/ CurrentCard(k).applied /\ UNCHANGED cards
               \/ /\ ~CurrentCard(k).applied /\ card.score < ScoreThreshold
                  /\ cards' = PutCard(k, card)
    /\ Retry
    /\ UNCHANGED <<dir, conf, corpus, last, prev, signal, restarts, events,
                   storeVars, at, job, log, faults, unsaved>>

\* The card crosses the threshold: a pinpointed check is reported for repair,
\* anything else is published as a diagnosis and the loop goes on.
FireCard ==
    /\ pc = "decide" /\ conf.detection
    /\ \E c \in Unstable : \E k \in CardKeys(c) :
           LET card == FreezeEvidence(CurrentCard(k))
           IN  /\ ~CurrentCard(k).applied /\ card.score >= ScoreThreshold
               /\ cards' = PutCard(k, [card EXCEPT !.applied = TRUE])
               /\ IF Precise(k, card)
                  THEN /\ signal' = {[id |-> c, idx |-> k[2], scored |-> TRUE]}
                       /\ pc' = "signalled"
                       /\ UNCHANGED <<wave, events>>
                  ELSE /\ events' = events \cup {[id |-> c, idx |-> {}, rewrite |-> {}]}
                       /\ Retry
                       /\ UNCHANGED signal
    /\ UNCHANGED <<dir, conf, corpus, last, prev, restarts, storeVars, at, job,
                   log, faults, unsaved>>

-----------------------------------------------------------------------------
(* The engine's repair handler *)

\* ConstraintAmbiguityDetected is published when the signal has evidence.
Publish(sig, rewrite) ==
    events' = events \cup (IF sig.scored
                           THEN {[id |-> sig.id, idx |-> {sig.idx}, rewrite |-> rewrite]}
                           ELSE {})

\* What the engine rebuilds of a document: the gates and the examples are left
\* out and the title stands for the guidance, for every constraint of the
\* corpus.
MinimalSpec(doc) ==
    [id |-> doc.id, severity |-> doc.severity, gates |-> {}, guidance |-> {doc.title},
     examples |-> {}, hint |-> doc.hint, checks |-> doc.checks, tags |-> doc.tags,
     words |-> doc.words, title |-> doc.title, version |-> doc.version]

\* The limit on restarts and auto_repair_enabled are looked at, but only an
\* event is published; the handler goes on.
RepairForbidden == restarts >= 1 \/ ~conf.autoRepair

\* Without an adapter the task fails.
NoRepairAdapter ==
    /\ pc = "signalled"
    /\ \E sig \in signal : Publish(sig, {})
    /\ pc' = "exhausted" /\ signal' = {}
    /\ UNCHANGED <<dir, conf, corpus, cards, wave, last, prev, restarts,
                   storeVars, at, job, log, faults, unsaved>>

\* The private source is built over the corpus and the advisor started.
StartEngineRepair ==
    /\ pc = "signalled" /\ restarts < MaxRestarts
    /\ \E sig \in signal :
           /\ IF RepairForbidden THEN Publish(sig, {}) ELSE UNCHANGED events
           /\ job' = [job EXCEPT ![Engine] =
                  [NoJob EXCEPT !.src = Private, !.id = sig.id, !.idx = sig.idx,
                                !.expected = DocOf(corpus, sig.id).version]]
    /\ inner' = [inner EXCEPT ![Private] =
                    [i \in DOMAIN corpus |-> MinimalSpec(corpus[i])]]
    /\ override' = [override EXCEPT ![Private] = Idle]
    /\ at' = [at EXCEPT ![Engine] = "generate"]
    /\ pc' = "repairing"
    /\ UNCHANGED <<dir, conf, corpus, cards, wave, last, prev, signal, restarts,
                   kv, log, faults, unsaved>>

\* ConstraintSource::load_all of a versioned source: the wrapped specs with
\* the overrides; the bucket is not asked.
LoadOverridden(s) ==
    [i \in DOMAIN inner[s] |->
        IF inner[s][i].id \in DOMAIN override[s] THEN override[s][inner[s][i].id]
        ELSE inner[s][i]]

\* Repaired: the corpus is recompiled from the source and the task restarted
\* with a new controller.
RestartTask ==
    /\ pc = "repairing" /\ at[Engine] = "done" /\ job[Engine].out = "repaired"
    /\ corpus' = LET specs == LoadOverridden(Private)
                 IN  [i \in DOMAIN specs |-> SpecDoc(specs[i])]
    /\ cards' = SeedScorecards(corpus', conf.detection)
    /\ \E sig \in signal : Publish(sig, job[Engine].text)
    /\ restarts' = restarts + 1
    /\ signal' = {} /\ wave' = 0 /\ last' = Idle /\ prev' = Idle
    /\ pc' = "wave"
    /\ at' = [at EXCEPT ![Engine] = "idle"]
    /\ job' = [job EXCEPT ![Engine] = NoJob]
    /\ UNCHANGED <<dir, conf, storeVars, log, faults, unsaved>>

\* A failed repair is tried again.
RepairTriedAgain ==
    /\ pc = "repairing" /\ at[Engine] = "done" /\ job[Engine].out = "failed"
    /\ pc' = "signalled"
    /\ UNCHANGED <<dir, conf, corpus, cards, wave, last, prev, signal, events, restarts,
                   storeVars, at, job, log, faults, unsaved>>

RepairFailed ==
    /\ pc = "repairing" /\ at[Engine] = "done" /\ job[Engine].out = "failed"
    /\ \E sig \in signal : Publish(sig, {})
    /\ pc' = "exhausted" /\ signal' = {}
    /\ at' = [at EXCEPT ![Engine] = "idle"]
    /\ job' = [job EXCEPT ![Engine] = NoJob]
    /\ UNCHANGED <<dir, conf, corpus, cards, wave, last, prev, restarts,
                   storeVars, log, faults, unsaved>>

-----------------------------------------------------------------------------
(* SpecRepairAdvisor::run on a versioned source *)

\* A caller takes a check of a spec it loaded with load_all.
CallAdvisor(a, s) ==
    /\ pc = "off" /\ at[a] = "idle"
    /\ \E spec \in ToSet(LoadOverridden(s)) : \E i \in DOMAIN spec.checks :
           job' = [job EXCEPT ![a] = [NoJob EXCEPT !.src = s, !.id = spec.id, !.idx = i,
                                                   !.expected = spec.version]]
    /\ at' = [at EXCEPT ![a] = "generate"]
    /\ UNCHANGED <<dir, conf, taskVars, storeVars, log, faults, unsaved>>

Finish(a, j, out) ==
    /\ at' = [at EXCEPT ![a] = "done"]
    /\ job' = [job EXCEPT ![a] = [j EXCEPT !.out = out]]

\* CoherenceProbe::run: the share of passing verdicts, or full marks when
\* half of the calls or more gave no verdict.
Consistency(p) == IF p.total < ProbeRuns \div 2 + 1 THEN 100 ELSE (p.pass * 100) \div p.total
Probes == {p \in [pass : 0..ProbeRuns, total : 0..ProbeRuns] : p.pass <= p.total}

\* The first candidate of the highest consistency, if that is above zero.
Best(cands, probe) ==
    {i \in DOMAIN cands : /\ Consistency(probe[i]) > 0
                          /\ \A k \in DOMAIN cands :
                                 \/ Consistency(probe[k]) < Consistency(probe[i])
                                 \/ Consistency(probe[k]) = Consistency(probe[i]) /\ i <= k}

\* What generation and probing come to: an accepted text, or none.
Accepted(cands, probe) ==
    {cands[i] : i \in {k \in Best(cands, probe) : Consistency(probe[k]) >= Acceptance}}
Proposals ==
    UNION {{Accepted(c, p) : c \in [1..n -> Rewrites], p \in [1..n -> Probes]} :
           n \in 0..Cardinality(Rewrites)}

\* Candidates are generated and probed; the adapter calls touch no source.
\* Without an accepted one, or when the adapter fails, the repair fails.
GenerateCandidates(a) ==
    /\ at[a] = "generate"
    /\ \E accepted \in Proposals :
           IF accepted = {} THEN Finish(a, job[a], "failed")
           ELSE /\ job' = [job EXCEPT ![a].text = accepted]
                /\ at' = [at EXCEPT ![a] = "load"]
    /\ UNCHANGED <<dir, conf, taskVars, storeVars, log, faults, unsaved>>

\* The advisor got the spec: rewrite the check, or when it reloads after a
\* conflict, give way to a newer version.
RewriteNext(j, spec) ==
    [spec EXCEPT !.checks[(j.idx % Len(spec.checks)) + 1] = CHOOSE x \in j.text : TRUE]
RewriteOf(j, spec) == [spec EXCEPT !.checks[j.idx] = CHOOSE x \in j.text : TRUE]

GotSpec(a, spec) ==
    LET j == job[a]
    IN  \/ /\ ~j.retry /\ j.idx \in DOMAIN spec.checks
           /\ at' = [at EXCEPT ![a] = "create"]
           /\ job' = [job EXCEPT ![a].spec = {RewriteOf(j, spec)}]
        \/ /\ ~j.retry /\ j.idx \notin DOMAIN spec.checks
           /\ Finish(a, j, "failed")
        \/ /\ j.retry /\ spec.version > j.expected
           /\ Finish(a, [j EXCEPT !.version = spec.version], "repaired")
        \/ /\ j.retry /\ spec.version <= j.expected
           /\ at' = [at EXCEPT ![a] = "create"]
           /\ job' = [job EXCEPT ![a].expected = spec.version]

\* load_latest_versioned: the override, else the bucket, else the wrapped
\* spec.
LoadLatest(a) ==
    LET s == job[a].src   id == job[a].id
    IN  /\ at[a] = "load"
        /\ CASE id \in DOMAIN override[s] -> GotSpec(a, override[s][id])
             [] id \notin DOMAIN override[s] /\ s \in Nodes ->
                    /\ at' = [at EXCEPT ![a] = "pointer"]
                    /\ UNCHANGED job
             [] OTHER -> GotSpec(a, DocOf(inner[s], id))
        /\ UNCHANGED <<dir, conf, taskVars, storeVars, log, faults, unsaved>>

\* The pointer and then the record it names are read, with an await before
\* each; without either the wrapped spec is used.
ReadPointer(a) ==
    LET s == job[a].src   id == job[a].id
    IN  /\ at[a] = "pointer"
        /\ IF id \in DOMAIN kv.latest
           THEN /\ at' = [at EXCEPT ![a] = "record"]
                /\ job' = [job EXCEPT ![a].ptr = kv.latest[id]]
           ELSE GotSpec(a, DocOf(inner[s], id))
        /\ UNCHANGED <<dir, conf, taskVars, storeVars, log, faults, unsaved>>

ReadRecord(a) ==
    LET s == job[a].src   id == job[a].id   key == <<id, job[a].ptr>>
    IN  /\ at[a] = "record"
        /\ IF key \in DOMAIN kv.version
           THEN /\ at' = [at EXCEPT ![a] = "warm"]
                /\ job' = [job EXCEPT ![a].read = {kv.version[key]}]
           ELSE GotSpec(a, DocOf(inner[s], id))
        /\ UNCHANGED <<dir, conf, taskVars, storeVars, log, faults, unsaved>>

\* Either read fails, or gives what does not decode: the wrapped spec again.
ReadFails(a) ==
    /\ at[a] \in {"pointer", "record"} /\ faults < MaxFaults
    /\ faults' = faults + 1
    /\ GotSpec(a, DocOf(inner[job[a].src], job[a].id))
    /\ UNCHANGED <<dir, conf, taskVars, storeVars, log, unsaved>>

\* The record read replaces whatever the override map holds by now.
WarmCache(a) ==
    LET s == job[a].src   id == job[a].id
    IN  /\ at[a] = "warm"
        /\ \E spec \in job[a].read :
               /\ override' = [override EXCEPT ![s] =
                      [i \in DOMAIN override[s] \cup {id} |->
                          IF i = id THEN spec ELSE override[s][i]]]
               /\ GotSpec(a, spec)
        /\ UNCHANGED <<dir, conf, taskVars, inner, kv, log, faults, unsaved>>

\* The version a create is compared with: the override's or the wrapped one.
CurrentVersion(s, id) ==
    IF id \in DOMAIN override[s] THEN override[s][id].version ELSE DocOf(inner[s], id).version

NotOlder(s, id, expected) == CurrentVersion(s, id) >= expected
Compared(s, id, expected) == CurrentVersion(s, id) = expected

\* create_next_version up to the unlock: compare and insert.
CreateNextVersion(a) ==
    LET j == job[a]
    IN  /\ at[a] = "create"
        /\ Compared(j.src, j.id, j.expected)
        /\ \E spec \in j.spec :
               LET new == [spec EXCEPT !.version = j.expected + 1]
               IN  /\ override' = [override EXCEPT ![j.src] =
                          [i \in DOMAIN override[j.src] \cup {j.id} |->
                              IF i = j.id THEN new ELSE override[j.src][i]]]
                   /\ IF j.src \in Nodes
                      THEN /\ at' = [at EXCEPT ![a] = "put_version"]
                           /\ job' = [job EXCEPT ![a].spec = {new},
                                                 ![a].version = j.expected + 1]
                      ELSE Finish(a, [j EXCEPT !.version = j.expected + 1], "repaired")
        /\ log' = IF a = Engine THEN log
                  ELSE Append(log, [src |-> j.src, id |-> j.id, idx |-> j.idx, text |-> j.text])
        /\ UNCHANGED <<dir, conf, taskVars, inner, kv, faults, unsaved>>

\* The first conflict reloads, the second one fails the repair.
VersionConflict(a) ==
    LET j == job[a]
    IN  /\ at[a] = "create"
        /\ ~Compared(j.src, j.id, j.expected)
        /\ IF j.retry THEN Finish(a, j, "failed")
           ELSE /\ at' = [at EXCEPT ![a] = "load"]
                /\ job' = [job EXCEPT ![a].retry = TRUE]
        /\ UNCHANGED <<dir, conf, taskVars, storeVars, log, faults, unsaved>>

\* The record and the pointer are put one after the other after the unlock;
\* an error of either is ignored.
Put(key, value, f) == [k \in DOMAIN f \cup {key} |-> IF k = key THEN value ELSE f[k]]

\* The record stored under the version that was read.
PutVersionUnderOldKey(a) ==
    LET j == job[a]
    IN  /\ at[a] = "put_version"
        /\ \E spec \in j.spec : kv' = [kv EXCEPT !.version = Put(<<j.id, j.version - 1>>, spec, @)]
        /\ at' = [at EXCEPT ![a] = "put_latest"]
        /\ UNCHANGED <<dir, conf, taskVars, inner, override, job, log, faults, unsaved>>

PutVersion(a) ==
    LET j == job[a]
    IN  /\ at[a] = "put_version"
        /\ \E spec \in j.spec : kv' = [kv EXCEPT !.version = Put(<<j.id, j.version>>, spec, @)]
        /\ at' = [at EXCEPT ![a] = "put_latest"]
        /\ UNCHANGED <<dir, conf, taskVars, inner, override, job, log, faults, unsaved>>

PutLatest(a) ==
    LET j == job[a]
    IN  /\ at[a] = "put_latest"
        /\ kv' = [kv EXCEPT !.latest = Put(j.id, j.version, @)]
        /\ Finish(a, j, "repaired")
        /\ UNCHANGED <<dir, conf, taskVars, inner, override, log, faults, unsaved>>

PutFails(a) ==
    /\ at[a] \in {"put_version", "put_latest"} /\ faults < MaxFaults
    /\ faults' = faults + 1
    /\ IF at[a] = "put_version"
       THEN /\ at' = [at EXCEPT ![a] = "put_latest"]
            /\ unsaved' = unsaved \cup {<<job[a].id, job[a].version>>}
            /\ UNCHANGED job
       ELSE Finish(a, job[a], "repaired") /\ UNCHANGED unsaved
    /\ UNCHANGED <<dir, conf, taskVars, storeVars, log>>

\* A node restarts: its overrides and its callers are gone, the bucket stays.
RestartNode(n) ==
    /\ pc = "off" /\ faults < MaxFaults
    /\ faults' = faults + 1
    /\ override' = [override EXCEPT ![n] = Idle]
    /\ at' = [a \in AllCallers |->
                 IF job[a].src = n /\ at[a] \notin {"idle", "done"} THEN "dead" ELSE at[a]]
    /\ UNCHANGED <<dir, conf, taskVars, inner, kv, job, log, unsaved>>

-----------------------------------------------------------------------------
\* The steps of the advisor but for the model calls, and of the handler but
\* for the wave.
AdvisorOwn(a) ==
    \/ LoadLatest(a) \/ ReadPointer(a) \/ ReadRecord(a) \/ ReadFails(a)
    \/ WarmCache(a) \/ CreateNextVersion(a) \/ VersionConflict(a)
    \/ PutVersion(a) \/ PutLatest(a) \/ PutFails(a)

Advisor(a) == GenerateCandidates(a) \/ AdvisorOwn(a)

HandlerOwn ==
    \/ NoInstability \/ BlameFirstCheck \/ AccumulateAmbiguity \/ FireCard
    \/ NoRepairAdapter \/ StartEngineRepair \/ RestartTask \/ RepairFailed

Handler == RunWave \/ HandlerOwn

Next ==
    \/ \E r \in Requests : StartTask(r)
    \/ Handler
    \/ \E a \in AllCallers : Advisor(a)
    \/ \E a \in Callers, s \in Sources \ {Private} : CallAdvisor(a, s)
    \/ \E n \in Nodes : RestartNode(n)

\* Fair are the steps that wait for no model: the adapters' calls carry no
\* timeout here, so what depends on their answer says so.
Spec ==
    /\ Init /\ [][Next]_vars
    /\ WF_vars(HandlerOwn)
    /\ \A a \in AllCallers : WF_vars(AdvisorOwn(a))
-----------------------------------------------------------------------------
(* Properties *)

\* A rewrite that was created in a shared in-memory source is in the spec
\* until the same check is rewritten again: two advisors that load the same
\* version never undo each other's checks (create_next_version, and the reload
\* that gives way to a newer version).
NoLostRepair ==
    \A i \in DOMAIN log : log[i].src = Memory =>
        \/ log[i].text = {override[Memory][log[i].id].checks[log[i].idx]}
        \/ \E k \in (i + 1)..Len(log) :
               log[k].src = Memory /\ log[k].id = log[i].id /\ log[k].idx = log[i].idx

\* The pointer to the latest version names a stored record of that very
\* version, whatever creates, restarts, failed reads and failed puts of
\* several nodes overlap; only a pointer to a version whose own record could
\* not be put may name none.
PointerNamesRecord ==
    \A id \in DOMAIN kv.latest :
        LET key == <<id, kv.latest[id]>>
        IN  IF key \in DOMAIN kv.version THEN kv.version[key].version = kv.latest[id]
            ELSE key \in unsaved

\* A restart after a repair changes the text of one check only, the reported
\* one, and with detection enabled the static scanner had confirmed it
\* (patch_mode); the constraint's version moves by one.
RestartIsPrecise ==
    [][restarts' # restarts =>
          \E sig \in signal : \A i \in DOMAIN corpus :
              LET old == corpus[i]   new == corpus'[i]
              IN  /\ new.id = old.id /\ DOMAIN new.checks = DOMAIN old.checks
                  /\ \A k \in DOMAIN old.checks :
                         new.checks[k] # old.checks[k] => old.id = sig.id /\ k = sig.idx
                  /\ old.id = sig.id =>
                         /\ new.checks[sig.idx] \in Rewrites
                         /\ new.version = old.version + 1
                         /\ conf.detection => ScanCheck(old, sig.idx) # {}]_vars

\* If the adapter answers the calls that generate and probe candidates, a
\* reported ambiguity ends in a restart or in the exhaustion handler, and an
\* advisor's call returns unless its node dies.
RepairEnds ==
    (\A a \in AllCallers : WF_vars(GenerateCandidates(a))) =>
        /\ pc = "signalled" ~> pc \in {"wave", "exhausted"}
        /\ \A a \in Callers : at[a] = "generate" ~> at[a] \in {"done", "dead"}

\* The engine's handler repairs at most once and only when auto_repair_enabled
\* is set: the comment above the guard says "cap restarts at 1 and respect
\* auto_repair_enabled flag".
RepairRespectsLimit == pc = "repairing" => ~RepairForbidden
=============================================================================
