--------------------------- MODULE Journal_proofs ---------------------------
(***************************************************************************)
(* What a replay may rely on, for any number of explorers and tenants, any *)
(* snapshot interval and any bound on faults: a replay that reads its log  *)
(* to the end reports a concluded task as concluded, and forgets none of   *)
(* the verified proposals the log held when it began.                      *)
(***************************************************************************)
EXTENDS Journal, FiniteSetTheorems, FunctionTheorems, TLAPS

Places == {"new", "engine", "publishing", "failing", "done", "lost", "resumable"}
SnapshotType == [seq : Nat, state : TaskState]
ReaderType == [pc : {"idle", "tail", "decide"}, tenant : Tenants, state : TaskState,
               from : Nat, pos : Nat, seen : Nat, began : Nat,
               ended : {"no", "terminal", "drained", "slow"}]

JType ==
    /\ owner \in Tenants /\ job \in Places
    /\ entry \subseteq TaskState
    /\ queue \in Seq(Events) /\ log \in Seq(Events)
    /\ writes \subseteq SnapshotType /\ snapshot \subseteq SnapshotType
    /\ reader \in ReaderType

\* The conclusions a pipeline writes, and the first k events being none.
Concl == {"MergeResolved", "TaskFailed"}
Free(l, k) == \A i \in 1..k : l[i] \notin Concl

\* The verified proposals among the first k events.
Scores(l, k) == {i \in 1..k : l[i] = "Scored"}
Count(l, k) == Cardinality(Scores(l, k))

\* The pipeline's conclusion is the last event it publishes, and once it is in
\* the log nothing is noted any more ...
QueueConcl ==
    /\ \A i \in 1..Len(queue) : queue[i] \in Concl => i = Len(queue)
    /\ queue # <<>> => job \in {"publishing", "failing"}
    /\ Free(log, Len(log)) \/ (queue = <<>> /\ job \notin {"new", "engine"})

\* ... so no snapshot reaches it ...
SnapConcl ==
    \A w \in writes \cup snapshot : w.seq <= Len(log) /\ Free(log, w.seq)

\* ... and whoever reads on from a snapshot reads the conclusion.
ReaderConcl ==
    /\ reader.began <= Len(log)
    /\ reader.pc = "tail" => reader.pos \in 1..(Len(log) + 1) /\ Free(log, reader.pos - 1)
    /\ reader.pc = "decide" /\ reader.ended = "terminal"
          => reader.state.phase \in {"Resolved", "Failed"}
    /\ reader.pc = "decide" /\ reader.ended = "drained" => Free(log, reader.began)

\* The live entry counts the proposals that are published and those still in
\* the queue (a resumed run, whose entry counts none, has nothing left to
\* note) ...
LiveCount ==
    /\ \A s \in entry : s.tenant = Default
    /\ job \notin {"new", "lost", "resumable"} => entry # {}
    /\ job \in {"new", "engine"} => Count(log, Len(log)) = 0
    /\ (job = "publishing" /\ \E i \in 1..Len(queue) : queue[i] \in Noted)
         => \A s \in entry : s.valid >= Count(log, Len(log)) + Count(queue, Len(queue))

\* ... so a snapshot of it counts every one up to its sequence number ...
SnapCount ==
    \A w \in writes \cup snapshot :
       w.state.tenant = Default /\ w.state.valid >= Count(log, w.seq)

\* ... and a replay every one up to where it has read.
ReaderCount ==
    /\ reader.state.tenant = Default
    /\ reader.pc = "tail" => reader.state.valid >= Count(log, reader.pos - 1)
    /\ reader.pc = "decide" /\ reader.ended = "drained"
         => reader.state.valid >= Count(log, reader.began)

ConclusionInv == QueueConcl /\ SnapConcl /\ ReaderConcl
CountInv == owner = Default => LiveCount /\ SnapCount /\ ReaderCount
JInv == JType /\ ConclusionInv /\ CountInv

-----------------------------------------------------------------------------
(* The operators *)

LEMMA NewStateType == \A t \in Tenants : /\ NewState(t) \in TaskState
                                         /\ NewState(t).tenant = t /\ NewState(t).valid = 0
  BY DEF NewState, TaskState, Phase

\* An event keeps the tenant, forgets no proposal, and a terminal one
\* concludes.
LEMMA ApplyEvent ==
  ASSUME NEW s \in TaskState, NEW e \in Events
  PROVE  /\ Apply(s, e) \in TaskState
         /\ Apply(s, e).tenant = s.tenant
         /\ e \in Terminal => Apply(s, e).phase \in {"Resolved", "Failed"}
         /\ Apply(s, e).valid >= s.valid
         /\ e = "Scored" => Apply(s, e).valid = s.valid + 1
<1>1. \A u \in TaskState, p \in Phase :
         LET v == [u EXCEPT !.phase = p] IN
         v \in TaskState /\ v.tenant = u.tenant /\ v.phase = p /\ v.valid = u.valid
         /\ v.completed = u.completed
  BY DEF TaskState
<1>2. \A u \in TaskState : u.valid \in Nat /\ u.completed \in Nat
  BY DEF TaskState
<1>3. CASE e = "Scored"
  <2> DEFINE u == [s EXCEPT !.phase = "Auditor"]
  <2>1. u \in TaskState /\ u.tenant = s.tenant /\ u.valid = s.valid
    BY <1>1 DEF Phase
  <2>2. Apply(s, e) = [u EXCEPT !.valid = s.valid + 1]
    BY <1>3 DEF Apply
  <2> HIDE DEF u
  <2> QED
    BY <1>2, <1>3, <2>1, <2>2 DEF TaskState, Terminal
<1>4. CASE e = "ProposalFailed"
  <2> DEFINE u == [s EXCEPT !.phase = "Generation"]
  <2>1. u \in TaskState /\ u.tenant = s.tenant /\ u.valid = s.valid
    BY <1>1 DEF Phase
  <2>2. Apply(s, e) = [u EXCEPT !.completed = s.completed + 1]
    BY <1>4 DEF Apply
  <2> HIDE DEF u
  <2> QED
    BY <1>2, <1>4, <2>1, <2>2 DEF TaskState, Terminal
<1>5. CASE e \in {"Complexity", "Rejected", "Selection", "MergeResolved", "ManualMerge", "TaskFailed"}
  <2>1. \E p \in Phase : /\ Apply(s, e) = [s EXCEPT !.phase = p]
                         /\ e \in Terminal => p \in {"Resolved", "Failed"}
    BY <1>5 DEF Apply, Phase, Terminal
  <2> QED
    BY <1>1, <1>2, <1>5, <2>1
<1>6. CASE e \in {"BranchPruned", "Attribution", "Diagnostic"}
  BY <1>2, <1>6 DEF Apply, Terminal
<1> QED
  BY <1>3, <1>4, <1>5, <1>6 DEF Events, Terminal

\* The reader before a request is well-typed.
LEMMA NoReaderType == /\ NoReader \in ReaderType /\ NoReader.pc = "idle"
                      /\ NoReader.state.tenant = Default /\ NoReader.began = 0
<1>1. Default \in Tenants /\ NewState(Default) \in TaskState /\ NewState(Default).tenant = Default
  BY NewStateType, JournalAssumption
<1> QED
  BY <1>1 DEF NoReader, ReaderType

\* Copies of an event that is no conclusion.
LEMMA CopiesShape ==
  ASSUME NEW e \in Events \ Concl, NEW n \in Nat
  PROVE  Copies(e, n) \in Seq(Events) /\ Len(Copies(e, n)) = n /\ Free(Copies(e, n), n)
         /\ \A i \in 1..n : Copies(e, n)[i] = e
BY DEF Copies, Free

\* A sequence without a conclusion, before another one.
LEMMA FreeConcat ==
  ASSUME NEW s \in Seq(Events), NEW t \in Seq(Events), Free(s, Len(s)),
         \A i \in 1..Len(t) : t[i] \in Concl => i = Len(t)
  PROVE  /\ s \o t \in Seq(Events) /\ Len(s \o t) = Len(s) + Len(t)
         /\ \A i \in 1..Len(s \o t) : (s \o t)[i] \in Concl => i = Len(s \o t)
         /\ Free(t, Len(t)) => Free(s \o t, Len(s \o t))
BY DEF Free

\* The first events of a log do not change.
LEMMA LogGrows ==
  ASSUME NEW l \in Seq(Events), NEW e \in Events, NEW m, m \in {l, Append(l, e)},
         NEW k \in 0..Len(l)
  PROVE  /\ Free(l, k) <=> Free(m, k)
         /\ Count(l, k) = Count(m, k)
         /\ m \in Seq(Events) /\ Len(m) >= Len(l)
<1>1. \A i \in 1..k : m[i] = l[i]
  OBVIOUS
<1>2. Scores(l, k) = Scores(m, k)
  BY <1>1 DEF Scores
<1> QED
  BY <1>1, <1>2 DEF Free, Count

\* The scored events of a prefix can be counted.
LEMMA ScoresFinite ==
  ASSUME NEW l, NEW k \in Nat
  PROVE  IsFiniteSet(Scores(l, k)) /\ Count(l, k) \in Nat
<1>1. IsFiniteSet(1..k)
  BY FS_Interval
<1>2. Scores(l, k) \in SUBSET (1..k)
  BY DEF Scores
<1>3. IsFiniteSet(Scores(l, k))
  BY <1>1, <1>2, FS_Subset
<1> QED
  BY <1>3, FS_CardinalityType DEF Count

\* The empty prefix has none.
LEMMA CountNone == ASSUME NEW l PROVE Count(l, 0) = 0
<1>1. Scores(l, 0) = {}
  BY DEF Scores
<1> QED
  BY <1>1, FS_EmptySet DEF Count

\* One event more.
LEMMA CountNext ==
  ASSUME NEW l, NEW k \in Nat
  PROVE  Count(l, k + 1) = IF l[k + 1] = "Scored" THEN Count(l, k) + 1 ELSE Count(l, k)
<1>1. IsFiniteSet(Scores(l, k)) /\ k + 1 \notin Scores(l, k)
  BY ScoresFinite DEF Scores
<1>2. CASE l[k + 1] = "Scored"
  <2>1. Scores(l, k + 1) = Scores(l, k) \cup {k + 1}
    BY <1>2 DEF Scores
  <2> QED
    BY <1>1, <1>2, <2>1, FS_AddElement DEF Count
<1>3. CASE l[k + 1] # "Scored"
  <2>1. Scores(l, k + 1) = Scores(l, k)
    BY <1>3 DEF Scores
  <2> QED
    BY <1>3, <2>1 DEF Count
<1> QED
  BY <1>2, <1>3

\* The head of a queue leaves it.
LEMMA CountTail ==
  ASSUME NEW q \in Seq(Events), q # <<>>
  PROVE  /\ Tail(q) \in Seq(Events) /\ Len(Tail(q)) = Len(q) - 1
         /\ \A i \in 1..Len(Tail(q)) : Tail(q)[i] = q[i + 1]
         /\ Head(q) = "Scored" => Count(Tail(q), Len(Tail(q))) + 1 <= Count(q, Len(q))
         /\ Count(Tail(q), Len(Tail(q))) <= Count(q, Len(q))
<1>1. /\ Tail(q) \in Seq(Events) /\ Len(Tail(q)) = Len(q) - 1 /\ Len(q) \in Nat \ {0}
      /\ \A i \in 1..Len(Tail(q)) : Tail(q)[i] = q[i + 1]
  OBVIOUS
<1> DEFINE S == Scores(Tail(q), Len(Tail(q)))
           T == Scores(q, Len(q))
           f == [i \in S |-> i + 1]
<1>2. IsFiniteSet(S) /\ IsFiniteSet(T) /\ IsFiniteSet(T \ {1})
      /\ Cardinality(S) \in Nat /\ Cardinality(T) \in Nat
  <2>1. Len(Tail(q)) \in Nat /\ Len(q) \in Nat
    BY <1>1
  <2>2. IsFiniteSet(S) /\ IsFiniteSet(T) /\ Cardinality(S) \in Nat /\ Cardinality(T) \in Nat
    BY <2>1, ScoresFinite DEF Count
  <2> HIDE DEF S, T, f
  <2> QED
    BY <2>2, FS_RemoveElement
<1>3. f \in Injection(S, T \ {1})
  BY <1>1 DEF Injection, IsInjective, Scores
<1>4. Cardinality(S) <= Cardinality(T \ {1})
  <2> HIDE DEF S, T, f
  <2> QED
    BY <1>2, <1>3, FS_Injection
<1>5. Head(q) = "Scored" => 1 \in T
  BY <1>1 DEF Scores
<1>6. Cardinality(T \ {1}) = IF 1 \in T THEN Cardinality(T) - 1 ELSE Cardinality(T)
  <2> HIDE DEF S, T, f
  <2> QED
    BY <1>2, FS_RemoveElement
<1> QED
  BY <1>1, <1>2, <1>4, <1>5, <1>6 DEF Count

\* The events of a run: the conclusion is the last, and no more proposals are
\* published as verified than the engine counted.
LEMMA NoScores ==
  ASSUME NEW s \in Seq(Events), NEW t \in Seq(Events), \A i \in 1..Len(t) : t[i] # "Scored"
  PROVE  Scores(s \o t, Len(s \o t)) = Scores(s, Len(s))
BY DEF Scores

\* What a successful run publishes: the conclusion comes last, and no more
\* scored events than passing proposals.
LEMMA RunEventsShape ==
  ASSUME NEW p \in 0..Explorers, NEW f \in 0..Explorers, NEW a \in 1..p, p + f <= Explorers
  PROVE  /\ RunEvents(p, f, a) \in Seq(Events)
         /\ \A i \in 1..Len(RunEvents(p, f, a)) :
               RunEvents(p, f, a)[i] \in Concl => i = Len(RunEvents(p, f, a))
         /\ RunEvents(p, f, a) # <<>>
         /\ Count(RunEvents(p, f, a), Len(RunEvents(p, f, a))) <= p
<1>0. Explorers \in Nat /\ p \in Nat /\ f \in Nat /\ a \in Nat
      /\ Explorers - p - f \in Nat /\ f + p - a \in Nat
  BY JournalAssumption
<1> DEFINE s0 == <<"Complexity">>
           c1 == Copies("Scored", p)
           c2 == Copies("Rejected", f)
           c3 == Copies("ProposalFailed", Explorers - p - f)
           c4 == Copies("BranchPruned", f + p - a)
           c5 == <<"Selection", "Attribution", "Diagnostic", "MergeResolved">>
           s1 == s0 \o c1
           s2 == s1 \o c2
           s3 == s2 \o c3
           s4 == s3 \o c4
           s5 == s4 \o c5
<1>1. /\ c1 \in Seq(Events) /\ Len(c1) = p /\ Free(c1, Len(c1)) /\ \A i \in 1..p : c1[i] = "Scored"
      /\ c2 \in Seq(Events) /\ Free(c2, Len(c2)) /\ \A i \in 1..Len(c2) : c2[i] # "Scored"
      /\ c3 \in Seq(Events) /\ Free(c3, Len(c3)) /\ \A i \in 1..Len(c3) : c3[i] # "Scored"
      /\ c4 \in Seq(Events) /\ Free(c4, Len(c4)) /\ \A i \in 1..Len(c4) : c4[i] # "Scored"
  <2>1. {"Scored", "Rejected", "ProposalFailed", "BranchPruned"} \subseteq Events \ Concl
    BY DEF Events, Terminal, Concl
  <2> QED
    BY <1>0, <2>1, CopiesShape
<1>2. /\ s0 \in Seq(Events) /\ Len(s0) = 1 /\ s0[1] = "Complexity" /\ Free(s0, Len(s0))
  BY DEF Events, Free, Concl
<1>3. /\ c5 \in Seq(Events) /\ Len(c5) = 4 /\ \A i \in 1..Len(c5) : c5[i] \in Concl => i = Len(c5)
      /\ \A i \in 1..Len(c5) : c5[i] # "Scored"
  <2>1. c5[1] = "Selection" /\ c5[2] = "Attribution" /\ c5[3] = "Diagnostic"
        /\ c5[4] = "MergeResolved" /\ Len(c5) = 4
    OBVIOUS
  <2> QED
    BY <2>1 DEF Events, Terminal, Concl
<1> HIDE DEF s0, c1, c2, c3, c4, c5
<1>4. s1 \in Seq(Events) /\ Len(s1) = p + 1 /\ Free(s1, Len(s1)) /\ Scores(s1, Len(s1)) \subseteq 2..(p + 1)
  <2>0. \A i \in 1..Len(c1) : c1[i] \in Concl => i = Len(c1)
    BY <1>1 DEF Free
  <2>1. s1 \in Seq(Events) /\ Len(s1) = Len(s0) + Len(c1) /\ Free(s1, Len(s1))
    BY <1>1, <1>2, <2>0, FreeConcat
  <2>2. s1[1] = "Complexity"
    <3>1. \A x, y \in Seq(Events) : \A i \in 1..Len(x) : (x \o y)[i] = x[i]
      OBVIOUS
    <3>2. 1 \in 1..Len(s0)
      BY <1>2
    <3>3. (s0 \o c1)[1] = s0[1]
      BY <1>1, <1>2, <3>1, <3>2
    <3> QED
      BY <1>2, <3>3
  <2> HIDE DEF s1
  <2> QED
    BY <1>0, <1>1, <1>2, <2>1, <2>2 DEF Scores
<1>5. s2 \in Seq(Events) /\ Free(s2, Len(s2)) /\ Scores(s2, Len(s2)) = Scores(s1, Len(s1))
  <2> HIDE DEF s1
  <2> QED
    BY <1>1, <1>4, FreeConcat, NoScores DEF Free
<1>6. s3 \in Seq(Events) /\ Free(s3, Len(s3)) /\ Scores(s3, Len(s3)) = Scores(s2, Len(s2))
  <2> HIDE DEF s2
  <2> QED
    BY <1>1, <1>5, FreeConcat, NoScores DEF Free
<1>7. s4 \in Seq(Events) /\ Free(s4, Len(s4)) /\ Scores(s4, Len(s4)) = Scores(s3, Len(s3))
  <2> HIDE DEF s3
  <2> QED
    BY <1>1, <1>6, FreeConcat, NoScores DEF Free
<1>8. /\ s5 \in Seq(Events) /\ Len(s5) >= 4 /\ Scores(s5, Len(s5)) = Scores(s4, Len(s4))
      /\ \A i \in 1..Len(s5) : s5[i] \in Concl => i = Len(s5)
  <2> HIDE DEF s4
  <2>1. Len(s5) = Len(s4) + Len(c5) /\ s5 \in Seq(Events)
        /\ \A i \in 1..Len(s5) : s5[i] \in Concl => i = Len(s5)
    BY <1>3, <1>7, FreeConcat
  <2>2. Scores(s5, Len(s5)) = Scores(s4, Len(s4))
    BY <1>3, <1>7, NoScores
  <2> HIDE DEF s5
  <2> QED
    BY <1>3, <1>7, <2>1, <2>2
<1>9. Count(s5, Len(s5)) <= p
  <2>1. IsFiniteSet(2..(p + 1)) /\ Cardinality(2..(p + 1)) = p
    <3>1. 2 \in Int /\ p + 1 \in Int
      BY <1>0
    <3>2. Cardinality(2..(p + 1)) = IF 2 > p + 1 THEN 0 ELSE (p + 1) - 2 + 1
      BY <3>1, FS_Interval
    <3>3. IsFiniteSet(2..(p + 1))
      BY <3>1, FS_Interval
    <3> QED
      BY <1>0, <3>2, <3>3
  <2>2. Scores(s5, Len(s5)) \in SUBSET (2..(p + 1))
    BY <1>4, <1>5, <1>6, <1>7, <1>8
  <2>3. Cardinality(Scores(s5, Len(s5))) <= Cardinality(2..(p + 1))
    BY <2>1, <2>2, FS_Subset
  <2> QED
    BY <2>1, <2>3 DEF Count
<1>10. RunEvents(p, f, a) = s5
  BY DEF RunEvents, s0, c1, c2, c3, c4, c5
<1> HIDE DEF s5
<1>11. s5 # <<>>
  BY <1>8
<1> QED
  BY <1>8, <1>9, <1>10, <1>11

\* What a failed run publishes: the conclusion comes last.
LEMMA FailureEvents ==
  ASSUME NEW p \in Nat, NEW f \in Nat
  PROVE  LET q == Copies("Scored", p) \o Copies("Rejected", f) \o <<"TaskFailed">>
         IN  /\ q \in Seq(Events) /\ q # <<>>
             /\ \A i \in 1..Len(q) : q[i] \in Concl => i = Len(q)
<1> DEFINE c1 == Copies("Scored", p)
           c2 == Copies("Rejected", f)
           c3 == <<"TaskFailed">>
           s2 == c1 \o c2
           s3 == s2 \o c3
<1>1. /\ c1 \in Seq(Events) /\ Free(c1, Len(c1)) /\ c2 \in Seq(Events) /\ Free(c2, Len(c2))
  <2>1. {"Scored", "Rejected"} \subseteq Events \ Concl
    BY DEF Events, Terminal, Concl
  <2> QED
    BY <2>1, CopiesShape
<1>2. c3 \in Seq(Events) /\ Len(c3) = 1 /\ \A i \in 1..Len(c3) : c3[i] \in Concl => i = Len(c3)
  BY DEF Events, Terminal
<1> HIDE DEF c1, c2, c3
<1>3. s2 \in Seq(Events) /\ Free(s2, Len(s2))
  BY <1>1, FreeConcat DEF Free
<1> HIDE DEF s2
<1>4. s3 \in Seq(Events) /\ Len(s3) = Len(s2) + Len(c3) /\ \A i \in 1..Len(s3) : s3[i] \in Concl => i = Len(s3)
  BY <1>2, <1>3, FreeConcat
<1>5. s3 # <<>>
  <2> HIDE DEF s3
  <2> QED
    BY <1>2, <1>3, <1>4
<1> QED
  BY <1>4, <1>5 DEF s2, c1, c2, c3

\* Marking changes phases only.
LEMMA Marked ==
  ASSUME entry \subseteq TaskState, NEW p \in Phase, Mark(p)
  PROVE  /\ entry' \subseteq TaskState /\ (entry # {} => entry' # {})
         /\ \A s \in entry' : \E u \in entry : s.tenant = u.tenant /\ s.valid = u.valid
<1>1. \A u \in TaskState : LET v == [u EXCEPT !.phase = p] IN
         v \in TaskState /\ v.tenant = u.tenant /\ v.valid = u.valid
  BY DEF TaskState
<1>2. entry' = {[s EXCEPT !.phase = p] : s \in entry}
  BY DEF Mark
<1>3. \A s \in entry' : \E u \in entry : s = [u EXCEPT !.phase = p]
  BY <1>2
<1>4. ASSUME NEW s \in entry'
      PROVE  s \in TaskState /\ \E u \in entry : s.tenant = u.tenant /\ s.valid = u.valid
  <2>1. PICK u \in entry : s = [u EXCEPT !.phase = p]
    BY <1>3
  <2>2. s \in TaskState /\ s.tenant = u.tenant /\ s.valid = u.valid
    BY <1>1, <2>1
  <2> QED
    BY <2>2
<1>5. entry # {} => entry' # {}
  BY <1>2
<1> QED
  BY <1>4, <1>5

-----------------------------------------------------------------------------
(* The reader *)

LEMMA ReaderFields ==
  ASSUME NEW r \in ReaderType
  PROVE  /\ r.pc \in {"idle", "tail", "decide"} /\ r.tenant \in Tenants /\ r.state \in TaskState
         /\ r.from \in Nat /\ r.pos \in Nat /\ r.seen \in Nat /\ r.began \in Nat
         /\ r.ended \in {"no", "terminal", "drained", "slow"}
BY DEF ReaderType

\* A request that ends or never began leaves nothing to keep.
LEMMA ReaderIdle ==
  ASSUME JType, reader' = NoReader, log' = log
  PROVE  reader' \in ReaderType /\ ReaderConcl' /\ (ReaderCount)'
BY NoReaderType DEF JType, ReaderConcl, ReaderCount

\* A replay starts from the stored snapshot, or from the beginning.
LEMMA LoadReader ==
  ASSUME JInv, NEW t \in Tenants, ReplayLoad(t)
  PROVE  reader' \in ReaderType /\ ReaderConcl' /\ (owner = Default => ReaderCount')
<1>1. PICK start \in snapshot \cup {Snapshot(0, NewState(Default))} :
        reader' = [NoReader EXCEPT !.pc = "tail", !.tenant = t, !.state = start.state,
                                   !.from = start.seq, !.pos = TailFrom(start.seq),
                                   !.began = Len(log)]
  BY DEF ReplayLoad
<1>2. Snapshot(0, NewState(Default)).seq = 0 /\ Snapshot(0, NewState(Default)).state = NewState(Default)
  BY DEF Snapshot
<1>3. /\ start.seq \in Nat /\ start.state \in TaskState
      /\ start.seq <= Len(log) /\ Free(log, start.seq)
      /\ owner = Default => start.state.tenant = Default /\ start.state.valid >= Count(log, start.seq)
  <2>1. CASE start \in snapshot
    <3>1. start \in SnapshotType
      BY <2>1 DEF JInv, JType
    <3>2. start.seq \in Nat /\ start.state \in TaskState
      BY <3>1 DEF SnapshotType
    <3> QED
      BY <2>1, <3>2 DEF JInv, ConclusionInv, SnapConcl, CountInv, SnapCount
  <2>2. CASE start = Snapshot(0, NewState(Default))
    <3>1. start.seq = 0 /\ start.state = NewState(Default)
      BY <1>2, <2>2
    <3>2. NewState(Default) \in TaskState /\ NewState(Default).tenant = Default
          /\ NewState(Default).valid = 0
      BY NewStateType, JournalAssumption
    <3>3. Len(log) \in Nat
      BY DEF JInv, JType
    <3> QED
      BY <3>1, <3>2, <3>3, CountNone DEF Free
  <2> QED
    BY <2>1, <2>2
<1>4. TailFrom(start.seq) = start.seq + 1
  BY <1>3 DEF TailFrom
<1>5. /\ reader' \in ReaderType /\ reader'.pc = "tail" /\ reader'.state = start.state
      /\ reader'.pos = start.seq + 1 /\ reader'.began = Len(log)
  <2>1. Len(log) \in Nat /\ start.seq + 1 \in Nat
    BY <1>3 DEF JInv, JType
  <2>2. NoReader \in ReaderType
    BY NoReaderType
  <2> QED
    BY <1>1, <1>3, <1>4, <2>1, <2>2 DEF ReaderType
<1>6. log' = log /\ Len(log) \in Nat /\ start.seq + 1 - 1 = start.seq
  BY <1>3 DEF ReplayLoad, JInv, JType
<1>7. ReaderConcl'
  BY <1>3, <1>5, <1>6 DEF ReaderConcl
<1>8. owner = Default => ReaderCount'
  BY <1>3, <1>5, <1>6 DEF ReaderCount
<1> QED
  BY <1>5, <1>7, <1>8

\* A replay applies one event of the log.
LEMMA NextReader ==
  ASSUME JInv, ReplayNext
  PROVE  reader' \in ReaderType /\ ReaderConcl' /\ (owner = Default => ReaderCount')
<1>0. /\ reader \in ReaderType /\ log' = log /\ log \in Seq(Events)
      /\ reader.pc = "tail" /\ reader.pos <= Len(log)
      /\ reader.pos \in 1..(Len(log) + 1) /\ Free(log, reader.pos - 1)
      /\ reader.began <= Len(log)
  BY DEF JInv, JType, ReplayNext, ConclusionInv, ReaderConcl
<1>1. PICK e : e = log[reader.pos]
  OBVIOUS
<1>2. e \in Events /\ reader.pos \in Nat \ {0} /\ Len(log) \in Nat /\ reader.seen + 1 \in Nat
      /\ reader.state \in TaskState /\ reader.began \in Nat
  BY <1>0, <1>1, ReaderFields
<1>3. PICK st : st = Apply(reader.state, e)
  OBVIOUS
<1>4. /\ st \in TaskState /\ st.tenant = reader.state.tenant /\ st.valid \in Nat
      /\ reader.state.valid \in Nat
      /\ e \in Terminal => st.phase \in {"Resolved", "Failed"}
      /\ st.valid >= reader.state.valid
      /\ e = "Scored" => st.valid = reader.state.valid + 1
  BY <1>2, <1>3, ApplyEvent DEF TaskState
<1>5. reader' = [reader EXCEPT !.state = st, !.pos = reader.pos + 1, !.seen = reader.seen + 1,
                               !.pc = IF e \in Terminal THEN "decide" ELSE reader.pc,
                               !.ended = IF e \in Terminal THEN "terminal" ELSE reader.ended]
  BY <1>1, <1>3 DEF ReplayNext
<1>6. /\ reader' \in ReaderType /\ reader'.state = st /\ reader'.pos = reader.pos + 1
      /\ reader'.began = reader.began
      /\ e \in Terminal => reader'.pc = "decide" /\ reader'.ended = "terminal"
      /\ e \notin Terminal => reader'.pc = "tail"
  <2>1. PICK np \in {"tail", "decide"} : np = IF e \in Terminal THEN "decide" ELSE reader.pc
    BY <1>0
  <2>2. PICK ne \in {"no", "terminal", "drained", "slow"} :
           ne = IF e \in Terminal THEN "terminal" ELSE reader.ended
    BY <1>0, ReaderFields
  <2> DEFINE r1 == [reader EXCEPT !.state = st, !.pos = reader.pos + 1, !.seen = reader.seen + 1]
  <2>3. r1 \in ReaderType /\ r1.state = st /\ r1.pos = reader.pos + 1 /\ r1.began = reader.began
    <3>1. PICK y \in Nat, z \in Nat : y = reader.pos + 1 /\ z = reader.seen + 1
      BY <1>2
    <3>2. r1 = [reader EXCEPT !.state = st, !.pos = y, !.seen = z]
      BY <3>1
    <3>3. reader \in ReaderType /\ st \in TaskState
      BY <1>0, <1>4
    <3> HIDE DEF r1
    <3>4. r1 \in ReaderType /\ r1.state = st /\ r1.pos = y /\ r1.began = reader.began
      BY <3>2, <3>3 DEF ReaderType
    <3> QED
      BY <3>1, <3>4
  <2>4. reader' = [r1 EXCEPT !.pc = np, !.ended = ne]
    BY <1>5, <2>1, <2>2
  <2> HIDE DEF r1
  <2>5. reader' \in ReaderType /\ reader'.state = st /\ reader'.pos = reader.pos + 1
        /\ reader'.began = reader.began /\ reader'.pc = np /\ reader'.ended = ne
    BY <2>3, <2>4 DEF ReaderType
  <2> QED
    BY <1>0, <2>1, <2>2, <2>5
<1>7. e \notin Terminal => Free(log, reader.pos)
  <2>1. \A i \in 1..reader.pos : i \in 1..(reader.pos - 1) \/ i = reader.pos
    BY <1>2
  <2> QED
    BY <1>0, <1>1, <2>1 DEF Free, Concl, Terminal
<1>8. ReaderConcl'
  BY <1>0, <1>2, <1>4, <1>6, <1>7 DEF ReaderConcl
<1>9. ASSUME owner = Default PROVE ReaderCount'
  <2>1. reader.state.tenant = Default /\ reader.state.valid >= Count(log, reader.pos - 1)
    BY <1>0, <1>9 DEF JInv, CountInv, ReaderCount
  <2>2. reader.pos - 1 \in Nat /\ (reader.pos - 1) + 1 = reader.pos
    BY <1>2
  <2>3. Count(log, reader.pos) = IF e = "Scored" THEN Count(log, reader.pos - 1) + 1
                                                 ELSE Count(log, reader.pos - 1)
    BY <1>1, <2>2, CountNext
  <2>4. Count(log, reader.pos - 1) \in Nat
    BY <2>2, ScoresFinite
  <2>5. st.valid >= Count(log, reader.pos)
    BY <1>4, <2>1, <2>3, <2>4
  <2>6. reader'.pos - 1 = reader.pos
    BY <1>2, <1>6
  <2> QED
    BY <1>0, <1>4, <1>6, <2>1, <2>5, <2>6 DEF ReaderCount
<1> QED
  BY <1>6, <1>8, <1>9

\* A replay has read the log to the end.
LEMMA IdleReader ==
  ASSUME JInv, ReplayIdle
  PROVE  reader' \in ReaderType /\ ReaderConcl' /\ (owner = Default => ReaderCount')
<1>0. /\ reader \in ReaderType /\ log' = log /\ log \in Seq(Events) /\ reader.pc = "tail"
      /\ reader.pos \in 1..(Len(log) + 1) /\ Free(log, reader.pos - 1)
      /\ reader.began <= Len(log) /\ reader.began \in Nat /\ Len(log) \in Nat
  BY ReaderFields DEF JInv, JType, ReplayIdle, ConclusionInv, ReaderConcl
<1>1. /\ reader' \in ReaderType /\ reader'.state = reader.state /\ reader'.pc = "decide"
      /\ reader'.began = reader.began
      /\ reader'.ended = IF reader.pos > Len(log) THEN "drained" ELSE "slow"
  BY <1>0 DEF ReplayIdle, ReaderType
<1>2. ASSUME reader.pos > Len(log) PROVE reader.pos - 1 = Len(log)
  BY <1>0, <1>2
<1>3. ReaderConcl'
  <2>1. CASE reader.pos > Len(log)
    <3>1. Free(log, reader.began)
      BY <1>0, <1>2, <2>1 DEF Free
    <3> QED
      BY <1>0, <1>1, <2>1, <3>1 DEF ReaderConcl
  <2>2. CASE ~(reader.pos > Len(log))
    BY <1>0, <1>1, <2>2 DEF ReaderConcl
  <2> QED
    BY <2>1, <2>2
<1>4. ASSUME owner = Default PROVE ReaderCount'
  <2>1. reader.state.tenant = Default /\ reader.state.valid >= Count(log, reader.pos - 1)
    BY <1>0, <1>4 DEF JInv, CountInv, ReaderCount
  <2>2. CASE reader.pos > Len(log)
    <3>1. Scores(log, reader.began) \subseteq Scores(log, Len(log))
      BY <1>0 DEF Scores
    <3>2. Count(log, reader.began) <= Count(log, Len(log))
      BY <1>0, <3>1, ScoresFinite, FS_Subset DEF Count
    <3>3. Count(log, reader.began) \in Nat /\ Count(log, Len(log)) \in Nat
      BY <1>0, ScoresFinite
    <3>4. reader.state.valid \in Nat
      BY <1>0, ReaderFields DEF TaskState
    <3>5. reader.state.valid >= Count(log, reader.began)
      BY <1>2, <2>1, <2>2, <3>2, <3>3, <3>4
    <3> QED
      BY <1>0, <1>1, <2>1, <3>5 DEF ReaderCount
  <2>3. CASE ~(reader.pos > Len(log))
    BY <1>0, <1>1, <2>1, <2>3 DEF ReaderCount
  <2> QED
    BY <2>2, <2>3
<1> QED
  BY <1>1, <1>3, <1>4

-----------------------------------------------------------------------------
(* The steps *)

\* A step of the reader: everything but the reader stays.
LEMMA ReaderStep ==
  ASSUME JInv, UNCHANGED <<owner, serverVars, log, snapshot>>,
         reader' \in ReaderType, ReaderConcl', owner = Default => ReaderCount'
  PROVE  JInv'
<1>1. JType'
  BY DEF JInv, JType, serverVars
<1>2. QueueConcl' /\ SnapConcl'
  BY DEF JInv, ConclusionInv, QueueConcl, SnapConcl, serverVars
<1>3. owner = Default => LiveCount' /\ SnapCount'
  BY DEF JInv, CountInv, LiveCount, SnapCount, serverVars
<1>4. CountInv'
  BY <1>3 DEF CountInv
<1> QED
  BY <1>1, <1>2, <1>4 DEF JInv, ConclusionInv

\* The log grows by at most one event: what snapshots and the reader know of
\* it stays true.
LEMMA LogStep ==
  ASSUME JInv, NEW e \in Events, log' \in {log, Append(log, e)}, reader' = reader,
         snapshot' \cup writes' \subseteq snapshot \cup writes
  PROVE  /\ log' \in Seq(Events) /\ SnapConcl' /\ ReaderConcl'
         /\ owner = Default => SnapCount' /\ ReaderCount'
<1>0. log \in Seq(Events) /\ Len(log) \in Nat /\ reader \in ReaderType
  BY DEF JInv, JType
<1>1. \A k \in 0..Len(log) : (Free(log, k) <=> Free(log', k)) /\ Count(log, k) = Count(log', k)
  BY <1>0, LogGrows
<1>2. log' \in Seq(Events) /\ Len(log') >= Len(log) /\ Len(log') \in Nat
  BY <1>0
<1>3. \A w \in writes' \cup snapshot' : /\ w \in writes \cup snapshot
                                       /\ w.seq \in 0..Len(log)
  BY <1>0 DEF JInv, JType, SnapshotType, ConclusionInv, SnapConcl
<1>4. SnapConcl'
  BY <1>0, <1>1, <1>2, <1>3 DEF JInv, ConclusionInv, SnapConcl
<1>5. reader.began \in 0..Len(log) /\ (reader.pc = "tail" => reader.pos - 1 \in 0..Len(log))
  BY <1>0, ReaderFields DEF JInv, ConclusionInv, ReaderConcl
<1>6. ReaderConcl'
  BY <1>0, <1>1, <1>2, <1>5 DEF JInv, ConclusionInv, ReaderConcl
<1>7. ASSUME owner = Default PROVE SnapCount'
  BY <1>1, <1>3, <1>7 DEF JInv, CountInv, SnapCount
<1>8. ASSUME owner = Default PROVE ReaderCount'
  BY <1>1, <1>5, <1>8 DEF JInv, CountInv, ReaderCount
<1> QED
  BY <1>2, <1>4, <1>6, <1>7, <1>8

\* The states a run leaves in the entry.
LEMMA WorkedEntry ==
  ASSUME entry \subseteq TaskState, NEW p \in Nat, NEW a \in Nat, NEW ph \in Phase,
         entry' = {[Worked(s, p, a) EXCEPT !.phase = ph] : s \in entry}
  PROVE  /\ entry' \subseteq TaskState /\ (entry # {} => entry' # {})
         /\ \A s \in entry' : s.valid = p + a /\ \E u \in entry : s.tenant = u.tenant
<1>1. \A u \in TaskState : /\ Worked(u, p, a) \in TaskState
                           /\ Worked(u, p, a).tenant = u.tenant /\ Worked(u, p, a).valid = p + a
  <2>1. \A u \in TaskState, n \in Nat : LET v == [u EXCEPT !.completed = n] IN
           v \in TaskState /\ v.tenant = u.tenant
    BY DEF TaskState
  <2>3. Explorers \in Nat /\ p + a \in Nat
    BY JournalAssumption
  <2>4. \A u \in TaskState :
           Worked(u, p, a) = [[u EXCEPT !.completed = Explorers] EXCEPT !.valid = p + a]
    BY DEF Worked
  <2> SUFFICES ASSUME NEW u \in TaskState
               PROVE  /\ Worked(u, p, a) \in TaskState
                      /\ Worked(u, p, a).tenant = u.tenant /\ Worked(u, p, a).valid = p + a
    OBVIOUS
  <2> DEFINE v == [u EXCEPT !.completed = Explorers]
  <2>5. v \in TaskState /\ v.tenant = u.tenant
    BY <2>1, <2>3, Zenon
  <2>6. Worked(u, p, a) = [v EXCEPT !.valid = p + a]
    BY <2>4
  <2> HIDE DEF v
  <2>7. PICK n \in Nat : n = p + a
    BY <2>3
  <2>8. Worked(u, p, a) = [v EXCEPT !.valid = n]
    BY <2>6, <2>7
  <2> QED
    BY <2>5, <2>7, <2>8 DEF TaskState
<1>2. \A u \in TaskState : LET v == [u EXCEPT !.phase = ph] IN
         v \in TaskState /\ v.tenant = u.tenant /\ v.valid = u.valid
  BY DEF TaskState
<1>3. \A u \in TaskState : LET v == [Worked(u, p, a) EXCEPT !.phase = ph] IN
         v \in TaskState /\ v.tenant = u.tenant /\ v.valid = p + a
  BY <1>1, <1>2
<1>4. \A s \in entry' : \E u \in entry : s = [Worked(u, p, a) EXCEPT !.phase = ph]
  OBVIOUS
<1>5. ASSUME NEW s \in entry'
      PROVE  s \in TaskState /\ s.valid = p + a /\ \E u \in entry : s.tenant = u.tenant
  <2>1. PICK u \in entry : s = [Worked(u, p, a) EXCEPT !.phase = ph]
    BY <1>4
  <2>2. s \in TaskState /\ s.tenant = u.tenant /\ s.valid = p + a
    BY <1>3, <2>1
  <2> QED
    BY <2>2
<1>6. entry # {} => entry' # {}
  OBVIOUS
<1> QED
  BY <1>5, <1>6

LEMMA SubmitStep == ASSUME JInv, Submit PROVE JInv'
<1>1. entry' = {NewState(owner)} /\ job = "new" /\ job' = "engine"
      /\ UNCHANGED <<owner, queue, writes, log, snapshot, reader>>
  BY DEF Submit
<1>2. NewState(owner) \in TaskState /\ NewState(owner).tenant = owner
  BY NewStateType DEF JInv, JType
<1>3. JType'
  BY <1>1, <1>2 DEF JInv, JType, Places
<1>4. ConclusionInv'
  BY <1>1 DEF JInv, ConclusionInv, QueueConcl, SnapConcl, ReaderConcl
<1>5. CountInv'
  BY <1>1, <1>2 DEF JInv, CountInv, LiveCount, SnapCount, ReaderCount
<1> QED
  BY <1>3, <1>4, <1>5 DEF JInv

LEMMA EngineStep ==
  ASSUME JInv, NEW p \in 0..Explorers, NEW f \in 0..Explorers,
         EngineFails(p, f) \/ \E a \in 0..Explorers : EngineResolves(p, f, a)
  PROVE  JInv'
<1>0. Explorers \in Nat /\ p \in Nat /\ f \in Nat /\ entry \subseteq TaskState
  BY JournalAssumption DEF JInv, JType
<1>1. /\ UNCHANGED <<owner, writes, log, snapshot, reader>> /\ job = "engine"
      /\ queue' \in Seq(Events) /\ queue' # <<>>
      /\ \A i \in 1..Len(queue') : queue'[i] \in Concl => i = Len(queue')
      /\ entry' \subseteq TaskState /\ (entry # {} => entry' # {})
      /\ \A s \in entry' : \E u \in entry : s.tenant = u.tenant
      /\ \/ job' = "failing"
         \/ job' = "publishing" /\ \A s \in entry' : s.valid >= Count(queue', Len(queue'))
  <2>1. CASE EngineFails(p, f)
    <3>1. /\ UNCHANGED <<owner, writes, log, snapshot, reader>> /\ job = "engine" /\ job' = "failing"
          /\ queue' = Copies("Scored", p) \o Copies("Rejected", f) \o <<"TaskFailed">>
      BY <2>1 DEF EngineFails
    <3>2. entry' = {[Worked(s, p, 0) EXCEPT !.phase = "Failed"] : s \in entry} /\ "Failed" \in Phase
      BY <2>1 DEF EngineFails, Phase
    <3>3. entry' \subseteq TaskState /\ (entry # {} => entry' # {})
          /\ \A s \in entry' : s.valid = p + 0 /\ \E u \in entry : s.tenant = u.tenant
      <4>1. 0 \in Nat
        OBVIOUS
      <4> QED
        BY <1>0, <3>2, <4>1, WorkedEntry
    <3>4. /\ queue' \in Seq(Events) /\ queue' # <<>>
          /\ \A i \in 1..Len(queue') : queue'[i] \in Concl => i = Len(queue')
      BY <1>0, <3>1, FailureEvents
    <3> QED
      BY <3>1, <3>3, <3>4
  <2>2. ASSUME NEW a \in 0..Explorers, EngineResolves(p, f, a)
        PROVE  /\ UNCHANGED <<owner, writes, log, snapshot, reader>> /\ job = "engine"
               /\ queue' \in Seq(Events) /\ queue' # <<>>
               /\ \A i \in 1..Len(queue') : queue'[i] \in Concl => i = Len(queue')
               /\ entry' \subseteq TaskState /\ (entry # {} => entry' # {})
               /\ \A s \in entry' : \E u \in entry : s.tenant = u.tenant
               /\ job' = "publishing" /\ \A s \in entry' : s.valid >= Count(queue', Len(queue'))
    <3>1. /\ UNCHANGED <<owner, writes, log, snapshot, reader>> /\ job = "engine" /\ job' = "publishing"
          /\ queue' = RunEvents(p, f, a) /\ a \in 1..p /\ p + f <= Explorers
      BY <2>2 DEF EngineResolves
    <3>2. entry' = {[Worked(s, p, a) EXCEPT !.phase = "Resolved"] : s \in entry} /\ "Resolved" \in Phase
      BY <2>2 DEF EngineResolves, Phase
    <3>3. a \in Nat
      BY <1>0
    <3>4. entry' \subseteq TaskState /\ (entry # {} => entry' # {})
          /\ \A s \in entry' : s.valid = p + a /\ \E u \in entry : s.tenant = u.tenant
      BY <1>0, <3>2, <3>3, WorkedEntry
    <3>5. /\ queue' \in Seq(Events) /\ queue' # <<>> /\ Count(queue', Len(queue')) <= p
          /\ \A i \in 1..Len(queue') : queue'[i] \in Concl => i = Len(queue')
      BY <3>1, RunEventsShape
    <3>6. Count(queue', Len(queue')) \in Nat
      BY <3>5, ScoresFinite
    <3>7. p + a >= Count(queue', Len(queue'))
      BY <1>0, <3>3, <3>5, <3>6
    <3> QED
      BY <3>1, <3>4, <3>5, <3>7
  <2> QED
    BY <2>1, <2>2
<1>2. JType'
  BY <1>1 DEF JInv, JType, Places
<1>3. Free(log, Len(log))
  BY <1>1 DEF JInv, ConclusionInv, QueueConcl
<1>4. ConclusionInv'
  BY <1>1, <1>3 DEF JInv, ConclusionInv, QueueConcl, SnapConcl, ReaderConcl
<1>5. ASSUME owner = Default PROVE LiveCount'
  <2>1. Count(log, Len(log)) = 0 /\ entry # {} /\ \A s \in entry : s.tenant = Default
    BY <1>1, <1>5 DEF JInv, CountInv, LiveCount
  <2>2. Count(queue', Len(queue')) \in Nat
    BY <1>1, ScoresFinite
  <2>3. 0 + Count(queue', Len(queue')) = Count(queue', Len(queue'))
    BY <2>2
  <2> QED
    BY <1>1, <2>1, <2>3 DEF LiveCount
<1>6. CountInv'
  BY <1>1, <1>5 DEF JInv, CountInv, SnapCount, ReaderCount
<1> QED
  BY <1>2, <1>4, <1>6 DEF JInv

\* A publish appends the head of the queue, or loses it.  When the head is a
\* conclusion the queue is empty afterwards.
LEMMA PublishConcl ==
  ASSUME JInv, queue # <<>>, queue' = Tail(queue), log' \in {log, Append(log, Head(queue))},
         job' = job
  PROVE  /\ Head(queue) \in Events /\ queue' \in Seq(Events) /\ QueueConcl'
         /\ Free(log, Len(log)) /\ job \in {"publishing", "failing"}
<1>0. queue \in Seq(Events) /\ log \in Seq(Events) /\ Len(queue) \in Nat \ {0} /\ Len(log) \in Nat
      /\ Head(queue) = queue[1] /\ Head(queue) \in Events
  BY DEF JInv, JType
<1>1. /\ Free(log, Len(log)) /\ job \in {"publishing", "failing"}
      /\ \A i \in 1..Len(queue) : queue[i] \in Concl => i = Len(queue)
  BY DEF JInv, ConclusionInv, QueueConcl
<1>2. /\ queue' \in Seq(Events) /\ Len(queue') = Len(queue) - 1
      /\ \A i \in 1..Len(queue') : queue'[i] = queue[i + 1]
  BY <1>0, CountTail
<1>3. ASSUME NEW i \in 1..Len(queue'), queue'[i] \in Concl PROVE i = Len(queue')
  <2>1. i + 1 \in 1..Len(queue) /\ queue[i + 1] \in Concl
    BY <1>0, <1>2, <1>3
  <2>2. i + 1 = Len(queue)
    BY <1>1, <2>1
  <2>3. i \in Int /\ Len(queue) \in Int /\ Len(queue') = Len(queue) - 1
    BY <1>0, <1>2
  <2> QED
    BY <2>2, <2>3
<1>4. Free(log', Len(log')) \/ queue' = <<>>
  <2>1. CASE log' = log
    BY <1>1, <2>1
  <2>2. CASE log' = Append(log, Head(queue)) /\ Head(queue) \in Concl
    <3>1. Len(queue) = 1
      <4>1. 1 \in 1..Len(queue) /\ queue[1] \in Concl
        BY <1>0, <2>2
      <4> QED
        BY <1>1, <4>1
    <3> QED
      BY <1>2, <3>1
  <2>3. CASE log' = Append(log, Head(queue)) /\ Head(queue) \notin Concl
    BY <1>0, <1>1, <2>3 DEF Free
  <2> QED
    BY <2>1, <2>2, <2>3
<1> QED
  BY <1>0, <1>1, <1>2, <1>3, <1>4 DEF QueueConcl

\* ... and what was in the queue is in the log, or nowhere.
LEMMA PublishCount ==
  ASSUME JInv, queue # <<>>, queue' = Tail(queue), log' \in {log, Append(log, Head(queue))},
         job' = job, entry' = entry, owner = Default
  PROVE  LiveCount'
<1>0. queue \in Seq(Events) /\ log \in Seq(Events) /\ Len(queue) \in Nat \ {0} /\ Len(log) \in Nat
      /\ entry \subseteq TaskState
  BY DEF JInv, JType
<1>1. job \in {"publishing", "failing"}
  BY PublishConcl
<1>2. /\ queue' \in Seq(Events) /\ Len(queue') = Len(queue) - 1
      /\ \A i \in 1..Len(queue') : queue'[i] = queue[i + 1]
      /\ Head(queue) = "Scored" => Count(queue', Len(queue')) + 1 <= Count(queue, Len(queue))
      /\ Count(queue', Len(queue')) <= Count(queue, Len(queue))
  BY <1>0, CountTail
<1>3. /\ Count(log', Len(log')) \in {Count(log, Len(log)), Count(log, Len(log)) + 1}
      /\ Count(log', Len(log')) = Count(log, Len(log)) + 1 => Head(queue) = "Scored"
  <2>0. Count(log, Len(log)) \in Nat
    BY <1>0, ScoresFinite
  <2>1. CASE log' = log
    BY <2>0, <2>1
  <2>2. CASE log' = Append(log, Head(queue))
    <3>1. Len(log') = Len(log) + 1 /\ log'[Len(log) + 1] = Head(queue) /\ Head(queue) \in Events
      BY <1>0, <2>2
    <3>2. Count(log', Len(log)) = Count(log, Len(log))
      <4>1. Len(log) \in 0..Len(log)
        BY <1>0
      <4> QED
        BY <1>0, <2>2, <3>1, <4>1, LogGrows
    <3>3. Count(log', Len(log) + 1) = IF log'[Len(log) + 1] = "Scored"
                                      THEN Count(log', Len(log)) + 1 ELSE Count(log', Len(log))
      BY <1>0, CountNext
    <3> QED
      BY <2>0, <3>1, <3>2, <3>3
  <2> QED
    BY <2>1, <2>2
<1>4. Count(log, Len(log)) \in Nat /\ Count(queue, Len(queue)) \in Nat
      /\ Count(queue', Len(queue')) \in Nat
  BY <1>0, <1>2, ScoresFinite
<1>5. Count(log', Len(log')) + Count(queue', Len(queue'))
        <= Count(log, Len(log)) + Count(queue, Len(queue))
  BY <1>2, <1>3, <1>4
<1>6. (\E i \in 1..Len(queue') : queue'[i] \in Noted) => \E i \in 1..Len(queue) : queue[i] \in Noted
  BY <1>0, <1>2
<1>7. \A s \in entry : s.valid \in Nat
  BY <1>0 DEF TaskState
<1>8. ASSUME job = "publishing", \E i \in 1..Len(queue') : queue'[i] \in Noted, NEW s \in entry
      PROVE  s.valid >= Count(log', Len(log')) + Count(queue', Len(queue'))
  <2>1. s.valid >= Count(log, Len(log)) + Count(queue, Len(queue))
    BY <1>6, <1>8 DEF JInv, CountInv, LiveCount
  <2> QED
    BY <1>3, <1>4, <1>5, <1>7, <2>1
<1> QED
  BY <1>1, <1>8 DEF JInv, CountInv, LiveCount

LEMMA PublishStep ==
  ASSUME JInv, PublishUnnoted \/ PublishFails
  PROVE  JInv'
<1>1. /\ queue # <<>> /\ queue' = Tail(queue) /\ log' \in {log, Append(log, Head(queue))}
      /\ UNCHANGED <<owner, entry, job, writes, snapshot, reader>>
  BY DEF PublishUnnoted, PublishFails
<1>2. Head(queue) \in Events /\ queue' \in Seq(Events) /\ QueueConcl'
  BY <1>1, PublishConcl
<1>3. /\ log' \in Seq(Events) /\ SnapConcl' /\ ReaderConcl'
      /\ owner = Default => SnapCount' /\ ReaderCount'
  BY <1>1, <1>2, LogStep
<1>4. owner = Default => LiveCount'
  BY <1>1, PublishCount
<1>5. JType'
  BY <1>1, <1>2, <1>3 DEF JInv, JType
<1> QED
  BY <1>1, <1>2, <1>3, <1>4, <1>5 DEF JInv, ConclusionInv, CountInv

\* A noted event may spawn a snapshot of the live entry: the event is not a
\* conclusion, and the entry counts it.
LEMMA NotedStep ==
  ASSUME JInv, PublishAcked
  PROVE  JInv'
<1>1. /\ queue # <<>> /\ queue' = Tail(queue) /\ log' = Append(log, Head(queue))
      /\ Head(queue) \in Noted /\ job = "publishing"
      /\ UNCHANGED <<owner, entry, job, snapshot, reader>>
      /\ writes' \in {writes, writes \cup {Snapshot(Len(log) + 1, s) : s \in entry}}
  BY DEF PublishAcked, NoteEvent
<1>2. Head(queue) \in Events /\ queue' \in Seq(Events) /\ QueueConcl' /\ Free(log, Len(log))
  BY <1>1, PublishConcl
<1>3. log \in Seq(Events) /\ queue \in Seq(Events) /\ Len(log) \in Nat /\ Len(log') = Len(log) + 1
      /\ log'[Len(log) + 1] = Head(queue) /\ Head(queue) = queue[1] /\ 1 \in 1..Len(queue)
  BY <1>1, <1>2 DEF JInv, JType
<1>4. Free(log', Len(log'))
  BY <1>1, <1>2, <1>3 DEF Free, Noted, Concl
<1> DEFINE N == {Snapshot(Len(log) + 1, s) : s \in entry}
<1>5. \A w \in N : /\ w \in SnapshotType /\ w.seq = Len(log')
                   /\ \E s \in entry : w.state = s
  <2> SUFFICES ASSUME NEW s \in entry
               PROVE  LET w == Snapshot(Len(log) + 1, s) IN
                      w \in SnapshotType /\ w.seq = Len(log') /\ w.state = s
    OBVIOUS
  <2>1. s \in TaskState /\ Len(log) + 1 \in Nat
    BY <1>3 DEF JInv, JType
  <2> QED
    BY <1>3, <2>1 DEF Snapshot, SnapshotType
<1>6. writes' \subseteq writes \cup N
  BY <1>1
<1> HIDE DEF N
<1>7. /\ log' \in Seq(Events) /\ ReaderConcl' /\ (owner = Default => ReaderCount')
      /\ \A w \in writes \cup snapshot : w.seq <= Len(log') /\ Free(log', w.seq)
      /\ owner = Default => \A w \in writes \cup snapshot :
                               w.state.tenant = Default /\ w.state.valid >= Count(log', w.seq)
  <2>1. \A k \in 0..Len(log) : (Free(log, k) <=> Free(log', k)) /\ Count(log, k) = Count(log', k)
    BY <1>1, <1>2, <1>3, LogGrows
  <2>2. log' \in Seq(Events)
    BY <1>1, <1>2, <1>3
  <2>3. \A w \in writes \cup snapshot : w.seq \in 0..Len(log)
    BY <1>3 DEF JInv, JType, SnapshotType, ConclusionInv, SnapConcl
  <2>4. \A w \in writes \cup snapshot : w.seq <= Len(log') /\ Free(log', w.seq)
    BY <1>3, <2>1, <2>3 DEF JInv, ConclusionInv, SnapConcl
  <2>5. owner = Default => \A w \in writes \cup snapshot :
                               w.state.tenant = Default /\ w.state.valid >= Count(log', w.seq)
    BY <2>1, <2>3 DEF JInv, CountInv, SnapCount
  <2>6. reader.began \in 0..Len(log) /\ (reader.pc = "tail" => reader.pos - 1 \in 0..Len(log))
    BY <1>3, ReaderFields DEF JInv, JType, ConclusionInv, ReaderConcl
  <2>7. ReaderConcl'
    BY <1>1, <1>3, <2>1, <2>6 DEF JInv, ConclusionInv, ReaderConcl
  <2>8. owner = Default => ReaderCount'
    BY <1>1, <2>1, <2>6 DEF JInv, CountInv, ReaderCount
  <2> QED
    BY <2>2, <2>4, <2>5, <2>7, <2>8
<1>8. SnapConcl'
  <2>1. \A w \in N : w.seq <= Len(log') /\ Free(log', w.seq)
    BY <1>3, <1>4, <1>5
  <2> QED
    BY <1>1, <1>6, <1>7, <2>1 DEF SnapConcl
<1>9. ASSUME owner = Default PROVE LiveCount' /\ SnapCount'
  <2>1. LiveCount'
    BY <1>1, <1>9, PublishCount
  <2>2. \A s \in entry : s.valid >= Count(log', Len(log')) /\ s.tenant = Default
    <3>1. \A s \in entry : s.valid >= Count(log, Len(log)) + Count(queue, Len(queue))
                           /\ s.tenant = Default
      BY <1>1, <1>3, <1>9 DEF JInv, CountInv, LiveCount
    <3>2. Count(log', Len(log')) <= Count(log, Len(log)) + Count(queue, Len(queue))
      <4>1. Count(log', Len(log)) = Count(log, Len(log))
        <5>1. Len(log) \in 0..Len(log)
          BY <1>3
        <5> QED
          BY <1>1, <1>2, <1>3, <5>1, LogGrows
      <4>2. Count(log', Len(log) + 1) = IF log'[Len(log) + 1] = "Scored"
                                        THEN Count(log', Len(log)) + 1 ELSE Count(log', Len(log))
        BY <1>3, CountNext
      <4>3. /\ Head(queue) = "Scored" => Count(Tail(queue), Len(Tail(queue))) + 1 <= Count(queue, Len(queue))
            /\ Len(Tail(queue)) \in Nat
        BY <1>1, <1>3, CountTail
      <4>4. Count(log, Len(log)) \in Nat /\ Count(queue, Len(queue)) \in Nat
            /\ Count(Tail(queue), Len(Tail(queue))) \in Nat
        BY <1>3, <4>3, ScoresFinite
      <4> QED
        BY <1>3, <4>1, <4>2, <4>3, <4>4
    <3>3. \A s \in entry : s.valid \in Nat
      BY DEF JInv, JType, TaskState
    <3>4. Count(log, Len(log)) \in Nat /\ Count(queue, Len(queue)) \in Nat
          /\ Count(log', Len(log')) \in Nat
      <4>1. Len(queue) \in Nat /\ Len(log') \in Nat
        BY <1>3
      <4> QED
        BY <1>3, <4>1, ScoresFinite
    <3> QED
      BY <3>1, <3>2, <3>3, <3>4
  <2>3. \A w \in N : w.state.tenant = Default /\ w.state.valid >= Count(log', w.seq)
    BY <1>5, <2>2
  <2> QED
    BY <1>1, <1>6, <1>7, <1>9, <2>1, <2>3 DEF SnapCount
<1>10. JType'
  BY <1>1, <1>2, <1>5, <1>6, <1>7 DEF JInv, JType
<1> QED
  BY <1>1, <1>2, <1>7, <1>8, <1>9, <1>10 DEF JInv, ConclusionInv, CountInv

LEMMA FinishStep == ASSUME JInv, Finish PROVE JInv'
<1>1. /\ queue = <<>> /\ job' = "done" /\ job \in {"publishing", "failing"}
      /\ UNCHANGED <<owner, queue, writes, log, snapshot, reader>>
      /\ \E p \in Phase : Mark(p)
  BY DEF Finish, Phase
<1>2. /\ entry' \subseteq TaskState /\ (entry # {} => entry' # {})
      /\ \A s \in entry' : \E u \in entry : s.tenant = u.tenant /\ s.valid = u.valid
  BY <1>1, Marked DEF JInv, JType
<1>3. JType'
  BY <1>1, <1>2 DEF JInv, JType, Places
<1>4. ConclusionInv'
  BY <1>1 DEF JInv, ConclusionInv, QueueConcl, SnapConcl, ReaderConcl
<1>5. CountInv'
  BY <1>1, <1>2 DEF JInv, CountInv, LiveCount, SnapCount, ReaderCount
<1> QED
  BY <1>3, <1>4, <1>5 DEF JInv

LEMMA SnapshotStep ==
  ASSUME JInv, NEW w \in writes, SnapshotLands(w) \/ SnapshotFails(w)
  PROVE  JInv'
<1>1. /\ UNCHANGED <<owner, entry, job, queue, log, reader>>
      /\ snapshot' \cup writes' \subseteq snapshot \cup writes
  BY DEF SnapshotLands, SnapshotFails
<1>2. JType'
  BY <1>1 DEF JInv, JType
<1>3. ConclusionInv'
  BY <1>1 DEF JInv, ConclusionInv, QueueConcl, SnapConcl, ReaderConcl
<1>4. CountInv'
  BY <1>1 DEF JInv, CountInv, LiveCount, SnapCount, ReaderCount
<1> QED
  BY <1>2, <1>3, <1>4 DEF JInv

\* The operator's conclusion is none of the pipeline's, and no proposal.
\* An event that is neither a verification nor a pipeline's conclusion.
LEMMA OtherEvent ==
  ASSUME NEW l \in Seq(Events), NEW e \in Events \ (Concl \cup {"Scored"}),
         NEW m, m \in {l, Append(l, e)}
  PROVE  /\ Free(l, Len(l)) => Free(m, Len(m))
         /\ Count(m, Len(m)) = Count(l, Len(l))
<1>1. CASE m = l
  BY <1>1
<1>2. CASE m = Append(l, e)
  <2>1. Len(l) \in Nat /\ Len(m) = Len(l) + 1 /\ m[Len(l) + 1] = e /\ Len(l) \in 0..Len(l)
    BY <1>2
  <2>2. Free(l, Len(l)) => Free(m, Len(m))
    BY <1>2, <2>1 DEF Free
  <2>3. Count(m, Len(l)) = Count(l, Len(l))
    BY <1>2, <2>1, LogGrows
  <2>4. Count(m, Len(l) + 1) = IF m[Len(l) + 1] = "Scored" THEN Count(m, Len(l)) + 1
                               ELSE Count(m, Len(l))
    BY <2>1, CountNext
  <2> QED
    BY <2>1, <2>2, <2>3, <2>4
<1> QED
  BY <1>1, <1>2

LEMMA ReportStep == ASSUME JInv, EngineReports PROVE JInv'
<1>1. /\ log' = Append(log, "Diagnostic")
      /\ UNCHANGED <<owner, entry, job, queue, writes, snapshot, reader>>
  BY DEF EngineReports, serverVars
<1>2. "Diagnostic" \in Events \ (Concl \cup {"Scored"}) /\ log \in Seq(Events)
  BY DEF Events, Concl, JInv, JType
<1>3. /\ log' \in Seq(Events) /\ SnapConcl' /\ ReaderConcl'
      /\ owner = Default => SnapCount' /\ ReaderCount'
  BY <1>1, <1>2, LogStep
<1>4. /\ Free(log, Len(log)) => Free(log', Len(log'))
      /\ Count(log', Len(log')) = Count(log, Len(log))
  BY <1>1, <1>2, OtherEvent
<1>5. QueueConcl'
  BY <1>1, <1>4 DEF JInv, ConclusionInv, QueueConcl
<1>6. owner = Default => LiveCount'
  BY <1>1, <1>4 DEF JInv, CountInv, LiveCount
<1>7. JType'
  BY <1>1, <1>3 DEF JInv, JType
<1> QED
  BY <1>1, <1>3, <1>5, <1>6, <1>7 DEF JInv, ConclusionInv, CountInv

LEMMA MergeStep == ASSUME JInv, MergeTask PROVE JInv'
<1>1. /\ log' \in {log, Append(log, "ManualMerge")} /\ Mark("Resolved")
      /\ UNCHANGED <<owner, job, queue, writes, snapshot, reader>>
  BY DEF MergeTask
<1>2. "ManualMerge" \in Events \ (Concl \cup {"Scored"}) /\ "Resolved" \in Phase
  BY DEF Events, Terminal, Concl, Phase
<1>3. /\ log' \in Seq(Events) /\ SnapConcl' /\ ReaderConcl'
      /\ owner = Default => SnapCount' /\ ReaderCount'
  BY <1>1, <1>2, LogStep
<1>4. /\ entry' \subseteq TaskState /\ (entry # {} => entry' # {})
      /\ \A s \in entry' : \E u \in entry : s.tenant = u.tenant /\ s.valid = u.valid
  BY <1>1, <1>2, Marked DEF JInv, JType
<1>5. log \in Seq(Events)
  BY DEF JInv, JType
<1>6. /\ Free(log, Len(log)) => Free(log', Len(log'))
      /\ Count(log', Len(log')) = Count(log, Len(log))
  BY <1>1, <1>2, <1>5, OtherEvent
<1>7. QueueConcl'
  BY <1>1, <1>6 DEF JInv, ConclusionInv, QueueConcl
<1>8. owner = Default => LiveCount'
  BY <1>1, <1>4, <1>6 DEF JInv, CountInv, LiveCount
<1>9. JType'
  BY <1>1, <1>3, <1>4 DEF JInv, JType
<1> QED
  BY <1>1, <1>3, <1>7, <1>8, <1>9 DEF JInv, ConclusionInv, CountInv

LEMMA CrashStep == ASSUME JInv, Crash PROVE JInv'
<1>1. /\ job' \in {"lost", "resumable"} /\ entry' = {} /\ queue' = <<>> /\ writes' = {}
      /\ reader' = NoReader /\ UNCHANGED <<owner, log, snapshot>>
  BY DEF Crash
<1>2. reader' \in ReaderType /\ ReaderConcl' /\ ReaderCount'
  BY <1>1, ReaderIdle DEF JInv
<1>3. <<>> \in Seq(Events) /\ Len(<<>>) = 0
  OBVIOUS
<1>4. JType'
  BY <1>1, <1>2, <1>3 DEF JInv, JType, Places
<1>5. QueueConcl' /\ SnapConcl'
  BY <1>1, <1>3 DEF JInv, ConclusionInv, QueueConcl, SnapConcl
<1>6. owner = Default => LiveCount' /\ SnapCount'
  BY <1>1 DEF JInv, CountInv, LiveCount, SnapCount
<1> QED
  BY <1>1, <1>2, <1>4, <1>5, <1>6 DEF JInv, ConclusionInv, CountInv

LEMMA ResumeStep == ASSUME JInv, Resume PROVE JInv'
<1>1. /\ job' = "publishing" /\ queue' = <<"MergeResolved">>
      /\ entry' = {[NewState(owner) EXCEPT !.phase = "Merging"]}
      /\ \A i \in DOMAIN log : log[i] \notin Terminal
      /\ UNCHANGED <<owner, writes, log, snapshot, reader>>
  BY DEF Resume
<1>2. /\ queue' \in Seq(Events) /\ Len(queue') = 1 /\ queue'[1] = "MergeResolved"
      /\ \A i \in 1..Len(queue') : i = 1
  BY <1>1 DEF Events, Terminal
<1>3. Free(log, Len(log))
  BY <1>1 DEF JInv, JType, Free, Concl, Terminal
<1>4. /\ [NewState(owner) EXCEPT !.phase = "Merging"] \in TaskState
      /\ [NewState(owner) EXCEPT !.phase = "Merging"].tenant = owner
  <2>1. NewState(owner) \in TaskState /\ NewState(owner).tenant = owner
    BY NewStateType DEF JInv, JType
  <2> QED
    BY <2>1 DEF TaskState, Phase
<1>5. JType'
  BY <1>1, <1>2, <1>4 DEF JInv, JType, Places
<1>6. ConclusionInv'
  BY <1>1, <1>2, <1>3 DEF JInv, ConclusionInv, QueueConcl, SnapConcl, ReaderConcl
<1>7. ~ \E i \in 1..Len(queue') : queue'[i] \in Noted
  BY <1>2 DEF Noted
<1>8. CountInv'
  BY <1>1, <1>4, <1>7 DEF JInv, CountInv, LiveCount, SnapCount, ReaderCount
<1> QED
  BY <1>5, <1>6, <1>8 DEF JInv

\* A replay puts its state in the store only when nothing is there, so never
\* over the entry a publishing pipeline notes.
LEMMA DecideStep == ASSUME JInv, Decide PROVE JInv'
<1>1. /\ reader' = NoReader /\ UNCHANGED <<owner, job, queue, writes, log, snapshot>>
      /\ entry' = IF Found(reader) /\ EntryOf(reader.tenant) = {} THEN {reader.state} ELSE entry
  BY DEF Decide
<1>2. reader' \in ReaderType /\ ReaderConcl' /\ ReaderCount'
  BY <1>1, ReaderIdle DEF JInv
<1>3. reader.state \in TaskState
  BY ReaderFields DEF JInv, JType
<1>4. JType'
  BY <1>1, <1>2, <1>3 DEF JInv, JType
<1>5. QueueConcl' /\ SnapConcl'
  BY <1>1 DEF JInv, ConclusionInv, QueueConcl, SnapConcl
<1>6. ASSUME owner = Default PROVE LiveCount' /\ SnapCount'
  <2>1. reader.state.tenant = Default /\ \A s \in entry : s.tenant = Default
    BY <1>6 DEF JInv, CountInv, ReaderCount, LiveCount
  <2>2. CASE Found(reader) /\ EntryOf(reader.tenant) = {}
    <3>1. entry = {}
      BY <2>1, <2>2 DEF Found, EntryOf
    <3> QED
      BY <1>1, <1>6, <2>1, <2>2, <3>1 DEF JInv, CountInv, LiveCount, SnapCount
  <2>3. CASE ~(Found(reader) /\ EntryOf(reader.tenant) = {})
    BY <1>1, <1>6, <2>3 DEF JInv, CountInv, LiveCount, SnapCount
  <2> QED
    BY <2>2, <2>3
<1> QED
  BY <1>1, <1>2, <1>4, <1>5, <1>6 DEF JInv, ConclusionInv, CountInv

-----------------------------------------------------------------------------
(* The theorems *)

LEMMA InitJournal == Init => JInv
<1> SUFFICES ASSUME Init PROVE JInv
  OBVIOUS
<1>1. <<>> \in Seq(Events) /\ Len(<<>>) = 0
  OBVIOUS
<1>2. JType
  BY <1>1, NoReaderType DEF Init, JType, Places
<1>3. ConclusionInv
  BY <1>1, NoReaderType DEF Init, ConclusionInv, QueueConcl, SnapConcl, ReaderConcl, Free
<1>4. CountInv
  BY <1>1, NoReaderType, CountNone DEF Init, CountInv, LiveCount, SnapCount, ReaderCount
<1> QED
  BY <1>2, <1>3, <1>4 DEF JInv

LEMMA StepJournal == JInv /\ [Next]_vars => JInv'
<1> SUFFICES ASSUME JInv, [Next]_vars PROVE JInv'
  OBVIOUS
<1>1. ASSUME NEW t \in Tenants, ReplayLoad(t) PROVE JInv'
  BY <1>1, LoadReader, ReaderStep DEF ReplayLoad
<1>2. CASE ReplayNext
  BY <1>2, NextReader, ReaderStep DEF ReplayNext
<1>3. CASE ReplayIdle
  BY <1>3, IdleReader, ReaderStep DEF ReplayIdle
<1>4. CASE ReplayBreaks
  <2>1. reader' \in ReaderType /\ ReaderConcl' /\ ReaderCount'
    BY <1>4, ReaderIdle DEF ReplayBreaks, JInv
  <2> QED
    BY <1>4, <2>1, ReaderStep DEF ReplayBreaks
<1>5. CASE UNCHANGED vars
  BY <1>5 DEF vars, JInv, JType, ConclusionInv, QueueConcl, SnapConcl, ReaderConcl, CountInv,
              LiveCount, SnapCount, ReaderCount
<1> QED
  BY <1>1, <1>2, <1>3, <1>4, <1>5, SubmitStep, ReportStep, EngineStep, PublishStep, NotedStep,
     FinishStep, SnapshotStep, MergeStep, CrashStep, ResumeStep, DecideStep DEF Next

\* The invariant holds in every behaviour.
LEMMA JournalInvariant == Spec => []JInv
  BY InitJournal, StepJournal, PTL DEF Spec

\* A replay that reads its log to the end reports a task whose conclusion was
\* in the log as concluded, whichever snapshot it starts from and whatever was
\* published, lost or merged by the operator meanwhile (SessionJournal::replay
\* and note_event): for any run length, snapshot interval and number of faults.
THEOREM ConclusionKept == Spec => []ConclusionReplayed
<1>1. JInv => ConclusionReplayed
  <2> SUFFICES ASSUME JInv, Answered, LoggedBefore({"MergeResolved", "TaskFailed"}) # {}
               PROVE  reader.state.phase \in {"Resolved", "Failed"}
    BY DEF ConclusionReplayed
  <2>1. reader.ended # "drained"
    BY DEF JInv, ConclusionInv, ReaderConcl, Free, Concl, LoggedBefore, Answered
  <2> QED
    BY <2>1 DEF JInv, ConclusionInv, ReaderConcl, Answered
<1> QED
  BY <1>1, JournalInvariant, PTL

\* ... and has counted every verified proposal the log held when it began,
\* although snapshots land in any order and an older one may overwrite a newer.
THEOREM ProposalsKept == Spec => []NoProposalForgotten
<1>1. JInv => NoProposalForgotten
  <2>1. LoggedBefore({"Scored"}) = Scores(log, reader.began)
    BY DEF LoggedBefore, Scores
  <2> QED
    BY <2>1 DEF JInv, CountInv, ReaderCount, Count, NoProposalForgotten, Answered
<1> QED
  BY <1>1, JournalInvariant, PTL
=============================================================================
