------------------------ MODULE TaskExecution_proofs ------------------------
(***************************************************************************)
(* Proofs about AgentDispatch, TaskPreparation and Proposals, for any      *)
(* agents, calls and iteration cap, any submissions and any proposals.     *)
(*                                                                         *)
(* Dispatch.  That a call runs once does not follow from the guard of Take *)
(* alone: it also needs that the payload of a call goes out once, that its *)
(* target is fixed by then, and that a payload still in the inbox of its   *)
(* addressee was not yet taken.  That a caller's answer is one needs the   *)
(* path of the text from the loop to the reply, the work queue, the waiter *)
(* and the caller.  DispatchInv says both.                                 *)
(*                                                                         *)
(* Preparation.  What the pruning and covering passes do to a list of      *)
(* slots is shown by induction over the list, through the lemmas Induction *)
(* and Recursion, which need no operator as a parameter.                   *)
(*                                                                         *)
(* Proposals.  A refusal survives the retry scale because no number of     *)
(* retries brings a hard threshold down to zero (ScaleIsPositive).         *)
(* The Krum winner is near the honest because its score is at most that of *)
(* an honest proposal, which at least k others are no further from than    *)
(* the diameter, while at least k-f+1 of its own neighbours are honest.    *)
(* Only that a distance is a number and is zero to itself is used of the   *)
(* distances.                                                              *)
(***************************************************************************)
EXTENDS AgentDispatch, TaskPreparation, Proposals, WellFoundedInduction, NaturalsInduction,
        FiniteSetTheorems, TLAPS

\* The call has run to an end other than an adapter error.
Answered(c) == ran[c] = 1 /\ ended[c] \in {"final", "truncated"}

\* Where the dispatch loop is: executing, about to publish, or waiting.
LoopInv(a) ==
    /\ active[a] = IF turn[a] > 0 THEN 1 ELSE 0
    /\ turn[a] > 0 => work[a] # NoCall /\ reply[a] = "none" /\ ended[work[a]] = "none"
    /\ reply[a] # "none" => work[a] # NoCall /\ turn[a] = 0
    /\ reply[a] = "answer" => ended[work[a]] \in {"final", "truncated"}
    /\ work[a] # NoCall => /\ target[work[a]] = {a}
                           /\ ran[work[a]] = 1
                           /\ call[work[a]] \notin {"idle", "selected"}

\* The fate of a payload.
PayloadInv(c) ==
    /\ call[c] \in {"idle", "selected"} => ran[c] = 0 /\ \A a \in Agents : c \notin inbox[a]
    /\ \A a, b \in target[c] : a = b
    /\ \A a \in Agents : c \in inbox[a] /\ a \in target[c] => ran[c] = 0
    /\ ran[c] = 0 => ended[c] = "none"
    /\ ran[c] \in {0, 1}

\* The path of an answer.
AnswerInv(c) ==
    /\ result[c] = "answer" => Answered(c)
    /\ waiter[c] = "answer" => Answered(c)
    /\ call[c] = "ok" => Answered(c)

DispatchInv ==
    /\ DispatchTypeOK
    /\ \A a \in Agents : LoopInv(a)
    /\ \A c \in Calls : PayloadInv(c) /\ AnswerInv(c)

\* The initial state satisfies the invariant.
LEMMA InitInv == DispatchInit => DispatchInv
BY DispatchAssumption
   DEF DispatchInit, DispatchInv, DispatchTypeOK, LoopInv, PayloadInv, AnswerInv, Answered

\* What the registry, the heartbeats and the start of an agent change is not in
\* the invariant beyond its type.
LEMMA RegistryKeeps ==
    ASSUME DispatchInv, NEW a \in Agents,
           Boot(a) \/ Subscribe(a) \/ Beat(a) \/ LoseBeat(a) \/ ProviderStep(a)
    PROVE  DispatchInv'
<1>. USE DispatchAssumption DEF DispatchInv, DispatchTypeOK, LoopInv, PayloadInv, AnswerInv, Answered, callVars,
         ghosts, agentVars
<1>1. CASE Boot(a)
  BY <1>1 DEF Boot
<1>2. CASE Subscribe(a)
  <2>1. DispatchTypeOK'
    BY <1>2 DEF Subscribe
  <2>2. \A b \in Agents : LoopInv(b)'
    BY <1>2 DEF Subscribe
  <2>3. \A c \in Calls : PayloadInv(c)'
    BY <1>2 DEF Subscribe
  <2>4. \A c \in Calls : AnswerInv(c)'
    BY <1>2 DEF Subscribe
  <2>. QED
    BY <2>1, <2>2, <2>3, <2>4
<1>3. CASE Beat(a) \/ LoseBeat(a)
  <2>1. DispatchTypeOK'
    <3>1. active[a] \in {0, 1}
      OBVIOUS
    <3>2. beat' \in [Agents -> SUBSET {0, 1}]
      <4>1. {active[a]} \in SUBSET {0, 1}
        BY <3>1
      <4>2. CASE Beat(a)
        BY <4>1, <4>2 DEF Beat
      <4>3. CASE LoseBeat(a)
        BY <4>3 DEF LoseBeat
      <4>. QED
        BY <1>3, <4>2, <4>3
    <3>3. UNCHANGED <<up, inbox, stop, work, turn, reply, active, registry, call, target, waiter,
                      skipped, result, ran, ended>>
      BY <1>3 DEF Beat, LoseBeat
    <3>. QED
      BY <3>2, <3>3
  <2>2. \A b \in Agents : LoopInv(b)'
    BY <1>3 DEF Beat, LoseBeat
  <2>3. \A c \in Calls : PayloadInv(c)'
    BY <1>3 DEF Beat, LoseBeat
  <2>4. \A c \in Calls : AnswerInv(c)'
    BY <1>3 DEF Beat, LoseBeat
  <2>. QED
    BY <2>1, <2>2, <2>3, <2>4
<1>4. CASE ProviderStep(a)
  <2>1. CASE Register(a)
    BY <2>1 DEF Register
  <2>2. CASE Lapse(a)
    BY <2>2 DEF Lapse
  <2>3. CASE TerminateAgent(a)
    BY <2>3 DEF TerminateAgent
  <2>. QED
    BY <1>4, <2>1, <2>2, <2>3 DEF ProviderStep
<1>. QED
  BY <1>1, <1>2, <1>3, <1>4

\* An agent that ends forgets its payloads.
LEMMA ExitKeeps ==
    ASSUME DispatchInv, NEW a \in Agents, Crash(a) \/ StopLoop(a)
    PROVE  DispatchInv'
<1>1. Exit(a)
  BY DEF Crash, StopLoop
<1>. QED
  BY <1>1, DispatchAssumption
     DEF DispatchInv, DispatchTypeOK, LoopInv, PayloadInv, AnswerInv, Answered, Exit, callVars, ghosts

\* A step of the caller or of its waiter keeps the invariant.
LEMMA CallKeeps ==
    ASSUME DispatchInv, NEW c \in Calls, CallStep(c)
    PROVE  DispatchInv'
<1>. USE DispatchAssumption DEF DispatchInv, DispatchTypeOK, LoopInv, PayloadInv, AnswerInv, Answered, callVars,
         ghosts, agentVars
<1>1. CASE Select(c)
  <2>1. PICK a \in Agents : target' = [target EXCEPT ![c] = {a}]
    BY <1>1 DEF Select, LeastLoaded, Live
  <2>2. \A b \in Agents : work[b] # c
    BY <1>1 DEF Select
  <2>3. DispatchTypeOK'
    <3>1. target' \in [Calls -> SUBSET Agents]
      BY <2>1
    <3>2. call' \in [Calls -> {"idle", "selected", "waiting", "ok", "failed", "dropped"}]
      BY <1>1 DEF Select
    <3>3. waiter' \in [Calls -> {"none", "spawned", "listening", "answer", "error", "timeout"}]
      BY <1>1 DEF Select
    <3>4. UNCHANGED <<up, inbox, stop, work, turn, reply, active, beat, registry, skipped, result,
                      ran, ended>>
      BY <1>1 DEF Select
    <3>. QED
      BY <3>1, <3>2, <3>3, <3>4
  <2>4. \A b \in Agents : LoopInv(b)'
    BY <1>1, <2>1, <2>2 DEF Select
  <2>5. \A d \in Calls : PayloadInv(d)'
    BY <1>1, <2>1, <2>2 DEF Select
  <2>6. \A d \in Calls : AnswerInv(d)'
    BY <1>1, <2>1, <2>2 DEF Select
  <2>. QED
    BY <2>3, <2>4, <2>5, <2>6
<1>2. CASE NoAgents(c) \/ OffloadError(c)
  BY <1>2 DEF NoAgents, OffloadError
<1>3. CASE PublishPayload(c)
  <2>1. \A b \in Agents : inbox'[b] \in SUBSET Calls /\ inbox[b] \subseteq inbox'[b]
                           /\ inbox'[b] \subseteq inbox[b] \cup {c}
    BY <1>3 DEF PublishPayload
  <2>2. DOMAIN inbox' = Agents /\ inbox' \in [Agents -> SUBSET Calls]
    BY <1>3 DEF PublishPayload
  <2>. QED
    BY <1>3, <2>1, <2>2 DEF PublishPayload
<1>4. CASE PublishError(c) \/ Abandon(c)
  BY <1>4 DEF PublishError, Abandon
<1>5. CASE Return(c)
  <2>1. DispatchTypeOK'
    BY <1>5 DEF Return
  <2>2. \A b \in Agents : LoopInv(b)'
    BY <1>5 DEF Return
  <2>3. \A d \in Calls : PayloadInv(d)'
    BY <1>5 DEF Return
  <2>4. \A d \in Calls : AnswerInv(d)'
    BY <1>5 DEF Return
  <2>. QED
    BY <2>1, <2>2, <2>3, <2>4
<1>6. CASE CreateConsumer(c)
  BY <1>6 DEF CreateConsumer, DeliverPolicy
<1>7. CASE Receive(c)
  BY <1>7 DEF Receive
<1>8. CASE WaiterError(c)
  BY <1>8 DEF WaiterError
<1>9. CASE TimesOut(c)
  BY <1>9 DEF TimesOut
<1>. QED
  BY <1>1, <1>2, <1>3, <1>4, <1>5, <1>6, <1>7, <1>8, <1>9 DEF CallStep

\* A step of the dispatch loop keeps the invariant.
LEMMA LoopKeeps ==
    ASSUME DispatchInv, NEW a \in Agents,
           Take(a) \/ PassOver(a) \/ ToolCall(a) \/ Execute(a) \/ PublishResult(a)
               \/ ResultUnsent(a)
    PROVE  DispatchInv'
<1>. USE DispatchAssumption DEF DispatchInv, DispatchTypeOK, LoopInv, PayloadInv, AnswerInv, Answered, callVars,
         ghosts, agentVars
<1>1. CASE Take(a)
  <2>1. PICK c \in inbox[a] :
            /\ a \in target[c]
            /\ inbox' = [inbox EXCEPT ![a] = @ \ {c}]
            /\ work' = [work EXCEPT ![a] = c]
            /\ ran' = [ran EXCEPT ![c] = @ + 1]
    BY <1>1 DEF Take, Addressee
  <2>2. c \in Calls /\ ran[c] = 0 /\ ended[c] = "none" /\ target[c] = {a}
        /\ call[c] \notin {"idle", "selected"}
    BY <2>1
  <2>3. \A b \in Agents : work[b] # c
    BY <2>2
  <2>. QED
    BY <1>1, <2>1, <2>2, <2>3 DEF Take
<1>2. CASE PassOver(a)
  BY <1>2 DEF PassOver
<1>3. CASE ToolCall(a)
  BY <1>3 DEF ToolCall
<1>4. CASE Execute(a)
  <2>1. PICK end \in Endings(a) :
            /\ reply' = [reply EXCEPT ![a] = ReplyFor(end)]
            /\ ended' = [ended EXCEPT ![work[a]] = end]
    BY <1>4 DEF Execute
  <2>2. work[a] \in Calls /\ ended[work[a]] = "none" /\ target[work[a]] = {a}
        /\ turn[a] > 0 /\ ran[work[a]] = 1
    BY <1>4 DEF Execute
  <2>3. \A b \in Agents : b # a => work[b] # work[a]
    <3>1. ASSUME NEW b \in Agents, work[b] = work[a] PROVE b = a
      <4>1. target[work[b]] = {b}
        BY <2>2, <3>1
      <4>2. a \in target[work[b]]
        BY <2>2, <3>1
      <4>. QED
        BY <4>1, <4>2
    <3>. QED
      BY <3>1
  <2>4. end \in {"final", "truncated", "adapter_failed"}
        /\ ReplyFor(end) \in {"answer", "error"}
        /\ (ReplyFor(end) = "answer" => end \in {"final", "truncated"})
    BY DEF Endings, ReplyFor
  <2>5. DispatchTypeOK'
    BY <1>4, <2>1, <2>2, <2>3, <2>4 DEF Execute
  <2>6. \A b \in Agents : LoopInv(b)'
    BY <1>4, <2>1, <2>2, <2>3, <2>4 DEF Execute
  <2>7. \A d \in Calls : PayloadInv(d)'
    BY <1>4, <2>1, <2>2, <2>3, <2>4 DEF Execute
  <2>8. \A d \in Calls : AnswerInv(d)'
    BY <1>4, <2>1, <2>2, <2>3, <2>4 DEF Execute
  <2>. QED
    BY <2>5, <2>6, <2>7, <2>8
<1>5. CASE PublishResult(a)
  BY <1>5 DEF PublishResult
<1>6. CASE ResultUnsent(a)
  BY <1>6 DEF ResultUnsent
<1>. QED
  BY <1>1, <1>2, <1>3, <1>4, <1>5, <1>6

\* The invariant is inductive.
THEOREM Inductive == DispatchSpec => []DispatchInv
<1>1. DispatchInv /\ [DispatchNext]_dispatchVars => DispatchInv'
  <2>. SUFFICES ASSUME DispatchInv, [DispatchNext]_dispatchVars PROVE DispatchInv'
    OBVIOUS
  <2>1. CASE UNCHANGED dispatchVars
    BY <2>1 DEF dispatchVars, agentVars, callVars, ghosts, DispatchInv, DispatchTypeOK, LoopInv, PayloadInv, AnswerInv,
                Answered
  <2>2. CASE \E a \in Agents : AgentStep(a) \/ ProviderStep(a)
    BY <2>2, RegistryKeeps, ExitKeeps, LoopKeeps DEF AgentStep
  <2>3. CASE \E c \in Calls : CallStep(c)
    BY <2>3, CallKeeps
  <2>. QED
    BY <2>1, <2>2, <2>3 DEF DispatchNext
<1>. QED
  BY <1>1, InitInv, PTL DEF DispatchSpec

\* The state is well-typed; in particular the load an agent reports never
\* exceeds 1 and never underflows (dispatch.rs active_tasks).
THEOREM TypeCorrect == DispatchSpec => []DispatchTypeOK
<1>1. DispatchInv => DispatchTypeOK
  BY DEF DispatchInv
<1>. QED
  BY <1>1, Inductive, PTL

\* Every payload reaches every agent, and yet a call is executed at most once,
\* and by the agent it was dispatched to (dispatch.rs run_inner).
THEOREM RunsOnce == DispatchSpec => []ExecutedOnce
<1>1. DispatchInv => ExecutedOnce
  BY DEF DispatchInv, LoopInv, PayloadInv, ExecutedOnce, DispatchTypeOK
<1>. QED
  BY <1>1, Inductive, PTL

\* What NatsDispatchAdapter::execute returns as Ok is never the text of an
\* adapter error, on any path of a result from the agent to the caller.
THEOREM AnswerIsOne == DispatchSpec => []OkIsAnAnswer
<1>1. DispatchInv => OkIsAnAnswer
  BY DEF DispatchInv, AnswerInv, Answered, OkIsAnAnswer
<1>. QED
  BY <1>1, Inductive, PTL

-----------------------------------------------------------------------------
(* Numbers *)

\* A set of numbers that is not empty has a least one.
LEMMA LeastNatural ==
  ASSUME NEW T, T \subseteq Nat, T # {}
  PROVE  \E x \in T : \A y \in T : x <= y
  <1>. DEFINE R == {ss \in Nat \X Nat : ss[1] < ss[2]}
  <1>1. IsWellFoundedOn(R, Nat)
    BY NatLessThanWellFounded, Zenon DEF OpToRel
  <1>2. PICK x \in T : \A y \in T : ~(<<y, x>> \in R)
    BY <1>1, WFMin, Zenon
  <1>3. ASSUME NEW y \in T PROVE x <= y
    <2>1. <<y, x>> \notin R
      BY <1>2
    <2>2. <<y, x>> \in Nat \X Nat /\ <<y, x>>[1] = y /\ <<y, x>>[2] = x
      OBVIOUS
    <2>3. ~(y < x)
      BY <2>1, <2>2
    <2>. QED  BY <2>3
  <1>. QED  BY <1>3

\* A bounded set of numbers that is not empty has a greatest one.
LEMMA GreatestNatural ==
  ASSUME NEW T, NEW n \in Nat, T \subseteq 0..n, T # {}
  PROVE  \E x \in T : \A y \in T : x >= y
<1>. DEFINE U == {n - x : x \in T}
<1>1. \A x \in T : x \in Nat /\ n - x \in Nat
  OBVIOUS
<1>2. U \subseteq Nat /\ U # {}
  BY <1>1
<1>3. PICK u \in U : \A w \in U : u <= w
  BY <1>2, LeastNatural
<1>4. PICK x \in T : u = n - x
  OBVIOUS
<1>5. ASSUME NEW y \in T PROVE x >= y
  <2>1. n - y \in U /\ n - x <= n - y
    BY <1>3, <1>4
  <2>. QED  BY <1>1, <2>1
<1>. QED  BY <1>5

\* Induction, on a set of numbers.
LEMMA Induction ==
  ASSUME NEW P, 0 \in P, \A n \in Nat : n \in P => n + 1 \in P
  PROVE  Nat \subseteq P
<1>1. SUFFICES ASSUME Nat \ P # {} PROVE FALSE OBVIOUS
<1>2. PICK n \in Nat \ P : \A m \in Nat \ P : n <= m BY <1>1, LeastNatural
<1>3. n # 0 /\ n - 1 \in Nat BY <1>2
<1>4. n - 1 \in P BY <1>2, <1>3
<1>5. (n - 1) + 1 = n BY <1>2, <1>3
<1> QED BY <1>2, <1>3, <1>4, <1>5

\* A function on 0..n that follows a recurrence.
Follows(f, n, x, next) == f[0] = x /\ \A i \in 1..n : f[i] = next[i][f[i - 1]]

\* One on all numbers.
Solves(f, S, x, next) ==
    f \in [Nat -> S] /\ f[0] = x /\ \A i \in Nat \ {0} : f[i] = next[i][f[i - 1]]

\* A recurrence has a solution.  What a recursive definition computes rests on it:
\* the definition chooses a function that satisfies the recurrence.
LEMMA Recursion ==
  ASSUME NEW S, NEW x \in S, NEW next \in [Nat -> [S -> S]]
  PROVE  \E f : Solves(f, S, x, next)
<1> DEFINE Fits(n) == {g \in [0..n -> S] : Follows(g, n, x, next)}
<1>1. \A n \in Nat : Fits(n) # {}
  <2> DEFINE P == {n \in Nat : Fits(n) # {}}
  <2>1. 0 \in P
    <3>1. [i \in 0..0 |-> x] \in Fits(0) BY DEF Follows
    <3> QED BY <3>1
  <2>2. ASSUME NEW n \in P PROVE n + 1 \in P
    <3>1. PICK g \in [0..n -> S] : Follows(g, n, x, next) OBVIOUS
    <3> DEFINE h == [i \in 0..(n + 1) |-> IF i = n + 1 THEN next[n + 1][g[n]] ELSE g[i]]
    <3>2. n \in Nat /\ n \in 0..n /\ g[n] \in S /\ next[n + 1] \in [S -> S] /\ next[n+1][g[n]] \in S
      OBVIOUS
    <3>3. h \in [0..(n + 1) -> S] BY <3>2
    <3>4. h[0] = x BY <3>1, <3>2 DEF Follows
    <3>5. ASSUME NEW i \in 1..(n + 1) PROVE h[i] = next[i][h[i - 1]]
      <4>1. CASE i = n + 1 BY <3>2, <4>1
      <4>2. CASE i # n + 1
        <5>1. i \in 1..n /\ i - 1 \in 0..n /\ i \in 0..n BY <3>2, <4>2
        <5>2. h[i] = g[i] /\ h[i - 1] = g[i - 1] BY <3>2, <4>2, <5>1
        <5> QED BY <3>1, <5>1, <5>2 DEF Follows
      <4> QED BY <4>1, <4>2
    <3>6. h \in Fits(n + 1) BY <3>3, <3>4, <3>5 DEF Follows
    <3> QED BY <3>2, <3>6
  <2> HIDE DEF P
  <2>3. \A n \in Nat : n \in P => n + 1 \in P BY <2>2
  <2>4. Nat \subseteq P BY <2>1, <2>3, Induction
  <2> QED BY <2>4 DEF P
\* two such functions agree where both are defined
<1>2. ASSUME NEW n \in Nat, NEW m \in Nat, n <= m, NEW g \in Fits(n), NEW h \in Fits(m)
      PROVE  \A i \in 0..n : g[i] = h[i]
  <2> DEFINE P == {i \in Nat : i <= n => g[i] = h[i]}
  <2>0. /\ g \in [0..n -> S] /\ Follows(g, n, x, next)
        /\ h \in [0..m -> S] /\ Follows(h, m, x, next) OBVIOUS
  <2>1. 0 \in P BY <2>0 DEF Follows
  <2>2. ASSUME NEW i \in Nat, i \in P PROVE i + 1 \in P
    <3>1. CASE i + 1 <= n
      <4>1. i + 1 \in 1..n /\ i + 1 \in 1..m /\ (i + 1) - 1 = i BY <1>2, <3>1
      <4>2. g[i] = h[i] BY <2>2, <3>1
      <4>3. g[i + 1] = next[i + 1][g[i]] /\ h[i + 1] = next[i + 1][h[i]] BY <2>0, <4>1 DEF Follows
      <4> QED BY <4>2, <4>3
    <3>2. CASE ~(i + 1 <= n) BY <3>2
    <3> QED BY <3>1, <3>2
  <2> HIDE DEF P
  <2>3. Nat \subseteq P BY <2>1, <2>2, Induction
  <2> QED BY <2>3 DEF P
<1> DEFINE fit == [n \in Nat |-> CHOOSE g \in Fits(n) : TRUE]
           f   == [n \in Nat |-> fit[n][n]]
<1>3. ASSUME NEW n \in Nat PROVE fit[n] \in Fits(n)
  <2>1. PICK g : g \in Fits(n) BY <1>1
  <2> HIDE DEF Fits
  <2>2. (CHOOSE h \in Fits(n) : TRUE) \in Fits(n) BY <2>1
  <2> QED BY <2>2
<1> HIDE DEF fit
<1>4. f \in [Nat -> S]
  <2>1. \A n \in Nat : fit[n] \in [0..n -> S] /\ n \in 0..n BY <1>3
  <2> QED BY <2>1
<1>5. f[0] = x
  <2>1. Follows(fit[0], 0, x, next) BY <1>3
  <2> QED BY <2>1 DEF Follows
<1>6. ASSUME NEW i \in Nat \ {0} PROVE f[i] = next[i][f[i - 1]]
  <2>1. i - 1 \in Nat /\ i - 1 <= i /\ i - 1 \in 0..(i - 1) /\ i \in 1..i OBVIOUS
  <2>2. fit[i] \in Fits(i) /\ fit[i - 1] \in Fits(i - 1) BY <1>3, <2>1
  <2>3. fit[i - 1][i - 1] = fit[i][i - 1]
    <3> HIDE DEF Fits
    <3>1. \A j \in 0..(i - 1) : fit[i - 1][j] = fit[i][j] BY <1>2, <2>1, <2>2
    <3> QED BY <2>1, <3>1
  <2>4. fit[i][i] = next[i][fit[i][i - 1]] BY <2>1, <2>2 DEF Follows
  <2> QED BY <2>1, <2>3, <2>4
<1> QED BY <1>4, <1>5, <1>6 DEF Solves

-----------------------------------------------------------------------------
(* Sequences *)

\* p lists the positions I in order, and the subsequence follows it.
Positions(p, s, I) ==
    /\ p \in [1..Cardinality(I) -> I]
    /\ \A k, l \in 1..Cardinality(I) : k < l => p[k] < p[l]
    /\ \A i \in I : \E k \in 1..Cardinality(I) : p[k] = i
    /\ Subsequence(s, I) = [k \in 1..Cardinality(I) |-> s[p[k]]]

\* The positions of a subsequence: in order, and none but those of I.
LEMMA SubsequencePositions ==
  ASSUME NEW n \in Nat, NEW I \in SUBSET (1..n), NEW s
  PROVE  /\ IsFiniteSet(I) /\ Cardinality(I) \in Nat
         /\ \E p : Positions(p, s, I)
<1> DEFINE Upto(i) == {j \in I : j <= i}
           Rank(i) == Cardinality(Upto(i))
           c == Cardinality(I)
<1>0. \A j \in I : j \in Nat /\ 1 <= j /\ j <= n OBVIOUS
<1>1. IsFiniteSet(I) /\ c \in Nat
  <2>1. IsFiniteSet(1..n) BY FS_Interval
  <2> QED BY <2>1, FS_Subset, FS_CardinalityType
<1>U. \A i : Upto(i) \subseteq I /\ \A j \in I : j \in Upto(i) <=> j <= i OBVIOUS
<1> HIDE DEF Upto
<1>2. \A i \in Nat : IsFiniteSet(Upto(i)) /\ Rank(i) \in Nat /\ Rank(i) <= c
  <2> SUFFICES ASSUME NEW i \in Nat PROVE IsFiniteSet(Upto(i)) /\ Rank(i) \in Nat /\ Rank(i) <= c
    OBVIOUS
  <2>1. Upto(i) \subseteq I BY <1>U
  <2> QED BY <1>1, <2>1, FS_Subset, FS_CardinalityType
<1>3. ASSUME NEW i \in Nat, NEW j \in I, i < j PROVE Rank(i) < Rank(j)
  <2>0. j \in Nat /\ \A x \in I : x \in Nat BY <1>0
  <2>1. Upto(i) \subseteq Upto(j)
    <3>1. \A x \in I : x <= i => x <= j BY <1>3, <2>0
    <3> QED BY <1>U, <3>1
  <2>1a. j \in Upto(j) /\ j \notin Upto(i)
    <3>1. j <= j /\ ~(j <= i) BY <1>3, <2>0
    <3> QED BY <1>U, <3>1
  <2>2. Upto(i) # Upto(j) /\ IsFiniteSet(Upto(j)) BY <1>2, <2>0, <2>1a
  <2>3. Rank(i) <= Rank(j) /\ Rank(i) # Rank(j) BY <2>1, <2>2, FS_Subset
  <2> QED BY <1>2, <2>0, <2>3
<1>4. ASSUME NEW i \in Nat PROVE Rank(i + 1) <= Rank(i) + 1 /\ (i + 1 \notin I => Rank(i + 1) = Rank(i))
  <2>1. CASE i + 1 \in I
    <3>0. /\ \A x \in I : x <= i + 1 <=> (x <= i \/ x = i + 1)
          /\ ~(i + 1 <= i) BY <1>0
    <3>1. Upto(i + 1) = Upto(i) \cup {i + 1} /\ i + 1 \notin Upto(i) BY <1>U, <2>1, <3>0
    <3> QED BY <1>2, <2>1, <3>1, FS_AddElement
  <2>2. CASE i + 1 \notin I
    <3>0. \A x \in I : x <= i + 1 <=> x <= i BY <1>0, <2>2
    <3>1. Upto(i + 1) \subseteq Upto(i) BY <1>U, <3>0
    <3>2. Upto(i) \subseteq Upto(i + 1) BY <1>U, <3>0
    <3>3. Upto(i + 1) = Upto(i) BY <3>1, <3>2
    <3> QED BY <1>2, <2>2, <3>3
  <2> QED BY <2>1, <2>2
<1>5. Rank(0) = 0 /\ Rank(n) = c
  <2>1. Upto(0) = {} /\ Upto(n) = I BY <1>0, <1>U
  <2> QED BY <2>1, FS_EmptySet
<1> HIDE DEF Rank, c
<1>6. \A k \in 1..c : \E i \in I : Rank(i) = k
  <2> SUFFICES ASSUME NEW k \in 1..c PROVE \E i \in I : Rank(i) = k OBVIOUS
  <2> DEFINE T == {i \in Nat : Rank(i) >= k}
  <2>1. n \in T BY <1>1, <1>5
  <2>2. PICK i \in T : \A j \in T : i <= j BY <2>1, LeastNatural
  <2>3. i # 0 /\ i \in Nat /\ i - 1 \in Nat /\ (i - 1) + 1 = i BY <1>1, <1>5
  <2>4. Rank(i - 1) < k /\ Rank(i) >= k BY <1>1, <1>2, <2>2, <2>3
  <2>5. Rank(i) <= Rank(i - 1) + 1 /\ (i \notin I => Rank(i) = Rank(i - 1)) BY <1>4, <2>3
  <2>6. Rank(i) \in Nat /\ Rank(i - 1) \in Nat BY <1>2, <2>3
  <2> QED BY <1>1, <2>4, <2>5, <2>6
<1> DEFINE p == [k \in 1..c |-> CHOOSE i \in I : Rank(i) = k]
<1>7. \A k \in 1..c : p[k] \in I /\ Rank(p[k]) = k BY <1>6
<1> HIDE DEF p
<1>8. ASSUME NEW k \in 1..c, NEW l \in 1..c, k < l PROVE p[k] < p[l]
  <2>1. p[k] \in Nat /\ p[l] \in Nat /\ p[k] \in I /\ p[l] \in I BY <1>0, <1>7
  <2>2. Rank(p[k]) = k /\ Rank(p[l]) = l BY <1>7
  <2>3. CASE p[l] < p[k]
    <3>1. Rank(p[l]) < Rank(p[k]) BY <1>3, <2>1, <2>3
    <3> QED BY <1>1, <1>8, <2>2, <3>1
  <2>4. p[l] # p[k] BY <1>8, <2>2, <1>1
  <2> QED BY <2>1, <2>3, <2>4
<1>9. ASSUME NEW i \in I PROVE \E k \in 1..c : p[k] = i
  <2>1. i \in Nat /\ i # 0 /\ Rank(i) \in Nat /\ Rank(i) <= c BY <1>2
  <2>2. Rank(0) < Rank(i) BY <1>3, <2>1
  <2>3. Rank(i) \in 1..c BY <1>1, <1>5, <2>1, <2>2
  <2>4. p[Rank(i)] \in I /\ Rank(p[Rank(i)]) = Rank(i) BY <1>7, <2>3
  <2>5. PICK m \in I : m = p[Rank(i)] /\ Rank(m) = Rank(i) BY <2>4
  <2>6. ~(m < i)
    <3>1. m < i => Rank(m) < Rank(i) BY <1>3, <2>5
    <3> QED BY <2>1, <2>5, <3>1
  <2>7. ~(i < m)
    <3>1. i < m => Rank(i) < Rank(m) BY <1>3, <2>1
    <3> QED BY <2>1, <2>5, <3>1
  <2>8. m = i BY <2>1, <2>5, <2>6, <2>7
  <2> QED BY <2>3, <2>5, <2>8
<1>10. Subsequence(s, I) = [k \in 1..c |-> s[p[k]]] BY DEF Subsequence, p, Rank, Upto, c
<1>11. p \in [1..c -> I] BY <1>7 DEF p
<1> QED BY <1>1, <1>8, <1>9, <1>10, <1>11 DEF c, Positions

\* Removing an element shortens a sequence by one.
LEMMA RemoveAtShortens ==
  ASSUME NEW S, NEW s \in Seq(S), NEW i \in 1..Len(s)
  PROVE  RemoveAt(s, i) \in Seq(S) /\ Len(RemoveAt(s, i)) = Len(s) - 1
<1>1. SubSeq(s, 1, i - 1) \in Seq(S) /\ Len(SubSeq(s, 1, i - 1)) = i - 1
  OBVIOUS
<1>2. SubSeq(s, i + 1, Len(s)) \in Seq(S) /\ Len(SubSeq(s, i + 1, Len(s))) = Len(s) - i
  OBVIOUS
<1>3. ASSUME NEW a \in Seq(S), NEW b \in Seq(S)
      PROVE  a \o b \in Seq(S) /\ Len(a \o b) = Len(a) + Len(b)
  OBVIOUS
<1>4. RemoveAt(s, i) = SubSeq(s, 1, i - 1) \o SubSeq(s, i + 1, Len(s))
  BY DEF RemoveAt
<1>5. RemoveAt(s, i) \in Seq(S) /\ Len(RemoveAt(s, i)) = (i - 1) + (Len(s) - i)
  BY <1>1, <1>2, <1>3, <1>4
<1>6. (i - 1) + (Len(s) - i) = Len(s) - 1
  OBVIOUS
<1>. QED  BY <1>5, <1>6

\* A subsequence holds the elements at its positions and no others.
LEMMA SubsequenceType ==
  ASSUME NEW S, NEW s \in Seq(S), NEW I \in SUBSET DOMAIN s
  PROVE  /\ Subsequence(s, I) \in Seq(S)
         /\ \A i \in I : \E k \in DOMAIN Subsequence(s, I) : Subsequence(s, I)[k] = s[i]
         /\ \A k \in DOMAIN Subsequence(s, I) : \E i \in I : Subsequence(s, I)[k] = s[i]
<1>1. Len(s) \in Nat /\ I \in SUBSET (1 .. Len(s)) /\ DOMAIN s = 1 .. Len(s)
  OBVIOUS
<1>2. Cardinality(I) \in Nat /\ \E p : Positions(p, s, I)
  BY <1>1, SubsequencePositions
<1>3. PICK p : Positions(p, s, I)
  BY <1>2
<1>4. PICK c \in Nat : c = Cardinality(I)
  BY <1>2
<1>5. PICK q : q = Subsequence(s, I)
  OBVIOUS
<1>6. /\ p \in [1 .. c -> I] /\ q = [k \in 1 .. c |-> s[p[k]]]
      /\ \A i \in I : \E k \in 1 .. c : p[k] = i
  BY <1>3, <1>4, <1>5 DEF Positions
<1>7. \A k \in 1 .. c : p[k] \in I /\ s[p[k]] \in S
  BY <1>1, <1>6
<1>8. q \in [1 .. c -> S] /\ DOMAIN q = 1 .. c /\ \A k \in 1 .. c : q[k] = s[p[k]]
  BY <1>6, <1>7
<1>9. q \in Seq(S)
  BY <1>4, <1>8
<1>. QED  BY <1>5, <1>6, <1>7, <1>8, <1>9

-----------------------------------------------------------------------------
(* TaskPreparation: the awareness probe *)

\* What a judge answers: a sequence of verdicts with the indices they are for.
Answer(v) == \E n \in Nat : v \in [1 .. n -> [idx : Int, verdict : Verdict]]

\* An answer is acted on in the thinking loop's first run only.
ProbeInv == phase = "probed" => runs = 1 /\ \A v \in answer : Answer(v)

\* The probe leaves the state from which it is acted on as ProbeInv says: the
\* steps of the pipeline keep it.
LEMMA ProbeInvHolds == PrepareSpec => []ProbeInv
<1>1. PrepareInit => ProbeInv
  BY DEF PrepareInit, ProbeInv
<1>2. ProbeInv /\ [PrepareNext]_prepareVars => ProbeInv'
  <2>. SUFFICES ASSUME ProbeInv, [PrepareNext]_prepareVars, phase' = "probed"
                PROVE  runs' = 1 /\ \A v \in answer' : Answer(v)
    BY DEF ProbeInv, Answer
  <2>1. CASE UNCHANGED prepareVars
    BY <2>1 DEF ProbeInv, prepareVars
  <2>2. CASE JudgeAnswers
    <3>1. runs = 1 /\ runs' = 1
      BY <2>2 DEF JudgeAnswers
    <3>2. PICK verdicts \in SeqOf([idx : 1 .. Len(ProbeItems) + 1, verdict : Verdict], JudgeBound) :
               answer' \in {{}, {verdicts}}
      BY <2>2, <3>1 DEF JudgeAnswers
    <3>3. PICK n \in 0 .. JudgeBound :
               verdicts \in [1 .. n -> [idx : 1 .. Len(ProbeItems) + 1, verdict : Verdict]]
      BY <3>2, JudgeAssumption DEF SeqOf
    <3>4. verdicts \in [1 .. n -> [idx : Int, verdict : Verdict]]
      BY <3>3
    <3>. QED  BY <3>1, <3>2, <3>3, <3>4, JudgeAssumption DEF Answer
  <2>3. ASSUME PipelineStep, ~JudgeAnswers PROVE phase' # "probed"
    BY <2>3 DEF PipelineStep, OwnStep, ModelStep, StartThinking, SelectArchetypes, Brainstorm, Synthesize, Assess,
             LeaveLoop, NextIteration, ActOnProbe, DecomposeStep, FailTask, AssembleTeam,
             Bootstrap, Complexity, DomainCoverage, RateTask, Provision
  <2>. QED  BY <2>1, <2>2, <2>3 DEF PrepareNext, Prepared
<1>. QED  BY <1>1, <1>2, PTL DEF PrepareSpec

\* The verdict that counts for an item is one of the judge's, for that item.
LEMMA JudgedIsAnswered ==
  ASSUME NEW v, Answer(v), NEW i \in DOMAIN Judged(v)
  PROVE  \E k \in DOMAIN v : v[k] = [idx |-> i, verdict |-> Judged(v)[i]]
<1>1. PICK n \in Nat : v \in [1 .. n -> [idx : Int, verdict : Verdict]]
  BY DEF Answer
<1>. DEFINE K == {k \in DOMAIN v : v[k].idx = i}
<1>2. K # {} /\ K \subseteq Nat /\ Judged(v)[i] = v[Min(K)].verdict
  BY <1>1 DEF Judged
<1>3. PICK k \in K : \A j \in K : k <= j
  BY <1>2, LeastNatural
<1>4. Min(K) \in K
  BY <1>3 DEF Min
<1>5. v[Min(K)] \in [idx : Int, verdict : Verdict] /\ v[Min(K)].idx = i
  BY <1>1, <1>4
<1>. QED  BY <1>2, <1>4, <1>5

\* The thinking loop is started again only by an active probe, and only on a
\* judgement that is complete and contradicts a hard, ungated constraint.
THEOREM Reiteration == PrepareSpec => ReiterationIsJustified
<1>. DEFINE Justified ==
       phase' = "think" =>
         /\ runs = 1 /\ task.probe.active
         /\ \E v \in answer :
              /\ DOMAIN ProbeItems \subseteq {v[k].idx : k \in DOMAIN v}
              /\ \E i \in DOMAIN ProbeItems, k \in DOMAIN v :
                   /\ v[k] = [idx |-> i, verdict |-> "CONTRADICTED"]
                   /\ ProbeItems[i].hard /\ ~ProbeItems[i].gated
<1>1. ASSUME ProbeInv, PrepareNext PROVE Justified \/ UNCHANGED prepareVars
  <2>1. CASE Prepared
    BY <2>1 DEF Prepared
  <2>2. ASSUME PipelineStep, ~ActOnProbe PROVE phase' # "think"
    BY <2>2 DEF PipelineStep, OwnStep, ModelStep, StartThinking, SelectArchetypes, Brainstorm, Synthesize, Assess,
             LeaveLoop, NextIteration, JudgeAnswers, DecomposeStep, FailTask, AssembleTeam,
             Bootstrap, Complexity, DomainCoverage, RateTask, Provision
  <2>3. ASSUME ActOnProbe, phase' = "think" PROVE Justified
    <3>1. /\ runs = 1 /\ \A v \in answer : Answer(v)
          /\ task.probe.active /\ ~Degraded /\ Blocking # {}
      BY <1>1, <2>3 DEF ActOnProbe, ReIterationPrompt, ProbeInv
    <3>2. PICK v \in answer : \E i \in DOMAIN Judged(v) :
               /\ Judged(v)[i] = "CONTRADICTED"
               /\ ProbeItems[i].hard /\ ~ProbeItems[i].gated
      BY <3>1 DEF Blocking
    <3>3. PICK i \in DOMAIN Judged(v) :
               /\ Judged(v)[i] = "CONTRADICTED"
               /\ ProbeItems[i].hard /\ ~ProbeItems[i].gated
      BY <3>2
    <3>4. DOMAIN Judged(v) = DOMAIN ProbeItems
      BY <3>1 DEF Degraded
    <3>5. DOMAIN Judged(v) \subseteq {v[k].idx : k \in DOMAIN v}
      BY DEF Judged
    <3>6. \E k \in DOMAIN v : v[k] = [idx |-> i, verdict |-> "CONTRADICTED"]
      BY <3>1, <3>3, JudgedIsAnswered
    <3>. QED  BY <3>1, <3>3, <3>4, <3>5, <3>6
  <2>. QED  BY <1>1, <2>1, <2>2, <2>3 DEF PrepareNext
<1>2. ASSUME ProbeInv, [PrepareNext]_prepareVars PROVE [Justified]_prepareVars
  BY <1>1, <1>2
<1>. QED  BY <1>2, ProbeInvHolds, PTL DEF PrepareSpec, ReiterationIsJustified

-----------------------------------------------------------------------------
(* TaskPreparation: the team *)

\* The slots there are: answered ones, the operator's and the domains' own.
AnsweredSlots == UNION {ToSet(raw) : raw \in SlotAnswers}
OperatorSlots == UNION {ToSet(c.extra) : c \in Submissions}
DomainSlots ==
    UNION {{DomainToSlot(d, Spelt(d, c.corpus)) : d \in DomainsOf(c.corpus)} : c \in Submissions}
SlotConfig == AnsweredSlots \cup OperatorSlots \cup DomainSlots

\* There is a slot most like the others.
LEMMA MostAlikeIsPlace ==
  ASSUME NEW team \in Seq(SlotConfig), team # <<>>
  PROVE  MostAlike(team) \in 1..Len(team)
<1>. DEFINE n == Len(team)
            Alike(i) == Cardinality({j \in DOMAIN team \ {i} : team[j].frame = team[i].frame})
            T == {Alike(i) : i \in 1..n}
            Best == {i \in DOMAIN team : \A j \in DOMAIN team : Alike(i) >= Alike(j)}
<1>1. n \in Nat /\ 1 \in 1..n /\ DOMAIN team = 1..n
  OBVIOUS
<1>2. ASSUME NEW i \in 1..n PROVE Alike(i) \in 0..n
  <2>. DEFINE A == {j \in DOMAIN team \ {i} : team[j].frame = team[i].frame}
  <2>0. IsFiniteSet(1..n) /\ Cardinality(1..n) = (n - 1) + 1 /\ (n - 1) + 1 = n
    BY <1>1, FS_Interval
  <2>1. A \subseteq 1..n /\ IsFiniteSet(1..n) /\ Cardinality(1..n) = n
    BY <1>1, <2>0
  <2>2. Cardinality(A) \in Nat /\ Cardinality(A) <= n
    BY <2>1, FS_Subset, FS_CardinalityType
  <2>. QED  BY <2>2
<1>3. MostAlike(team) = Max(Best)
  BY DEF MostAlike
<1>. HIDE DEF Alike
<1>4. T \subseteq 0..n /\ T # {}
  BY <1>1, <1>2
<1>5. PICK t \in T : \A u \in T : t >= u
  BY <1>1, <1>4, GreatestNatural
<1>6. Best \subseteq 0..n /\ Best # {}
  <2>1. PICK i \in 1..n : t = Alike(i)
    OBVIOUS
  <2>2. \A j \in 1..n : Alike(i) >= Alike(j)
    BY <1>5, <2>1
  <2>. QED  BY <1>1, <2>1, <2>2
<1>7. PICK b \in Best : \A c \in Best : b >= c
  <2>. HIDE DEF Best
  <2>. QED  BY <1>1, <1>6, GreatestNatural
<1>8. Max(Best) \in Best
  <2>. HIDE DEF Best
  <2>. QED  BY <1>7 DEF Max
<1>. QED  BY <1>1, <1>3, <1>8

\* Pruning by likeness removes the surplus slots and no more.
LEMMA PruneByOrthogonalityLength ==
  ASSUME NEW team \in Seq(SlotConfig), NEW n \in Nat \ {0}
  PROVE  /\ PruneByOrthogonality(team, n) \in Seq(SlotConfig)
         /\ Len(team) <= n => PruneByOrthogonality(team, n) = team
         /\ Len(team) > n => Len(PruneByOrthogonality(team, n)) = n
<1>. DEFINE surplus == Greatest(Len(team) - n, 0)
            Shorter(s) == RemoveAt(s, MostAlike(s))
            Body(g) == [k \in 0 .. surplus |-> IF k = 0 THEN team ELSE Shorter(g[k - 1])]
            kept == CHOOSE g : g = Body(g)
            next == [k \in Nat |-> [s \in Seq(SlotConfig) |-> IF s = <<>> THEN s ELSE Shorter(s)]]
<1>1. PruneByOrthogonality(team, n) = kept[surplus]
  BY DEF PruneByOrthogonality
<1>2. /\ surplus \in Nat /\ Len(team) \in Nat /\ n \in Nat /\ n > 0
      /\ Len(team) <= n => surplus = 0
      /\ Len(team) > n => surplus = Len(team) - n
  BY DEF Greatest
<1>a. ASSUME NEW k \in Nat, k + 1 <= surplus PROVE Len(team) > k
  <2>1. Len(team) > n
    BY <1>2, <1>a
  <2>2. surplus = Len(team) - n
    BY <1>2, <2>1
  <2>. QED  BY <1>2, <1>a, <2>2
<1>. HIDE DEF surplus
<1>3. ASSUME NEW s \in Seq(SlotConfig), s # <<>>
      PROVE  Shorter(s) \in Seq(SlotConfig) /\ Len(Shorter(s)) = Len(s) - 1
  <2>1. MostAlike(s) \in 1..Len(s)
    BY <1>3, MostAlikeIsPlace
  <2>. QED  BY <2>1, RemoveAtShortens
<1>. HIDE DEF Shorter
<1>4. next \in [Nat -> [Seq(SlotConfig) -> Seq(SlotConfig)]]
  BY <1>3
<1>. HIDE DEF next
<1>5. PICK f \in [Nat -> Seq(SlotConfig)] :
           f[0] = team /\ \A i \in Nat \ {0} : f[i] = next[i][f[i - 1]]
  <2>. DEFINE S == Seq(SlotConfig)
  <2>0. team \in S
    OBVIOUS
  <2>1. next \in [Nat -> [S -> S]]
    BY <1>4
  <2>. HIDE DEF S
  <2>2. PICK f : Solves(f, S, team, next)
    BY <2>0, <2>1, Recursion
  <2>. QED  BY <2>2 DEF Solves, S
<1>6. \A k \in 0 .. surplus : Len(f[k]) = Len(team) - k
  <2>. DEFINE P == {k \in Nat : k <= surplus => Len(f[k]) = Len(team) - k}
  <2>1. 0 \in P
    BY <1>2, <1>5
  <2>2. ASSUME NEW k \in Nat, k \in P PROVE k + 1 \in P
    <3>. SUFFICES ASSUME k + 1 <= surplus PROVE Len(f[k + 1]) = Len(team) - (k + 1)
      OBVIOUS
    <3>1. Len(f[k]) = Len(team) - k /\ f[k] \in Seq(SlotConfig)
      BY <1>2, <2>2
    <3>a. Len(team) > k
      BY <1>a
    <3>2. f[k] # <<>>
      BY <1>2, <3>1, <3>a
    <3>3. k + 1 \in Nat \ {0} /\ (k + 1) - 1 = k
      OBVIOUS
    <3>4. f[k + 1] = next[k + 1][f[k]]
      BY <1>5, <3>3
    <3>5. f[k + 1] = Shorter(f[k])
      BY <3>1, <3>2, <3>3, <3>4 DEF next
    <3>6. Len(f[k + 1]) = Len(f[k]) - 1
      BY <1>3, <3>1, <3>2, <3>5
    <3>. QED  BY <1>2, <3>1, <3>6
  <2>. HIDE DEF P
  <2>3. Nat \subseteq P
    BY <2>1, <2>2, Induction
  <2>. QED  BY <1>2, <2>3 DEF P
<1>7. \A k \in 1 .. surplus : f[k] = Shorter(f[k - 1])
  <2>. SUFFICES ASSUME NEW k \in 1 .. surplus PROVE f[k] = Shorter(f[k - 1])
    OBVIOUS
  <2>1. k \in Nat \ {0} /\ k - 1 \in 0 .. surplus /\ k - 1 \in Nat
    BY <1>2
  <2>2. f[k - 1] \in Seq(SlotConfig) /\ Len(f[k - 1]) = Len(team) - (k - 1)
    BY <1>6, <2>1
  <2>a. Len(team) > k - 1
    BY <1>2, <1>a, <2>1
  <2>3. f[k - 1] # <<>>
    BY <1>2, <2>1, <2>2, <2>a
  <2>4. f[k] = next[k][f[k - 1]]
    BY <1>5, <2>1
  <2>. QED  BY <2>1, <2>2, <2>3, <2>4 DEF next
<1>. DEFINE h == [k \in 0 .. surplus |-> f[k]]
<1>8. h = Body(h)
  <2>1. ASSUME NEW k \in 0 .. surplus
        PROVE  h[k] = IF k = 0 THEN team ELSE Shorter(h[k - 1])
    <3>1. CASE k = 0
      BY <1>2, <1>5, <3>1
    <3>2. CASE k # 0
      <4>1. k \in 1 .. surplus /\ k - 1 \in 0 .. surplus
        BY <1>2, <3>2
      <4>. QED  BY <1>7, <3>2, <4>1
    <3>. QED  BY <3>1, <3>2
  <2>. QED  BY <2>1
<1>9. kept = Body(kept)
  <2>. HIDE DEF h, Body
  <2>. QED  BY <1>8
<1>. HIDE DEF kept, h
<1>10. \A k \in 0 .. surplus : kept[k] = f[k]
  <2>. DEFINE P == {k \in Nat : k <= surplus => kept[k] = f[k]}
  <2>1. 0 \in P
    <3>1. 0 \in 0 .. surplus
      BY <1>2
    <3>2. kept[0] = team
      BY <1>9, <3>1
    <3>. QED  BY <1>5, <3>2
  <2>2. ASSUME NEW k \in Nat, k \in P PROVE k + 1 \in P
    <3>. SUFFICES ASSUME k + 1 <= surplus PROVE kept[k + 1] = f[k + 1]
      OBVIOUS
    <3>1. k + 1 \in 1 .. surplus /\ k + 1 \in 0 .. surplus /\ (k + 1) - 1 = k /\ k + 1 # 0
      BY <1>2
    <3>2. kept[k] = f[k]
      BY <1>2, <2>2
    <3>3. kept[k + 1] = Shorter(kept[(k + 1) - 1])
      BY <1>9, <3>1
    <3>. QED  BY <1>7, <3>1, <3>2, <3>3
  <2>. HIDE DEF P
  <2>3. Nat \subseteq P
    BY <2>1, <2>2, Induction
  <2>. QED  BY <1>2, <2>3 DEF P
<1>11. kept[surplus] = f[surplus] /\ Len(f[surplus]) = Len(team) - surplus
  <2>1. surplus \in 0 .. surplus
    BY <1>2
  <2>. QED  BY <1>6, <1>10, <2>1
<1>12. PruneByOrthogonality(team, n) \in Seq(SlotConfig)
  BY <1>1, <1>2, <1>5, <1>11
<1>13. CASE Len(team) <= n
  BY <1>1, <1>2, <1>5, <1>11, <1>12, <1>13
<1>14. CASE Len(team) > n
  BY <1>1, <1>2, <1>11, <1>12, <1>14
<1>. QED  BY <1>2, <1>13, <1>14

\* The limit is at least one.
LEMMA LimitType ==
  ASSUME task \in Submissions
  PROVE  Limit \in Nat \ {0}
BY SlotsAssumption DEF Limit, Greatest, Least

\* A team within the limit stays as it is, a larger one shrinks to the limit.
LEMMA PruneLength ==
  ASSUME task \in Submissions, NEW team \in Seq(SlotConfig)
  PROVE  /\ Prune(team) \in Seq(SlotConfig)
         /\ Len(team) <= Limit => Prune(team) = team
         /\ Len(team) > Limit => Len(Prune(team)) = Limit
<1>1. Limit \in Nat \ {0}
  BY LimitType
<1>2. CASE task.embedding
  <2>1. Prune(team) = PruneByOrthogonality(team, Limit)
    BY <1>2 DEF Prune
  <2>. QED  BY <1>1, <2>1, PruneByOrthogonalityLength
<1>3. CASE ~task.embedding
  <2>1. Prune(team) = SubSeq(team, 1, Least(Len(team), Limit))
    BY <1>3 DEF Prune
  <2>2. Len(team) \in Nat
    OBVIOUS
  <2>3. CASE Len(team) <= Limit
    <3>1. Least(Len(team), Limit) = Len(team)
      BY <1>1, <2>2, <2>3 DEF Least
    <3>2. SubSeq(team, 1, Len(team)) = team
      OBVIOUS
    <3>. QED  BY <1>1, <2>1, <2>2, <2>3, <3>1, <3>2
  <2>4. CASE Len(team) > Limit
    <3>1. Least(Len(team), Limit) = Limit
      BY <1>1, <2>2, <2>4 DEF Least
    <3>2. PICK l \in Nat \ {0} : l = Limit
      BY <1>1
    <3>3. SubSeq(team, 1, l) \in Seq(SlotConfig) /\ Len(SubSeq(team, 1, l)) = l
      BY <2>2, <2>4, <3>2
    <3>. QED  BY <1>1, <2>1, <2>2, <2>4, <3>1, <3>2, <3>3
  <2>. QED  BY <1>1, <2>2, <2>3, <2>4
<1>. QED  BY <1>2, <1>3

\* Some slot of the team is for the domain.
Covered(d, team) == \E s \in ToSet(team) : d \in s.mentions \cup s.declares

\* A slot that covers a domain still does in a longer team.
LEMMA AppendCovers ==
  ASSUME NEW team \in Seq(SlotConfig), NEW slot \in SlotConfig
  PROVE  /\ Append(team, slot) \in Seq(SlotConfig) /\ Append(team, slot) # <<>>
         /\ \A d : Covered(d, team) => Covered(d, Append(team, slot))
         /\ \A d \in slot.declares : Covered(d, Append(team, slot))
<1>. DEFINE more == Append(team, slot)
            n == Len(team)
<1>1. /\ more \in Seq(SlotConfig) /\ more # <<>> /\ n \in Nat
      /\ DOMAIN team = 1 .. n /\ DOMAIN more = 1 .. (n + 1)
      /\ \A i \in 1 .. n : more[i] = team[i]
      /\ more[n + 1] = slot
  OBVIOUS
<1>. HIDE DEF more, n
<1>2. ASSUME NEW d, Covered(d, team) PROVE Covered(d, more)
  <2>1. PICK i \in DOMAIN team : d \in team[i].mentions \cup team[i].declares
    BY <1>2 DEF Covered, ToSet
  <2>2. i \in DOMAIN more /\ more[i] = team[i]
    BY <1>1, <2>1
  <2>. QED  BY <2>1, <2>2 DEF Covered, ToSet
<1>3. ASSUME NEW d \in slot.declares PROVE Covered(d, more)
  <2>1. n + 1 \in DOMAIN more
    BY <1>1
  <2>. QED  BY <1>1, <1>3, <2>1 DEF Covered, ToSet
<1>. QED  BY <1>1, <1>2, <1>3 DEF more

\* One turn of the coverage check covers its domain and uncovers none.
LEMMA CoverDomainCovers ==
  ASSUME task \in Submissions, NEW team \in Seq(SlotConfig), team # <<>>,
         NEW d \in DomainsOf(task.corpus)
  PROVE  /\ CoverDomain(team, d) \in Seq(SlotConfig) /\ CoverDomain(team, d) # <<>>
         /\ \A e : Covered(e, team) => Covered(e, CoverDomain(team, d))
         /\ Covered(d, CoverDomain(team, d))
<1>1. CASE Mentioned(d, team)
  BY <1>1 DEF CoverDomain, Mentioned, Covered
<1>2. CASE ~Mentioned(d, team)
  <2>. DEFINE slot == DomainToSlot(d, Spelt(d, task.corpus))
  <2>1. slot \in DomainSlots
    <3>. DEFINE Own(c) == {DomainToSlot(e, Spelt(e, c.corpus)) : e \in DomainsOf(c.corpus)}
    <3>1. slot \in Own(task)
      OBVIOUS
    <3>2. DomainSlots = UNION {Own(c) : c \in Submissions}
      BY DEF DomainSlots
    <3>. HIDE DEF slot, Own
    <3>. QED  BY <3>1, <3>2
  <2>2. d \in slot.declares
    BY DEF DomainToSlot
  <2>3. slot \in SlotConfig
    BY <2>1 DEF SlotConfig
  <2>4. CoverDomain(team, d) = Append(team, slot)
    BY <1>2 DEF CoverDomain
  <2>. HIDE DEF slot
  <2>. QED  BY <2>2, <2>3, <2>4, AppendCovers
<1>. QED  BY <1>1, <1>2

\* Every domain the answer leaves out is covered in the end, by a slot of its own
\* or by one appended for a domain before it.
LEMMA CoverDomainsCovers ==
  ASSUME task \in Submissions, NEW team \in Seq(SlotConfig), team # <<>>
  PROVE  /\ CoverDomains(team) \in Seq(SlotConfig) /\ Len(CoverDomains(team)) >= 1
         /\ \A d \in DomainsOf(task.corpus) : Covered(d, CoverDomains(team))
<1>. DEFINE Names == DomainsOf(task.corpus)
            Teams == Seq(SlotConfig) \ {<<>>}
            last == Len(task.domains)
            Body(g) == [k \in 0 .. last |->
                           IF k = 0 THEN team ELSE CoverDomain(g[k - 1], task.domains[k])]
            covered == CHOOSE g : g = Body(g)
            next == [k \in Nat |-> [s \in Teams |->
                        IF k \in 1 .. last THEN CoverDomain(s, task.domains[k]) ELSE s]]
<1>1. CoverDomains(team) = covered[last]
  BY DEF CoverDomains
<1>2. /\ last \in Nat /\ DOMAIN task.domains = 1 .. last
      /\ \A k \in 1 .. last : task.domains[k] \in Names
      /\ \A d \in Names : \E k \in 1 .. last : task.domains[k] = d
  <2>. DEFINE ds == task.domains
  <2>1. ds \in Seq(Names) /\ ToSet(ds) = Names
    BY DomainsAssumption
  <2>2. ToSet(ds) = {ds[k] : k \in DOMAIN ds}
    BY DEF ToSet
  <2>. HIDE DEF Names, ds
  <2>3. Len(ds) \in Nat /\ DOMAIN ds = 1 .. Len(ds)
    BY <2>1
  <2>. QED  BY <2>1, <2>2, <2>3 DEF ds
<1>. HIDE DEF last, Names
<1>3. ASSUME NEW s \in Teams, NEW k \in 1 .. last
      PROVE  /\ CoverDomain(s, task.domains[k]) \in Teams
             /\ \A e : Covered(e, s) => Covered(e, CoverDomain(s, task.domains[k]))
             /\ Covered(task.domains[k], CoverDomain(s, task.domains[k]))
  BY <1>2, CoverDomainCovers DEF Names
<1>4. next \in [Nat -> [Teams -> Teams]]
  BY <1>3
<1>. HIDE DEF next
<1>5. PICK f \in [Nat -> Teams] :
           f[0] = team /\ \A i \in Nat \ {0} : f[i] = next[i][f[i - 1]]
  <2>0. team \in Teams
    OBVIOUS
  <2>. HIDE DEF Teams
  <2>1. PICK g : Solves(g, Teams, team, next)
    BY <1>4, <2>0, Recursion
  <2>. QED  BY <2>1 DEF Solves
<1>6. \A k \in 1 .. last : f[k - 1] \in Teams /\ f[k] = CoverDomain(f[k - 1], task.domains[k])
  <2>. SUFFICES ASSUME NEW k \in 1 .. last
                PROVE  f[k - 1] \in Teams /\ f[k] = CoverDomain(f[k - 1], task.domains[k])
    OBVIOUS
  <2>1. k \in Nat \ {0} /\ k - 1 \in Nat
    BY <1>2
  <2>2. f[k - 1] \in Teams /\ f[k] = next[k][f[k - 1]]
    BY <1>5, <2>1
  <2>. HIDE DEF Teams
  <2>. QED  BY <2>1, <2>2 DEF next
<1>. DEFINE h == [k \in 0 .. last |-> f[k]]
<1>7. h = Body(h)
  <2>1. ASSUME NEW k \in 0 .. last
        PROVE  h[k] = IF k = 0 THEN team ELSE CoverDomain(h[k - 1], task.domains[k])
    <3>1. CASE k = 0
      BY <1>2, <1>5, <3>1
    <3>2. CASE k # 0
      <4>1. k \in 1 .. last /\ k - 1 \in 0 .. last
        BY <1>2, <3>2
      <4>. QED  BY <1>6, <3>2, <4>1
    <3>. QED  BY <3>1, <3>2
  <2>. QED  BY <2>1
<1>8. covered = Body(covered)
  <2>. HIDE DEF h, Body
  <2>. QED  BY <1>7
<1>. HIDE DEF covered, h, Teams
<1>9. \A k \in 0 .. last : /\ covered[k] = f[k]
                           /\ \A j \in 1 .. k : Covered(task.domains[j], f[k])
  <2>. DEFINE P == {k \in Nat : k <= last =>
                       /\ covered[k] = f[k]
                       /\ \A j \in 1 .. k : Covered(task.domains[j], f[k])}
  <2>1. 0 \in P
    <3>1. 0 \in 0 .. last
      BY <1>2
    <3>2. covered[0] = team
      BY <1>8, <3>1
    <3>. QED  BY <1>5, <3>2
  <2>2. ASSUME NEW k \in Nat, k \in P PROVE k + 1 \in P
    <3>. SUFFICES ASSUME k + 1 <= last
                  PROVE  /\ covered[k + 1] = f[k + 1]
                         /\ \A j \in 1 .. (k + 1) : Covered(task.domains[j], f[k + 1])
      OBVIOUS
    <3>1. k + 1 \in 1 .. last /\ k + 1 \in 0 .. last /\ (k + 1) - 1 = k /\ k + 1 # 0
      BY <1>2
    <3>2. covered[k] = f[k] /\ \A j \in 1 .. k : Covered(task.domains[j], f[k])
      BY <1>2, <2>2
    <3>3. covered[k + 1] = CoverDomain(covered[(k + 1) - 1], task.domains[k + 1])
      BY <1>8, <3>1
    <3>4. f[k] \in Teams /\ f[k + 1] = CoverDomain(f[k], task.domains[k + 1])
      BY <1>6, <3>1
    <3>5. covered[k + 1] = f[k + 1]
      BY <3>1, <3>2, <3>3, <3>4
    <3>6. ASSUME NEW j \in 1 .. (k + 1) PROVE Covered(task.domains[j], f[k + 1])
      <4>1. CASE j = k + 1
        BY <1>3, <3>1, <3>4, <4>1
      <4>2. CASE j # k + 1
        <5>1. j \in 1 .. k
          BY <4>2
        <5>. QED  BY <1>3, <3>1, <3>2, <3>4, <5>1
      <4>. QED  BY <4>1, <4>2
    <3>. QED  BY <3>5, <3>6
  <2>. HIDE DEF P
  <2>3. Nat \subseteq P
    BY <2>1, <2>2, Induction
  <2>. QED  BY <1>2, <2>3 DEF P
<1>10. covered[last] = f[last] /\ \A j \in 1 .. last : Covered(task.domains[j], f[last])
  <2>1. last \in 0 .. last
    BY <1>2
  <2>. QED  BY <1>9, <2>1
<1>11. f[last] \in Teams
  BY <1>2, <1>5
<1>12. f[last] \in Seq(SlotConfig) /\ Len(f[last]) >= 1
  BY <1>11 DEF Teams
<1>13. \A d \in Names : Covered(d, f[last])
  BY <1>2, <1>10
<1>. QED  BY <1>1, <1>10, <1>12, <1>13 DEF Names

\* The team of a readable answer.
LEMMA TeamFits ==
  ASSUME task \in Submissions, NEW raw \in SlotAnswers, ParseSlots(raw) # <<>>
  PROVE  /\ Len(Team(raw)) \in 1 .. Limit
         /\ Len(Team(raw)) < Limit => \A d \in DomainsOf(task.corpus) : Covered(d, Team(raw))
<1>1. raw \in Seq(SlotConfig) /\ task.extra \in Seq(SlotConfig)
  <2>0. ToSet(raw) \subseteq AnsweredSlots
    BY Zenon DEF AnsweredSlots
  <2>a. ToSet(task.extra) \subseteq OperatorSlots
    BY Zenon DEF OperatorSlots
  <2>1. ToSet(raw) \subseteq SlotConfig /\ ToSet(task.extra) \subseteq SlotConfig
    BY <2>0, <2>a DEF SlotConfig
  <2>2. raw \in Seq(ToSet(raw)) /\ task.extra \in Seq(ToSet(task.extra))
    BY SlotsAssumption
  <2>3. \A S : S \subseteq SlotConfig => Seq(S) \subseteq Seq(SlotConfig)
    OBVIOUS
  <2>. QED  BY <2>1, <2>2, <2>3
<1>2. ParseSlots(raw) \in Seq(SlotConfig)
  <2>. DEFINE I == {i \in DOMAIN raw : raw[i].frame # ""}
  <2>1. I \in SUBSET DOMAIN raw /\ ParseSlots(raw) = Subsequence(raw, I)
    BY DEF ParseSlots
  <2>. HIDE DEF I
  <2>. QED  BY <1>1, <2>1, SubsequenceType
<1>3. PICK lim \in Nat \ {0} : lim = Limit
  BY LimitType
<1>4. PICK all \in Seq(SlotConfig) :
           /\ all = CoverDomains(ParseSlots(raw)) /\ Len(all) >= 1
           /\ \A d \in DomainsOf(task.corpus) : Covered(d, all)
  BY <1>2, CoverDomainsCovers
<1>5. PICK agent \in Seq(SlotConfig) :
           /\ agent = Prune(all)
           /\ Len(all) <= lim => agent = all
           /\ Len(all) > lim => Len(agent) = lim
  BY <1>3, <1>4, PruneLength
<1>6. Len(agent) \in 1 .. lim /\ (Len(agent) < lim => agent = all)
  BY <1>3, <1>4, <1>5
<1>7. CASE task.extra = <<>>
  <2>1. Team(raw) = agent
    BY <1>4, <1>5, <1>7 DEF Team
  <2>. QED  BY <1>3, <1>4, <1>6, <2>1
<1>8. CASE task.extra # <<>>
  <2>1. PICK both \in Seq(SlotConfig) : both = agent \o task.extra
    <3>1. \A a, b \in Seq(SlotConfig) : a \o b \in Seq(SlotConfig)
      OBVIOUS
    <3>. QED  BY <1>1, <1>5, <3>1
  <2>2. Team(raw) = Prune(both)
    BY <1>4, <1>5, <1>8, <2>1 DEF Team
  <2>3. PICK team \in Seq(SlotConfig) :
           /\ team = Prune(both)
           /\ Len(both) <= lim => team = both
           /\ Len(both) > lim => Len(team) = lim
    BY <1>3, <2>1, PruneLength
  <2>4. Len(both) >= Len(agent) /\ Len(both) \in Nat
    BY <1>1, <2>1
  <2>5. Len(team) \in 1 .. lim /\ (Len(team) < lim => team = both /\ Len(agent) < lim)
    BY <1>3, <1>6, <2>3, <2>4
  <2>6. ASSUME NEW d, Covered(d, agent) PROVE Covered(d, both)
    <3>1. PICK j \in DOMAIN agent : d \in agent[j].mentions \cup agent[j].declares
      BY <2>6 DEF Covered, ToSet
    <3>2. \A a, b \in Seq(SlotConfig) : \A x \in DOMAIN a :
               x \in DOMAIN (a \o b) /\ (a \o b)[x] = a[x]
      OBVIOUS
    <3>3. j \in DOMAIN both /\ both[j] = agent[j]
      BY <1>1, <2>1, <3>1, <3>2
    <3>. QED  BY <3>1, <3>3 DEF Covered, ToSet
  <2>7. Len(team) < lim => \A d \in DomainsOf(task.corpus) : Covered(d, team)
    BY <1>4, <1>6, <2>5, <2>6
  <2>. QED  BY <1>3, <2>2, <2>3, <2>5, <2>7
<1>. QED  BY <1>7, <1>8

\* A team is never empty and never larger than the pool supports, and leaves a
\* domain of the corpus without a slot only when it is full.
THEOREM TeamCovers == PrepareSpec => []TeamCoversOrIsFull
<1>. DEFINE Built == {"bootstrap", "complexity", "coverage", "rate", "provision", "ready"}
            Good == /\ Len(slots) \in 1 .. Limit
                    /\ Len(slots) < Limit =>
                         \A d \in DomainsOf(task.corpus) : Covered(d, slots)
            Inv == task \in Submissions /\ (phase \in Built => Good)
<1>1. PrepareInit => Inv
  BY DEF PrepareInit
<1>2. Inv /\ [PrepareNext]_prepareVars => Inv'
  <2>. SUFFICES ASSUME Inv, [PrepareNext]_prepareVars PROVE Inv'
    OBVIOUS
  <2>1. task' = task
    BY DEF PrepareNext, PipelineStep, OwnStep, ModelStep, Prepared, prepareVars, StartThinking, SelectArchetypes,
           Brainstorm, Synthesize, Assess, JudgeAnswers, ActOnProbe, DecomposeStep, AssembleTeam,
           Bootstrap, Complexity, DomainCoverage, RateTask, Provision
  <2>2. ASSUME slots' = slots, phase' \in Built => phase \in Built PROVE Inv'
    BY <2>1, <2>2 DEF Limit, Covered
  <2>3. CASE AssembleTeam
    <3>1. CASE phase' = "failed"
      BY <2>1, <3>1
    <3>2. CASE phase' # "failed"
      <4>1. PICK raw \in SlotAnswers : ParseSlots(raw) # <<>> /\ slots' = Team(raw)
        BY <2>3, <3>2 DEF AssembleTeam, FailTask
      <4>2. Good'
        <5>1. /\ Len(slots') \in 1 .. Limit
              /\ Len(slots') < Limit =>
                   \A d \in DomainsOf(task.corpus) : Covered(d, slots')
          BY <4>1, TeamFits
        <5>. QED  BY <2>1, <5>1 DEF Limit, Covered
      <4>. QED  BY <2>1, <4>2
    <3>. QED  BY <3>1, <3>2
  <2>4. CASE UNCHANGED prepareVars
    BY <2>2, <2>4 DEF prepareVars
  <2>5. ASSUME PipelineStep, ~AssembleTeam
        PROVE  slots' = slots /\ (phase' \in Built => phase \in Built)
    BY <2>5 DEF PipelineStep, OwnStep, ModelStep, StartThinking, SelectArchetypes, Brainstorm, Synthesize, Assess,
             LeaveLoop, NextIteration, JudgeAnswers, ActOnProbe, DecomposeStep, FailTask,
             Bootstrap, Complexity, DomainCoverage, RateTask, Provision
  <2>. QED  BY <2>2, <2>3, <2>4, <2>5 DEF PrepareNext, Prepared
<1>3. Inv => TeamCoversOrIsFull
  BY DEF TeamCoversOrIsFull, Covered
<1>. QED  BY <1>1, <1>2, <1>3, PTL DEF PrepareSpec

-----------------------------------------------------------------------------
(* Proposals: a refusal of the panel *)

\* The fractions of the hard thresholds.
Fraction == [num : Nat \ {0}, den : Nat \ {0}]

\* No number of retries brings a hard threshold down to zero.
LEMMA ScaleIsPositive == \A retry \in 0 .. (MaxWaves - 1) : Scale[retry] \in Fraction
<1>. DEFINE N == MaxWaves - 1
            one == [num |-> 1, den |-> 1]
            Relaxed(p) == [num |-> 9 * p.num, den |-> 10 * p.den]
            Body(g) == [r \in 0 .. N |-> IF r = 0 THEN one ELSE Relaxed(g[r - 1])]
            next == [k \in Nat |-> [p \in Fraction |-> Relaxed(p)]]
<1>1. N \in Nat
  BY LimitsAssumption
<1>2. Scale = CHOOSE g : g = Body(g)
  BY DEF Scale
<1>. HIDE DEF N
<1>3. one \in Fraction /\ \A p \in Fraction : Relaxed(p) \in Fraction
  BY DEF Fraction
<1>. HIDE DEF one, Relaxed
<1>4. next \in [Nat -> [Fraction -> Fraction]]
  BY <1>3
<1>. HIDE DEF next
<1>5. PICK f : Solves(f, Fraction, one, next)
  BY <1>3, <1>4, Recursion
<1>6. /\ f \in [Nat -> Fraction] /\ f[0] = one
      /\ \A r \in Nat \ {0} : f[r] = Relaxed(f[r - 1])
  <2>1. f \in [Nat -> Fraction] /\ f[0] = one /\ \A r \in Nat \ {0} : f[r] = next[r][f[r - 1]]
    BY <1>5 DEF Solves
  <2>2. ASSUME NEW r \in Nat \ {0} PROVE f[r] = Relaxed(f[r - 1])
    <3>1. r - 1 \in Nat /\ f[r - 1] \in Fraction
      BY <2>1
    <3>. QED  BY <2>1, <3>1 DEF next
  <2>. QED  BY <2>1, <2>2
<1>. DEFINE h == [r \in 0 .. N |-> f[r]]
<1>7. h = Body(h)
  <2>1. ASSUME NEW r \in 0 .. N PROVE h[r] = IF r = 0 THEN one ELSE Relaxed(h[r - 1])
    <3>1. CASE r = 0
      BY <1>6, <3>1
    <3>2. CASE r # 0
      <4>1. r \in Nat \ {0} /\ r - 1 \in 0 .. N
        BY <1>1, <3>2
      <4>. QED  BY <1>6, <3>2, <4>1
    <3>. QED  BY <3>1, <3>2
  <2>. QED  BY <2>1
<1>8. Scale = Body(Scale)
  <2>. HIDE DEF h, Body
  <2>. QED  BY <1>2, <1>7
<1>. DEFINE P == {r \in Nat : r <= N => Scale[r] \in Fraction}
<1>9. 0 \in P
  <2>1. 0 \in 0 .. N
    BY <1>1
  <2>2. Scale[0] = one
    BY <1>8, <2>1
  <2>. QED  BY <1>3, <2>2
<1>10. ASSUME NEW r \in Nat, r \in P PROVE r + 1 \in P
  <2>. SUFFICES ASSUME r + 1 <= N PROVE Scale[r + 1] \in Fraction
    OBVIOUS
  <2>1. r + 1 \in 0 .. N /\ (r + 1) - 1 = r /\ r + 1 # 0 /\ r <= N
    BY <1>1
  <2>2. Scale[r] \in Fraction
    BY <1>10, <2>1
  <2>3. Scale[r + 1] = Relaxed(Scale[(r + 1) - 1])
    BY <1>8, <2>1
  <2>. QED  BY <1>3, <2>1, <2>2, <2>3
<1>. HIDE DEF P
<1>11. Nat \subseteq P
  BY <1>9, <1>10, Induction
<1>. QED  BY <1>1, <1>11 DEF P, N

\* A score of zero passes no hard threshold.
LEMMA ZeroFailsHard ==
  ASSUME NEW doc, doc.severity = "hard", doc.threshold \in Nat \ {0}, NEW scale \in Fraction
  PROVE  ~HardPassesScaled(doc, 0, scale)
<1>1. PICK n \in Nat \ {0} : n = scale.num
  BY DEF Fraction
<1>2. PICK d \in Nat \ {0} : d = scale.den
  BY DEF Fraction
<1>3. PICK t \in Nat \ {0} : t = doc.threshold
  OBVIOUS
<1>4. d * 0 = 0
  OBVIOUS
<1>5. n * t > 0
  OBVIOUS
<1>6. ~(d * 0 >= n * t)
  BY <1>4, <1>5
<1>. QED  BY <1>1, <1>2, <1>3, <1>6 DEF HardPassesScaled

\* Nobody for it and everybody against it: the panel fails the constraint.
LEMMA UnanimousFails ==
  ASSUME NEW n \in Nat \ {0}, NEW fraction \in 1 .. 100
  PROVE  AggregateVotes(0, n, fraction) = "fail"
<1>. DEFINE quorum == ((0 + n) * fraction + 99) \div 100
<1>1. n * fraction >= n /\ n * fraction <= n * 100 /\ n * fraction \in Nat
  OBVIOUS
<1>2. PICK x \in Nat : x = n * fraction
  BY <1>1
<1>3. quorum = (x + 99) \div 100 /\ x >= 1 /\ x <= 100 * n
  BY <1>1, <1>2
<1>4. (x + 99) \div 100 >= 1 /\ (x + 99) \div 100 <= n /\ (x + 99) \div 100 \in Nat
  BY <1>3
<1>5. quorum >= 1 /\ n >= quorum /\ quorum \in Nat
  BY <1>3, <1>4
<1>6. ~(0 >= quorum) /\ 0 < quorum /\ n >= quorum
  BY <1>5
<1>. QED  BY <1>6 DEF AggregateVotes

\* A panel has at least one judge.
LEMMA PanelType ==
  ASSUME cfg \in Configs
  PROVE  Panel \in Nat \ {0}
<1>1. IsFiniteSet(cfg.families \ {"judge"})
  BY ConfigsAssumption, FS_Difference
<1>2. PICK c \in Nat : c = Cardinality(cfg.families \ {"judge"})
  BY <1>1, FS_CardinalityType
<1>3. \E x \in {2, c} : \A y \in {2, c} : x <= y
  OBVIOUS
<1>4. Min({2, c}) \in {2, c}
  BY <1>3 DEF Min
<1>. QED  BY <1>2, <1>4 DEF Panel, PanelSize

\* A result whose refusal of a hard constraint left a veto or a score of zero.
Sound(r, doc) ==
    \E pc, s, x, v : /\ r = [pc |-> pc, score |-> s, refused |-> x, vetoed |-> v]
                     /\ x \in BOOLEAN /\ v \in BOOLEAN
                     /\ x /\ doc.severity = "hard" => v \/ s = 0

\* Whatever is kept per explorer and constraint.
IsTable(t) ==
    t = [e \in Explorers |-> [i \in Docs |-> t[e][i]]]

\* Every result is sound, and what survived verification was not refused.
RefusalInv ==
    /\ cfg \in Configs /\ wave \in 1 .. MaxWaves
    /\ IsTable(res)
    /\ \A e \in Explorers, i \in Docs : Sound(res[e][i], Corpus[i])
    /\ RefusalBlocks

\* A hard constraint has a positive threshold, the rubric included.
LEMMA HardThreshold ==
  ASSUME cfg \in Configs, NEW i \in Docs, Corpus[i].severity = "hard"
  PROVE  Corpus[i].threshold \in Nat \ {0}
<1>1. CASE cfg.corpus = <<>>
  <2>1. Corpus = <<RubricDoc(cfg.threshold)>> /\ i = 1
    BY <1>1 DEF Corpus, Docs
  <2>. QED  BY <2>1, ConfigsAssumption DEF RubricDoc
<1>2. CASE cfg.corpus # <<>>
  <2>1. Corpus = cfg.corpus /\ i \in Hard(cfg.corpus)
    BY <1>2 DEF Corpus, Docs, Hard
  <2>. QED  BY <2>1, ConfigsAssumption
<1>. QED  BY <1>1, <1>2

\* A refusal by the single judge scores zero.
LEMMA RefusalScoresZero ==
  ASSUME NEW o, o.marks = {}, o.score = 0, NEW n
  PROVE  EffectiveScore(o, n) = 0
BY DEF EffectiveScore, ScoreFromVerdicts

\* Recording a sound result keeps the results sound.
LEMMA RecordKeepsSound ==
  ASSUME RefusalInv, NEW e \in Explorers, NEW i \in Docs,
         NEW r, Sound(r, Corpus[i]), res' = [res EXCEPT ![e][i] = r],
         UNCHANGED <<cfg, wave>>, stage' = "verify"
  PROVE  RefusalInv'
<1>1. Explorers' = Explorers /\ Docs' = Docs /\ Corpus' = Corpus
  BY DEF Explorers, Docs, Corpus
<1>2. res = [d \in Explorers |-> [j \in Docs |-> res[d][j]]]
  BY DEF RefusalInv, IsTable
<1>3. ASSUME NEW d \in Explorers, NEW j \in Docs
      PROVE  res'[d][j] = IF d = e /\ j = i THEN r ELSE res[d][j]
  BY <1>2
<1>4. \A d \in Explorers, j \in Docs : Sound(res'[d][j], Corpus[j])
  BY <1>3 DEF RefusalInv
<1>5. res' = [d \in Explorers |-> [j \in Docs |-> res'[d][j]]]
  BY <1>2
<1>. QED  BY <1>1, <1>4, <1>5 DEF RefusalInv, RefusalBlocks, IsTable

\* No evaluation returns a refusal of a hard constraint that would pass the gate.
LEMMA EvaluationIsSound ==
  ASSUME RefusalInv, NEW e \in Explorers, NEW i \in Docs,
         Lookup(e, i) \/ EvalReturns(e, i)
  PROVE  RefusalInv'
<1>0. UNCHANGED <<cfg, wave>> /\ stage' = "verify"
  BY DEF Lookup, EvalReturns, EvalHit, EvalMiss, JudgeReturns, EvalAnswer, PanelEval
<1>1. CASE EvalHit(e, i)
  <2>1. PICK s \in Cached(i, TextOf(e)) :
             res' = [res EXCEPT ![e][i] =
                       Done(EffectiveScore(Plain(s), Corpus[i].checks), s = 0, FALSE)]
    BY <1>1 DEF EvalHit
  <2>2. s = 0 => EffectiveScore(Plain(s), Corpus[i].checks) = 0
    <3>1. Plain(s).marks = {} /\ Plain(s).score = s
      BY DEF Plain
    <3>. QED  BY <3>1, RefusalScoresZero
  <2>3. Sound(Done(EffectiveScore(Plain(s), Corpus[i].checks), s = 0, FALSE), Corpus[i])
    BY <2>2 DEF Sound, Done
  <2>. QED  BY <1>0, <2>1, <2>3, RecordKeepsSound
<1>2. CASE EvalMiss(e, i)
  <2>1. res' = [res EXCEPT ![e][i].pc = "asking"]
    BY <1>2 DEF EvalMiss
  <2>2. PICK pc, s, x, v : /\ res[e][i] = [pc |-> pc, score |-> s, refused |-> x, vetoed |-> v]
                           /\ x \in BOOLEAN /\ v \in BOOLEAN
                           /\ x /\ Corpus[i].severity = "hard" => v \/ s = 0
    BY DEF RefusalInv, Sound
  <2>3. PICK r : r = [pc |-> "asking", score |-> s, refused |-> x, vetoed |-> v]
    OBVIOUS
  <2>4. [res[e][i] EXCEPT !.pc = "asking"] = r
    BY <2>2, <2>3
  <2>5. res' = [res EXCEPT ![e][i] = r]
    BY <2>1, <2>4
  <2>6. Sound(r, Corpus[i])
    BY <2>2, <2>3 DEF Sound
  <2>. QED  BY <1>0, <2>5, <2>6, RecordKeepsSound
<1>3. CASE JudgeReturns(e, i)
  <2>1. PICK o : res' = [res EXCEPT ![e][i] = Done(EffectiveScore(o, Corpus[i].checks),
                                                   o.score = 0 /\ o.marks = {}, FALSE)]
    BY <1>3 DEF JudgeReturns, EvalAnswer
  <2>2. o.score = 0 /\ o.marks = {} => EffectiveScore(o, Corpus[i].checks) = 0
    BY RefusalScoresZero
  <2>3. Sound(Done(EffectiveScore(o, Corpus[i].checks), o.score = 0 /\ o.marks = {}, FALSE),
              Corpus[i])
    BY <2>2 DEF Sound, Done
  <2>. QED  BY <1>0, <2>1, <2>3, RecordKeepsSound
<1>4. CASE PanelEval(e, i)
  <2>1. PICK scores \in [1 .. Panel -> VariantScores(e, i)] :
             LET r == PanelResult(Corpus[i], scores, Scale[wave - 1], cfg.fraction, cfg.weight)
             IN  res' = [res EXCEPT ![e][i] =
                           Done(r.score, r.refused,
                                r.verdict = "fail" /\ Corpus[i].severity = "hard")]
    BY <1>4 DEF PanelEval
  <2>2. PICK r : r = PanelResult(Corpus[i], scores, Scale[wave - 1], cfg.fraction, cfg.weight)
    OBVIOUS
  <2>3. PICK n \in Nat \ {0} : n = Panel
    BY PanelType DEF RefusalInv
  <2>4. Len(scores) = n
    BY <2>1, <2>3
  <2>5. PICK pass : pass = Cardinality({v \in 1 .. n : HardPassesScaled(Corpus[i], scores[v],
                                                                         Scale[wave - 1])})
    OBVIOUS
  <2>6. /\ r.refused = (pass = 0)
        /\ r.verdict = AggregateVotes(pass, n - pass, cfg.fraction)
    BY <2>2, <2>4, <2>5 DEF PanelResult
  <2>7. r.refused => r.verdict = "fail"
    <3>1. n - 0 = n /\ cfg.fraction \in 1 .. 100
      BY ConfigsAssumption DEF RefusalInv
    <3>2. pass = 0 => r.verdict = AggregateVotes(0, n, cfg.fraction)
      BY <2>6, <3>1
    <3>. QED  BY <2>6, <3>1, <3>2, UnanimousFails
  <2>8. Sound(Done(r.score, r.refused, r.verdict = "fail" /\ Corpus[i].severity = "hard"),
              Corpus[i])
    BY <2>6, <2>7 DEF Sound, Done
  <2>. QED  BY <1>0, <2>1, <2>2, <2>8, RecordKeepsSound
<1>. QED  BY <1>1, <1>2, <1>3, <1>4 DEF Lookup, EvalReturns

\* Verification lets no refused proposal through: it is under the veto or under every
\* hard threshold, however relaxed.
LEMMA GateBlocks ==
  ASSUME RefusalInv, NEW e \in Explorers, HardGate(e), NEW i \in Docs, i \in Hard(Corpus)
  PROVE  ~res[e][i].refused
<1>1. Corpus[i].severity = "hard"
  BY DEF Hard
<1>2. Corpus[i].threshold \in Nat \ {0}
  BY <1>1, HardThreshold DEF RefusalInv
<1>3. wave - 1 \in 0 .. (MaxWaves - 1)
  BY LimitsAssumption DEF RefusalInv
<1>4. Scale[wave - 1] \in Fraction
  BY <1>3, ScaleIsPositive
<1>5. ~HardPassesScaled(Corpus[i], 0, Scale[wave - 1])
  BY <1>1, <1>2, <1>4, ZeroFailsHard
<1>6. ~res[e][i].vetoed /\ HardPassesScaled(Corpus[i], res[e][i].score, Scale[wave - 1])
  BY DEF HardGate
<1>7. Sound(res[e][i], Corpus[i])
  BY DEF RefusalInv
<1>. QED  BY <1>1, <1>5, <1>6, <1>7 DEF Sound

\* A proposal is never selected over a refusal: one judge's or a panel's, on the first
\* wave or on a relaxed one.
THEOREM RefusalsHold == Spec => []RefusalBlocks
<1>. DEFINE Passing == {"compare", "merge"}
<1>1. ASSUME Init PROVE RefusalInv
  <2>1. \A e \in Explorers, i \in Docs : res[e][i] = Todo
    BY <1>1 DEF Init, NoResults
  <2>2. \A doc : Sound(Todo, doc)
    BY DEF Sound, Todo
  <2>3. \A e \in Explorers, i \in Docs : ~res[e][i].refused
    BY <2>1 DEF Todo
  <2>4. IsTable(res)
    BY <1>1, <2>1 DEF Init, NoResults, IsTable
  <2>5. cfg \in Configs /\ wave \in 1 .. MaxWaves
    BY <1>1, LimitsAssumption DEF Init
  <2>6. RefusalBlocks
    BY <2>3 DEF RefusalBlocks, Survivors, Hard, Docs
  <2>. QED  BY <2>1, <2>2, <2>4, <2>5, <2>6 DEF RefusalInv
<1>2. ASSUME RefusalInv, [Next]_vars PROVE RefusalInv'
  <2>1. ASSUME UNCHANGED <<cfg, wave, res, passed>>, stage' \in Passing => stage \in Passing
        PROVE  RefusalInv'
    <3>1. Explorers' = Explorers /\ Docs' = Docs /\ Corpus' = Corpus
      BY <2>1 DEF Explorers, Docs, Corpus
    <3>2. Survivors' = Survivors
      BY <2>1, <3>1 DEF Survivors
    <3>3. RefusalBlocks'
      BY <1>2, <2>1, <3>1, <3>2 DEF RefusalInv, RefusalBlocks
    <3>. QED  BY <1>2, <2>1, <3>1, <3>3 DEF RefusalInv, IsTable
  <2>2. CASE UNCHANGED vars
    BY <2>1, <2>2 DEF vars
  <2>3. ASSUME NEW e \in Explorers, AdapterReturns(e) \/ TurnTimeout(e) \/ CheckTurn(e)
        PROVE  UNCHANGED <<cfg, wave, res, passed>> /\ stage' = stage
    BY <2>3 DEF AdapterReturns, CardHit, CardLock, CardFetched, CardUnavailable, SendTask, PollEnds,
             PollRefused, PollCompleted, CloudAnswers, CloudBusy, CloudFails, TurnTimeout, CheckTurn
  <2>4. CASE \E e \in Explorers : AdapterReturns(e) \/ TurnTimeout(e) \/ CheckTurn(e)
    BY <2>1, <2>3, <2>4
  <2>5. CASE CardExpires \/ ExploreEnds \/ GenerationTimeout
    <3>1. UNCHANGED <<cfg, wave, res, passed>> /\ stage' \in {"explore", "verify"}
      BY <2>5 DEF CardExpires, ExploreEnds, GenerationTimeout
    <3>. QED  BY <2>1, <3>1
  <2>6. CASE \E e \in Explorers, i \in Docs : Lookup(e, i) \/ EvalReturns(e, i)
    BY <1>2, <2>6, EvaluationIsSound
  <2>7. CASE VerifyEnds
    <3>1. Explorers' = Explorers /\ Docs' = Docs /\ Corpus' = Corpus /\ res' = res
      BY <2>7 DEF VerifyEnds, Explorers, Docs, Corpus
    <3>2. ASSUME NEW e \in Explorers, passed'[e] # {} PROVE HardGate(e)
      <4>1. passed'[e] = LET overall == IF HardGate(e) THEN SoftScore(e) ELSE 0
                         IN  IF e \in Proposed /\ overall >= cfg.threshold THEN {overall} ELSE {}
        BY <2>7 DEF VerifyEnds
      <4>2. ~HardGate(e) => 0 >= cfg.threshold
        BY <3>2, <4>1
      <4>3. cfg.threshold \in Nat \ {0}
        BY <1>2, ConfigsAssumption DEF RefusalInv
      <4>. QED  BY <4>2, <4>3
    <3>3. Survivors' = {e \in Explorers : passed'[e] # {}} /\ Hard(Corpus)' = Hard(Corpus)
      BY <3>1 DEF Survivors
    <3>4. Hard(Corpus) \subseteq Docs
      BY DEF Hard, Docs
    <3>5. \A e \in Survivors', i \in Hard(Corpus) : ~res[e][i].refused
      BY <1>2, <3>2, <3>3, <3>4, GateBlocks
    <3>6. RefusalBlocks'
      BY <3>1, <3>3, <3>5 DEF RefusalBlocks
    <3>. QED  BY <1>2, <2>7, <3>1, <3>6 DEF RefusalInv, VerifyEnds, IsTable
  <2>8. CASE CompareEnds \/ MergeResolves
    <3>1. UNCHANGED <<cfg, wave, res, passed>> /\ (stage' \in Passing => stage \in Passing)
      BY <2>8 DEF CompareEnds, MergeResolves
    <3>. QED  BY <2>1, <3>1
  <2>9. CASE ZeroSurvival
    <3>1. CASE wave < MaxWaves
      <4>1. /\ wave' = wave + 1 /\ stage' = "explore" /\ res' = NoResults /\ cfg' = cfg
        BY <2>9, <3>1 DEF ZeroSurvival
      <4>2. Explorers' = Explorers /\ Docs' = Docs /\ Corpus' = Corpus
        BY <4>1 DEF Explorers, Docs, Corpus
      <4>3. \A doc : Sound(Todo, doc)
        BY DEF Sound, Todo
      <4>4. wave' \in 1 .. MaxWaves
        BY <1>2, <3>1, <4>1, LimitsAssumption DEF RefusalInv
      <4>5. \A e \in Explorers, i \in Docs : res'[e][i] = Todo
        BY <4>1 DEF NoResults
      <4>6. IsTable(res)'
        BY <4>1, <4>2 DEF NoResults, IsTable
      <4>. QED  BY <1>2, <4>1, <4>2, <4>3, <4>4, <4>5, <4>6 DEF RefusalInv, RefusalBlocks
    <3>2. CASE ~(wave < MaxWaves)
      <4>1. UNCHANGED <<cfg, wave, res, passed>> /\ stage' = "done"
        BY <2>9, <3>2 DEF ZeroSurvival
      <4>. QED  BY <2>1, <4>1
    <3>. QED  BY <3>1, <3>2
  <2>. QED  BY <1>2, <2>2, <2>4, <2>5, <2>6, <2>7, <2>8, <2>9 DEF Next
<1>3. RefusalInv => RefusalBlocks
  BY DEF RefusalInv
<1>. QED  BY <1>1, <1>2, <1>3, PTL DEF Spec

-----------------------------------------------------------------------------
(* Proposals: what Krum sums, over which neighbours *)

\* s holds the partial sums.
Sums(s, n, I, d) ==
    /\ s[0] = 0 /\ \A i \in 0..n : s[i] \in Nat
    /\ \A i \in 1..n : s[i] = s[i - 1] + (IF i \in I THEN d[i] ELSE 0)
    /\ SumOver(n, I, d) = s[n]

LEMMA SumSteps ==
  ASSUME NEW n \in Nat, NEW I, NEW d, \A i \in 1..n : d[i] \in Nat
  PROVE  \E s : Sums(s, n, I, d)
<1>. DEFINE term == [i \in Nat |-> IF i \in 1..n /\ i \in I THEN d[i] ELSE 0]
            Body(g) == [i \in 0..n |-> IF i = 0 THEN 0 ELSE g[i - 1] + (IF i \in I THEN d[i] ELSE 0)]
            sum == CHOOSE g : g = Body(g)
            next == [i \in Nat |-> [x \in Nat |-> x + term[i]]]
<1>1. SumOver(n, I, d) = sum[n]
  BY DEF SumOver
<1>2. term \in [Nat -> Nat] /\ \A i \in 1..n : term[i] = IF i \in I THEN d[i] ELSE 0
  OBVIOUS
<1>. HIDE DEF term
<1>3. next \in [Nat -> [Nat -> Nat]]
  BY <1>2
<1>. HIDE DEF next
<1>4. PICK f : Solves(f, Nat, 0, next)
  BY <1>3, Recursion
<1>5. f \in [Nat -> Nat] /\ f[0] = 0 /\ \A i \in Nat \ {0} : f[i] = f[i - 1] + term[i]
  <2>1. f \in [Nat -> Nat] /\ f[0] = 0 /\ \A i \in Nat \ {0} : f[i] = next[i][f[i - 1]]
    BY <1>4 DEF Solves
  <2>2. ASSUME NEW i \in Nat \ {0} PROVE f[i] = f[i - 1] + term[i]
    <3>1. i - 1 \in Nat /\ f[i - 1] \in Nat
      BY <2>1
    <3>. QED  BY <2>1, <3>1 DEF next
  <2>. QED  BY <2>1, <2>2
<1>. DEFINE h == [i \in 0..n |-> f[i]]
<1>6. h = Body(h)
  <2>1. ASSUME NEW i \in 0..n
        PROVE  h[i] = IF i = 0 THEN 0 ELSE h[i - 1] + (IF i \in I THEN d[i] ELSE 0)
    <3>1. CASE i = 0
      BY <1>5, <3>1
    <3>2. CASE i # 0
      <4>1. i \in Nat \ {0} /\ i - 1 \in 0..n /\ i \in 1..n
        BY <3>2
      <4>. QED  BY <1>2, <1>5, <3>2, <4>1
    <3>. QED  BY <3>1, <3>2
  <2>. QED  BY <2>1
<1>7. sum = Body(sum)
  <2>. HIDE DEF Body, h
  <2>. QED  BY <1>6
<1>. HIDE DEF sum
<1>8. /\ sum[0] = 0
      /\ \A i \in 1..n : sum[i] = sum[i - 1] + (IF i \in I THEN d[i] ELSE 0)
  <2>1. sum[0] = 0
    BY <1>7
  <2>2. ASSUME NEW i \in 1..n PROVE sum[i] = sum[i - 1] + (IF i \in I THEN d[i] ELSE 0)
    <3>1. i \in 0..n /\ i # 0
      OBVIOUS
    <3>. QED  BY <1>7, <3>1
  <2>. QED  BY <2>1, <2>2
<1>9. \A i \in 0..n : sum[i] \in Nat
  <2>. DEFINE P == {i \in Nat : i <= n => sum[i] \in Nat}
  <2>1. 0 \in P
    BY <1>8
  <2>2. ASSUME NEW i \in Nat, i \in P PROVE i + 1 \in P
    <3>. SUFFICES ASSUME i + 1 <= n PROVE sum[i + 1] \in Nat
      OBVIOUS
    <3>1. i + 1 \in 1..n /\ (i + 1) - 1 = i /\ sum[i] \in Nat
      BY <2>2
    <3>2. sum[i + 1] = sum[i] + (IF i + 1 \in I THEN d[i + 1] ELSE 0)
      BY <1>8, <3>1
    <3>. QED  BY <3>1, <3>2
  <2>. HIDE DEF P
  <2>3. Nat \subseteq P
    BY <2>1, <2>2, Induction
  <2>. QED  BY <2>3 DEF P
<1>. QED  BY <1>1, <1>8, <1>9 DEF Sums

\* The elements of a set of indices that are at most i.
Initial(I, i) == {j \in I : j <= i}

LEMMA InitialGrows ==
  ASSUME NEW n \in Nat, NEW I \in SUBSET (1..n)
  PROVE  /\ IsFiniteSet(I) /\ Initial(I, 0) = {} /\ Initial(I, n) = I
         /\ \A i \in 0..n : IsFiniteSet(Initial(I, i)) /\ Cardinality(Initial(I, i)) \in Nat
         /\ \A i \in 1..n : Cardinality(Initial(I, i)) =
                               Cardinality(Initial(I, i - 1)) + (IF i \in I THEN 1 ELSE 0)
<1>1. IsFiniteSet(I)
  <2>1. IsFiniteSet(1..n)
    BY FS_Interval
  <2>. QED  BY <2>1, FS_Subset
<1>2. Initial(I, 0) = {} /\ Initial(I, n) = I
  <2>1. \A j \in I : ~(j <= 0) /\ j <= n
    OBVIOUS
  <2>. QED  BY <2>1 DEF Initial
<1>3. \A i \in 0..n : IsFiniteSet(Initial(I, i)) /\ Cardinality(Initial(I, i)) \in Nat
  <2>1. \A i : Initial(I, i) \in SUBSET I
    BY DEF Initial
  <2>. QED  BY <1>1, <2>1, FS_Subset, FS_CardinalityType
<1>4. ASSUME NEW i \in 1..n
      PROVE  Cardinality(Initial(I, i)) = Cardinality(Initial(I, i - 1)) + (IF i \in I THEN 1 ELSE 0)
  <2>1. i - 1 \in 0..n
    OBVIOUS
  <2>2. CASE i \in I
    <3>1. Initial(I, i) = Initial(I, i - 1) \cup {i} /\ i \notin Initial(I, i - 1)
      <4>1. \A x \in I : x <= i <=> (x <= i - 1 \/ x = i)
        OBVIOUS
      <4>2. ~(i <= i - 1)
        OBVIOUS
      <4>. QED  BY <2>2, <4>1, <4>2 DEF Initial
    <3>. QED  BY <1>3, <2>1, <2>2, <3>1, FS_AddElement
  <2>3. CASE i \notin I
    <3>1. \A x \in I : x <= i <=> x <= i - 1
      BY <2>3
    <3>2. Initial(I, i) = Initial(I, i - 1)
      BY <3>1 DEF Initial
    <3>. QED  BY <1>3, <2>1, <2>3, <3>2
  <2>. QED  BY <2>2, <2>3
<1>. QED  BY <1>1, <1>2, <1>3, <1>4

\* A sum of terms that are at most b.
LEMMA SumAtMost ==
  ASSUME NEW n \in Nat, NEW I \in SUBSET (1..n), NEW d, \A i \in 1..n : d[i] \in Nat,
         NEW b \in Nat, \A i \in I : d[i] <= b
  PROVE  SumOver(n, I, d) \in Nat /\ SumOver(n, I, d) <= Cardinality(I) * b
<1>1. PICK s : Sums(s, n, I, d)
  BY SumSteps
<1>2. PICK c : c = [i \in 0..n |-> Cardinality(Initial(I, i))]
  OBVIOUS
<1>3. /\ c \in [0..n -> Nat] /\ c[0] = 0 /\ c[n] = Cardinality(I)
      /\ \A i \in 1..n : c[i] = c[i - 1] + (IF i \in I THEN 1 ELSE 0)
  BY <1>2, InitialGrows, FS_EmptySet
<1>. DEFINE P == {i \in Nat : i <= n => s[i] <= c[i] * b}
<1>4. 0 \in P
  BY <1>1, <1>3 DEF Sums
<1>5. ASSUME NEW i \in Nat, i \in P PROVE i + 1 \in P
  <2>. SUFFICES ASSUME i + 1 <= n PROVE s[i + 1] <= c[i + 1] * b
    OBVIOUS
  <2>1. i + 1 \in 1..n /\ (i + 1) - 1 = i /\ i \in 0..n /\ i + 1 \in 0..n
    OBVIOUS
  <2>2. /\ s[i] <= c[i] * b /\ s[i] \in Nat /\ c[i] \in Nat
        /\ s[i + 1] = s[i] + (IF i + 1 \in I THEN d[i + 1] ELSE 0)
        /\ c[i + 1] = c[i] + (IF i + 1 \in I THEN 1 ELSE 0)
    BY <1>1, <1>3, <1>5, <2>1 DEF Sums
  <2>3. (c[i] + 1) * b = c[i] * b + b /\ c[i] * b \in Nat
    <3>1. \A x \in Nat : (x + 1) * b = x * b + b /\ x * b \in Nat
      OBVIOUS
    <3>. QED  BY <2>2, <3>1
  <2>4. i + 1 \in I => d[i + 1] <= b /\ d[i + 1] \in Nat
    BY <2>1
  <2>. QED  BY <2>2, <2>3, <2>4
<1>. HIDE DEF P
<1>6. Nat \subseteq P
  BY <1>4, <1>5, Induction
<1>7. s[n] <= c[n] * b
  BY <1>6 DEF P
<1>. QED  BY <1>1, <1>3, <1>7 DEF Sums

\* A sum with terms that are at least b.
LEMMA SumAtLeast ==
  ASSUME NEW n \in Nat, NEW I \in SUBSET (1..n), NEW d, \A i \in 1..n : d[i] \in Nat,
         NEW b \in Nat, NEW J \in SUBSET I, \A i \in J : d[i] >= b
  PROVE  Cardinality(J) * b <= SumOver(n, I, d)
<1>1. PICK s : Sums(s, n, I, d)
  BY SumSteps
<1>2. PICK c : c = [i \in 0..n |-> Cardinality(Initial(J, i))]
  OBVIOUS
<1>3. /\ c \in [0..n -> Nat] /\ c[0] = 0 /\ c[n] = Cardinality(J)
      /\ \A i \in 1..n : c[i] = c[i - 1] + (IF i \in J THEN 1 ELSE 0)
  <2>1. J \in SUBSET (1..n)
    OBVIOUS
  <2>. QED  BY <1>2, <2>1, InitialGrows, FS_EmptySet
<1>. DEFINE P == {i \in Nat : i <= n => c[i] * b <= s[i]}
<1>4. 0 \in P
  BY <1>1, <1>3 DEF Sums
<1>5. ASSUME NEW i \in Nat, i \in P PROVE i + 1 \in P
  <2>. SUFFICES ASSUME i + 1 <= n PROVE c[i + 1] * b <= s[i + 1]
    OBVIOUS
  <2>1. i + 1 \in 1..n /\ (i + 1) - 1 = i /\ i \in 0..n /\ i + 1 \in 0..n
    OBVIOUS
  <2>2. /\ c[i] * b <= s[i] /\ s[i] \in Nat /\ c[i] \in Nat
        /\ s[i + 1] = s[i] + (IF i + 1 \in I THEN d[i + 1] ELSE 0)
        /\ c[i + 1] = c[i] + (IF i + 1 \in J THEN 1 ELSE 0)
    BY <1>1, <1>3, <1>5, <2>1 DEF Sums
  <2>3. (c[i] + 1) * b = c[i] * b + b /\ c[i] * b \in Nat
    <3>1. \A x \in Nat : (x + 1) * b = x * b + b /\ x * b \in Nat
      OBVIOUS
    <3>. QED  BY <2>2, <3>1
  <2>4. d[i + 1] \in Nat /\ (i + 1 \in J => i + 1 \in I /\ d[i + 1] >= b)
    BY <2>1
  <2>. QED  BY <2>2, <2>3, <2>4
<1>. HIDE DEF P
<1>6. Nat \subseteq P
  BY <1>4, <1>5, Induction
<1>7. c[n] * b <= s[n]
  BY <1>6 DEF P
<1>. QED  BY <1>1, <1>3, <1>7 DEF Sums

\* Those of others that are sorted before j.
Ahead(d, others, j) == {l \in others : d[l] < d[j] \/ (d[l] = d[j] /\ l < j)}

\* The k nearest are k, when there are as many.
LEMMA NearestCount ==
  ASSUME NEW n \in Nat, NEW O \in SUBSET (1..n), NEW d, \A i \in 1..n : d[i] \in Nat,
         NEW k \in Nat, Cardinality(O) >= k
  PROVE  /\ Nearest(d, O, k) \in SUBSET O /\ Cardinality(Nearest(d, O, k)) = k
         /\ \A j \in Nearest(d, O, k) : Cardinality(Ahead(d, O, j)) < k
<1>. DEFINE N == Nearest(d, O, k)
            r == [j \in O |-> Cardinality(Ahead(d, O, j))]
<1>1. IsFiniteSet(O) /\ Cardinality(O) \in Nat
  <2>1. IsFiniteSet(1..n)
    BY FS_Interval
  <2>. QED  BY <2>1, FS_Subset, FS_CardinalityType
<1>2. PICK c \in Nat : c = Cardinality(O) /\ c >= k
  BY <1>1
<1>3. N = {j \in O : r[j] < k} /\ \A j \in O : r[j] = Cardinality(Ahead(d, O, j))
  BY DEF Nearest, Ahead
<1>4. \A j \in O : Ahead(d, O, j) \in SUBSET O /\ j \notin Ahead(d, O, j) /\ j \in Nat /\ d[j] \in Nat
  BY DEF Ahead
<1>5. \A i, j \in O : i # j => i \in Ahead(d, O, j) \/ j \in Ahead(d, O, i)
  BY <1>4 DEF Ahead
<1>6. \A i, j \in O : i \in Ahead(d, O, j) => Ahead(d, O, i) \subseteq Ahead(d, O, j)
  <2>. SUFFICES ASSUME NEW i \in O, NEW j \in O, i \in Ahead(d, O, j), NEW l \in Ahead(d, O, i)
                PROVE  l \in Ahead(d, O, j)
    OBVIOUS
  <2>1. l \in O /\ l \in Nat /\ i \in Nat /\ j \in Nat /\ d[l] \in Nat /\ d[i] \in Nat /\ d[j] \in Nat
    BY <1>4
  <2>2. /\ d[l] < d[i] \/ (d[l] = d[i] /\ l < i)
        /\ d[i] < d[j] \/ (d[i] = d[j] /\ i < j)
    BY DEF Ahead
  <2>3. d[l] < d[j] \/ (d[l] = d[j] /\ l < j)
    BY <2>1, <2>2
  <2>. QED  BY <2>1, <2>3 DEF Ahead
<1>7. \A j \in O : IsFiniteSet(Ahead(d, O, j)) /\ r[j] \in Nat /\ r[j] <= c - 1
  <2>. SUFFICES ASSUME NEW j \in O
                PROVE  IsFiniteSet(Ahead(d, O, j)) /\ r[j] \in Nat /\ r[j] <= c - 1
    OBVIOUS
  <2>1. IsFiniteSet(O \ {j}) /\ Cardinality(O \ {j}) = c - 1
    BY <1>1, <1>2, FS_RemoveElement
  <2>2. Ahead(d, O, j) \in SUBSET (O \ {j})
    BY <1>4
  <2>3. /\ IsFiniteSet(Ahead(d, O, j)) /\ Cardinality(Ahead(d, O, j)) \in Nat
        /\ Cardinality(Ahead(d, O, j)) <= Cardinality(O \ {j})
    BY <2>1, <2>2, FS_Subset, FS_CardinalityType
  <2>. QED  BY <1>3, <2>1, <2>3
<1>. HIDE DEF r, N
<1>8. \A i, j \in O : r[i] = r[j] => i = j
  <2>1. ASSUME NEW i \in O, NEW j \in O, i \in Ahead(d, O, j) PROVE r[i] # r[j]
    <3>1. Ahead(d, O, i) \in SUBSET Ahead(d, O, j) /\ Ahead(d, O, i) # Ahead(d, O, j)
      BY <1>4, <1>6, <2>1
    <3>2. Cardinality(Ahead(d, O, i)) # Cardinality(Ahead(d, O, j))
      BY <1>7, <3>1, FS_Subset
    <3>. QED  BY <1>3, <3>2
  <2>. QED  BY <1>5, <2>1
<1>9. N \in SUBSET O /\ IsFiniteSet(N) /\ Cardinality(N) \in Nat
  <2>1. N \in SUBSET O
    BY <1>3
  <2>. QED  BY <1>1, <2>1, FS_Subset, FS_CardinalityType
<1>10. Cardinality(N) <= k
  <2>. DEFINE g == [j \in N |-> r[j]]
  <2>1. g \in Injection(N, 0..(k - 1))
    <3>1. \A j \in N : r[j] \in 0..(k - 1)
      BY <1>3, <1>7
    <3>2. \A i, j \in N : r[i] = r[j] => i = j
      BY <1>8, <1>9
    <3>. QED  BY <3>1, <3>2 DEF Injection, IsInjective
  <2>2. IsFiniteSet(0..(k - 1)) /\ Cardinality(0..(k - 1)) = k
    BY FS_Interval
  <2>. HIDE DEF g
  <2>. QED  BY <2>1, <2>2, FS_Injection
<1>11. Cardinality(O \ N) <= c - k
  <2>. DEFINE g == [j \in O \ N |-> r[j]]
  <2>1. g \in Injection(O \ N, k..(c - 1))
    <3>1. \A j \in O \ N : r[j] \in k..(c - 1)
      BY <1>3, <1>7
    <3>2. \A i, j \in O \ N : r[i] = r[j] => i = j
      BY <1>8
    <3>. QED  BY <3>1, <3>2 DEF Injection, IsInjective
  <2>2. IsFiniteSet(k..(c - 1)) /\ Cardinality(k..(c - 1)) = c - k
    <3>1. PICK e \in Int : e = c - 1
      BY <1>2
    <3>2. IsFiniteSet(k..e) /\ Cardinality(k..e) = IF k > e THEN 0 ELSE e - k + 1
      BY FS_Interval
    <3>. QED  BY <1>2, <3>1, <3>2
  <2>. HIDE DEF g
  <2>. QED  BY <2>1, <2>2, FS_Injection
<1>12. Cardinality(N) = c - Cardinality(O \ N) /\ Cardinality(O \ N) \in Nat
  <2>1. O \cap N = N
    BY <1>9
  <2>2. IsFiniteSet(O \ N) /\ Cardinality(O \ N) = Cardinality(O) - Cardinality(O \cap N)
    BY <1>1, FS_Difference
  <2>3. Cardinality(O \ N) \in Nat
    BY <2>2, FS_CardinalityType
  <2>. QED  BY <1>2, <1>9, <2>1, <2>2, <2>3
<1>13. Cardinality(N) = k
  BY <1>2, <1>9, <1>10, <1>11, <1>12
<1>. QED  BY <1>3, <1>9, <1>13 DEF N

-----------------------------------------------------------------------------
(* Proposals: Krum and Multi-Krum *)

LEMMA DistanceIsNat ==
  ASSUME NEW embed, NEW a \in Int, NEW b \in Int
  PROVE  /\ Distance(embed, a, b) \in Nat /\ Distance(embed, a, a) = 0
         /\ Distance(embed, a, b) <= 100
<1>1. AbsDiff(a, b) \in Nat /\ AbsDiff(a, a) = 0
  BY DEF AbsDiff
<1>2. \A x \in Nat : Min({100, x}) \in Nat /\ Min({100, x}) <= 100 /\ Min({100, 0}) = 0
  BY DEF Min
<1>3. Step * AbsDiff(a, b) \in Nat /\ Step * AbsDiff(a, a) = 0
  <2>1. \A x \in Nat : Step * x \in Nat /\ Step * 0 = 0
    BY LimitsAssumption
  <2>. QED  BY <1>1, <2>1
<1>. QED  BY <1>2, <1>3 DEF Distance

\* A row of the distance matrix.
LEMMA RowIs ==
  ASSUME NEW embed, NEW ts \in Seq(Int), NEW i \in DOMAIN ts
  PROVE  \A j \in DOMAIN ts :
            /\ DistancesFrom(embed, ts, i)[j] = Distance(embed, ts[i], ts[j])
            /\ DistancesFrom(embed, ts, i)[j] \in Nat
<1>1. \A j \in DOMAIN ts : ts[j] \in Int
  OBVIOUS
<1>. QED  BY <1>1, DistanceIsNat DEF DistancesFrom

\* Krum takes the first of the least score.
LEMMA KrumIndexIs ==
  ASSUME NEW embed, NEW ts, NEW R, NEW k
  PROVE  LET S(i) == KrumScoreSubset(embed, ts, i, R, k)
         IN  KrumIndex(embed, ts, R, k) =
                {i \in R : \A j \in R : S(i) < S(j) \/ (S(i) = S(j) /\ i <= j)}
<1>. DEFINE t == [i \in R |-> KrumScoreSubset(embed, ts, i, R, k)]
            F(score) == {i \in R : \A j \in R :
                            score[i] < score[j] \/ (score[i] = score[j] /\ i <= j)}
<1>1. Table(t) = t
  BY DEF Table
<1>2. KrumIndex(embed, ts, R, k) = F(t)
  BY <1>1 DEF KrumIndex, Bind
<1>. QED  BY <1>2


LEMMA SubsetsAreFinite ==
  ASSUME NEW n \in Nat, NEW I \in SUBSET (1..n)
  PROVE  IsFiniteSet(I) /\ Cardinality(I) \in Nat /\ Cardinality(I) <= n
<1>1. IsFiniteSet(1..n) /\ Cardinality(1..n) = n
  BY FS_Interval
<1>. QED  BY <1>1, FS_Subset, FS_CardinalityType

\* The score of one of the honest: at least k others are no further than they are.
LEMMA ScoreAtMost ==
  ASSUME NEW embed, NEW ts \in Seq(Int), NEW R \in SUBSET (DOMAIN ts), NEW k \in Nat,
         NEW H \in SUBSET R, Cardinality(H) >= k + 1, NEW g \in H, NEW M \in Nat,
         \A h \in H : Distance(embed, ts[g], ts[h]) <= M
  PROVE  /\ KrumScoreSubset(embed, ts, g, R, k) \in Nat
         /\ KrumScoreSubset(embed, ts, g, R, k) <= k * M
<1>1. PICK n \in Nat : n = Len(ts) /\ DOMAIN ts = 1..n
  OBVIOUS
<1>2. PICK d : d = DistancesFrom(embed, ts, g)
  OBVIOUS
<1>3. PICK N : N = Nearest(d, R \ {g}, k)
  OBVIOUS
<1>4. KrumScoreSubset(embed, ts, g, R, k) = SumOver(n, N, d)
  BY <1>1, <1>2, <1>3 DEF KrumScoreSubset
<1>5. \A j \in 1..n : d[j] = Distance(embed, ts[g], ts[j]) /\ d[j] \in Nat
  <2>1. g \in DOMAIN ts
    OBVIOUS
  <2>2. \A j \in DOMAIN ts : /\ DistancesFrom(embed, ts, g)[j] = Distance(embed, ts[g], ts[j])
                             /\ DistancesFrom(embed, ts, g)[j] \in Nat
    BY <2>1, RowIs
  <2>. QED  BY <1>1, <1>2, <2>2, Zenon
<1>6. /\ IsFiniteSet(H \ {g}) /\ IsFiniteSet(R \ {g})
      /\ Cardinality(H \ {g}) \in Nat /\ Cardinality(H \ {g}) >= k
      /\ Cardinality(R \ {g}) \in Nat /\ Cardinality(R \ {g}) >= k
  <2>1. IsFiniteSet(H) /\ Cardinality(H) \in Nat
    BY <1>1, SubsetsAreFinite
  <2>2. /\ IsFiniteSet(H \ {g}) /\ Cardinality(H \ {g}) = Cardinality(H) - 1
    BY <2>1, FS_RemoveElement
  <2>3. IsFiniteSet(R \ {g}) /\ Cardinality(R \ {g}) \in Nat
    BY <1>1, SubsetsAreFinite
  <2>4. H \ {g} \in SUBSET (R \ {g})
    OBVIOUS
  <2>5. Cardinality(H \ {g}) <= Cardinality(R \ {g})
    BY <2>3, <2>4, FS_Subset
  <2>. QED  BY <2>1, <2>2, <2>3, <2>5
<1>7. /\ N \in SUBSET (R \ {g}) /\ Cardinality(N) = k
      /\ \A j \in N : Cardinality(Ahead(d, R \ {g}, j)) < k
  <2>1. PICK O \in SUBSET (1..n) : O = R \ {g}
    BY <1>1
  <2>2. Cardinality(O) >= k /\ N = Nearest(d, O, k) /\ \A i \in 1..n : d[i] \in Nat
    BY <1>3, <1>5, <1>6, <2>1
  <2>3. /\ Nearest(d, O, k) \in SUBSET O /\ Cardinality(Nearest(d, O, k)) = k
        /\ \A j \in Nearest(d, O, k) : Cardinality(Ahead(d, O, j)) < k
    BY <2>2, NearestCount
  <2>. QED  BY <2>1, <2>2, <2>3
<1>8. ASSUME NEW j \in N PROVE d[j] <= M
  <2>1. SUFFICES ASSUME d[j] > M PROVE FALSE
    BY <1>1, <1>5, <1>7
  <2>2. \A h \in H : d[h] \in Nat /\ d[h] <= M
    BY <1>1, <1>5
  <2>3. d[j] \in Nat
    BY <1>1, <1>5, <1>7
  <2>4. H \ {g} \in SUBSET Ahead(d, R \ {g}, j)
    BY <2>1, <2>2, <2>3 DEF Ahead
  <2>5. Ahead(d, R \ {g}, j) \in SUBSET (1..n)
    BY <1>1 DEF Ahead
  <2>6. Cardinality(H \ {g}) <= Cardinality(Ahead(d, R \ {g}, j))
    BY <2>4, <2>5, SubsetsAreFinite, FS_Subset
  <2>7. Cardinality(Ahead(d, R \ {g}, j)) < k /\ Cardinality(Ahead(d, R \ {g}, j)) \in Nat
    BY <1>7, <2>5, SubsetsAreFinite
  <2>. QED  BY <1>6, <2>6, <2>7
<1>9. N \in SUBSET (1..n)
  BY <1>1, <1>7
<1>10. SumOver(n, N, d) \in Nat /\ SumOver(n, N, d) <= Cardinality(N) * M
  BY <1>5, <1>8, <1>9, SumAtMost
<1>. QED  BY <1>4, <1>7, <1>10

\* The score of one that is far from all of the honest: at least a of its neighbours are
\* honest.
LEMMA ScoreAtLeast ==
  ASSUME NEW embed, NEW ts \in Seq(Int), NEW R \in SUBSET (DOMAIN ts), NEW k \in Nat,
         Cardinality(R) >= k + 1, NEW H \in SUBSET R, NEW w \in R, w \notin H,
         NEW b \in Nat, \A h \in H : Distance(embed, ts[w], ts[h]) >= b,
         NEW a \in Nat, Cardinality(R) - Cardinality(H) - 1 + a <= k
  PROVE  a * b <= KrumScoreSubset(embed, ts, w, R, k)
<1>1. PICK n \in Nat : n = Len(ts) /\ DOMAIN ts = 1..n
  OBVIOUS
<1>2. PICK d : d = DistancesFrom(embed, ts, w)
  OBVIOUS
<1>3. PICK N : N = Nearest(d, R \ {w}, k)
  OBVIOUS
<1>4. KrumScoreSubset(embed, ts, w, R, k) = SumOver(n, N, d)
  BY <1>1, <1>2, <1>3 DEF KrumScoreSubset
<1>5. \A j \in 1..n : d[j] = Distance(embed, ts[w], ts[j]) /\ d[j] \in Nat
  <2>1. w \in DOMAIN ts
    OBVIOUS
  <2>2. \A j \in DOMAIN ts : /\ DistancesFrom(embed, ts, w)[j] = Distance(embed, ts[w], ts[j])
                             /\ DistancesFrom(embed, ts, w)[j] \in Nat
    BY <2>1, RowIs
  <2>. QED  BY <1>1, <1>2, <2>2, Zenon
<1>6. /\ IsFiniteSet(R) /\ IsFiniteSet(H)
      /\ Cardinality(R) \in Nat /\ Cardinality(H) \in Nat
      /\ IsFiniteSet(R \ {w}) /\ Cardinality(R \ {w}) = Cardinality(R) - 1
  <2>1. IsFiniteSet(R) /\ Cardinality(R) \in Nat /\ IsFiniteSet(H) /\ Cardinality(H) \in Nat
    BY <1>1, SubsetsAreFinite
  <2>. QED  BY <2>1, FS_RemoveElement
<1>7. N \in SUBSET (R \ {w}) /\ Cardinality(N) = k
  <2>1. PICK O \in SUBSET (1..n) : O = R \ {w}
    BY <1>1
  <2>2. Cardinality(O) >= k /\ N = Nearest(d, O, k) /\ \A i \in 1..n : d[i] \in Nat
    BY <1>3, <1>5, <1>6, <2>1
  <2>3. /\ Nearest(d, O, k) \in SUBSET O /\ Cardinality(Nearest(d, O, k)) = k
        /\ \A j \in Nearest(d, O, k) : Cardinality(Ahead(d, O, j)) < k
    BY <2>2, NearestCount
  <2>. QED  BY <2>1, <2>2, <2>3
<1>8. N \in SUBSET (1..n)
  BY <1>1, <1>7
<1>9. PICK J : J = N \cap H
  OBVIOUS
<1>10. J \in SUBSET N /\ Cardinality(J) \in Nat /\ Cardinality(J) >= a
  <2>1. J \in SUBSET (1..n) /\ J \in SUBSET N
    BY <1>8, <1>9
  <2>2. IsFiniteSet(N) /\ IsFiniteSet(J) /\ Cardinality(J) \in Nat
    BY <1>8, <2>1, SubsetsAreFinite
  <2>3. /\ IsFiniteSet(N \ H) /\ Cardinality(N \ H) \in Nat
        /\ Cardinality(N \ H) = Cardinality(N) - Cardinality(J)
    BY <1>9, <2>2, FS_Difference, FS_CardinalityType
  <2>4. (R \ {w}) \cap H = H /\ N \ H \in SUBSET ((R \ {w}) \ H)
    BY <1>7
  <2>5. /\ IsFiniteSet((R \ {w}) \ H)
        /\ Cardinality((R \ {w}) \ H) = Cardinality(R \ {w}) - Cardinality(H)
    BY <1>6, <2>4, FS_Difference
  <2>6. Cardinality(N \ H) <= Cardinality((R \ {w}) \ H)
    BY <2>4, <2>5, FS_Subset
  <2>7. PICK c \in Nat, x \in Nat, y \in Nat, z \in Nat :
          /\ c = Cardinality(R) /\ x = Cardinality(H) /\ y = Cardinality(J)
          /\ z = Cardinality(N \ H)
    BY <1>6, <2>2, <2>3
  <2>8. z = k - y /\ z <= c - 1 - x /\ c - x - 1 + a <= k
    BY <1>6, <1>7, <2>3, <2>5, <2>6, <2>7
  <2>9. y >= a
    BY ONLY <2>8, k \in Nat, a \in Nat, c \in Nat, x \in Nat, y \in Nat, z \in Nat
  <2>. QED  BY <2>1, <2>7, <2>9
<1>11. \A h \in J : d[h] >= b
  BY <1>1, <1>5, <1>9
<1>12. Cardinality(J) * b <= SumOver(n, N, d)
  BY <1>5, <1>8, <1>10, <1>11, SumAtLeast
<1>13. SumOver(n, N, d) \in Nat
  <2>1. PICK s : Sums(s, n, N, d)
    BY <1>5, SumSteps
  <2>. QED  BY <2>1 DEF Sums
<1>14. PICK m \in Nat, t \in Nat : m >= a /\ m * b <= t /\ t = SumOver(n, N, d)
  BY <1>10, <1>12, <1>13
<1>15. a * b <= t
  <2>1. \A x, y, z \in Nat : x >= y => y * z <= x * z /\ y * z \in Nat /\ x * z \in Nat
    OBVIOUS
  <2>2. a * b <= m * b /\ a * b \in Nat /\ m * b \in Nat
    BY ONLY <1>14, <2>1, a \in Nat, b \in Nat, m \in Nat
  <2>. QED  BY ONLY <1>14, <2>2, t \in Nat
<1>. QED  BY <1>4, <1>14, <1>15

LEMMA ScoreType ==
  ASSUME NEW embed, NEW ts \in Seq(Int), NEW i \in DOMAIN ts, NEW R, NEW k
  PROVE  KrumScoreSubset(embed, ts, i, R, k) \in Nat
<1>1. PICK n \in Nat : n = Len(ts) /\ DOMAIN ts = 1..n
  OBVIOUS
<1>2. PICK d : d = DistancesFrom(embed, ts, i)
  OBVIOUS
<1>3. \A j \in 1..n : d[j] \in Nat
  BY <1>1, <1>2, RowIs
<1>4. PICK N : N = Nearest(d, R \ {i}, k)
  OBVIOUS
<1>5. PICK s : Sums(s, n, N, d)
  BY <1>3, SumSteps
<1>6. KrumScoreSubset(embed, ts, i, R, k) = SumOver(n, N, d)
  BY <1>1, <1>2, <1>4 DEF KrumScoreSubset
<1>. QED  BY <1>5, <1>6 DEF Sums

\* Krum selects one.
LEMMA KrumSelectsOne ==
  ASSUME NEW embed, NEW ts \in Seq(Int), NEW R \in SUBSET (DOMAIN ts), R # {}, NEW k
  PROVE  \E w \in R : KrumIndex(embed, ts, R, k) = {w}
<1>1. PICK n \in Nat : n = Len(ts) /\ DOMAIN ts = 1..n
  OBVIOUS
<1>2. PICK S : S = [i \in R |-> KrumScoreSubset(embed, ts, i, R, k)]
  OBVIOUS
<1>3. \A i \in R : S[i] \in Nat /\ i \in Nat
  BY <1>1, <1>2, ScoreType
<1>4. KrumIndex(embed, ts, R, k) =
        {i \in R : \A j \in R : S[i] < S[j] \/ (S[i] = S[j] /\ i <= j)}
  BY <1>2, KrumIndexIs
<1>5. PICK i0 \in R : \A j \in R : S[i0] <= S[j]
  <2>. DEFINE V == {S[i] : i \in R}
  <2>1. V \subseteq Nat /\ V # {}
    BY <1>3
  <2>2. PICK v \in V : \A u \in V : v <= u
    <3>. HIDE DEF V
    <3>. QED  BY <2>1, LeastNatural
  <2>. QED  BY <2>2
<1>6. PICK w \in R : S[w] = S[i0] /\ \A j \in R : S[j] = S[i0] => w <= j
  <2>. DEFINE V == {i \in R : S[i] = S[i0]}
  <2>1. V \subseteq Nat /\ V # {}
    BY <1>3
  <2>2. PICK v \in V : \A u \in V : v <= u
    <3>. HIDE DEF V
    <3>. QED  BY <2>1, LeastNatural
  <2>. QED  BY <2>2
<1>7. \A j \in R : S[w] < S[j] \/ (S[w] = S[j] /\ w <= j)
  BY <1>3, <1>5, <1>6
<1>8. ASSUME NEW i \in R, \A j \in R : S[i] < S[j] \/ (S[i] = S[j] /\ i <= j) PROVE i = w
  <2>1. /\ S[i] < S[w] \/ (S[i] = S[w] /\ i <= w)
        /\ S[w] < S[i] \/ (S[w] = S[i] /\ w <= i)
    BY <1>7, <1>8
  <2>2. S[i] \in Nat /\ S[w] \in Nat /\ i \in Nat /\ w \in Nat
    BY <1>3
  <2>. QED  BY <2>1, <2>2
<1>. QED  BY <1>4, <1>7, <1>8

\* The winner among R: it scores no more than any of the honest, which would be more if
\* all of them were further from it.
LEMMA KrumNearHonest ==
  ASSUME NEW embed, NEW ts \in Seq(Int), NEW R \in SUBSET (DOMAIN ts),
         NEW f \in Nat \ {0}, NEW k \in Nat, k >= f, Cardinality(R) = k + f + 2,
         NEW w \in KrumIndex(embed, ts, R, k),
         NEW H \in SUBSET R, Cardinality(H) >= k + 2,
         NEW M \in Nat, \A i, j \in H : Distance(embed, ts[i], ts[j]) <= M
  PROVE  \E h \in H : (k - f + 1) * Distance(embed, ts[w], ts[h]) <= k * M
<1>1. PICK n \in Nat : n = Len(ts) /\ DOMAIN ts = 1..n
  OBVIOUS
<1>2. PICK S : S = [i \in R |-> KrumScoreSubset(embed, ts, i, R, k)]
  OBVIOUS
<1>3. \A i \in R : S[i] \in Nat /\ S[i] = KrumScoreSubset(embed, ts, i, R, k)
  BY <1>1, <1>2, ScoreType
<1>4. w \in R /\ \A j \in R : S[w] <= S[j]
  <2>1. w \in {i \in R : \A j \in R : S[i] < S[j] \/ (S[i] = S[j] /\ i <= j)}
    BY <1>2, KrumIndexIs
  <2>2. w \in R /\ \A j \in R : S[w] < S[j] \/ (S[w] = S[j] /\ w <= j)
    BY <2>1
  <2>3. ASSUME NEW j \in R PROVE S[w] <= S[j]
    <3>1. PICK x \in Nat, y \in Nat : x = S[w] /\ y = S[j]
      BY <1>3, <2>2
    <3>2. x < y \/ x = y
      BY <2>2, <3>1, Zenon
    <3>3. x <= y
      BY ONLY <3>2, x \in Nat, y \in Nat
    <3>. QED  BY <3>1, <3>3, Zenon
  <2>. QED  BY <2>2, <2>3
<1>5. /\ \A j \in R : ts[j] \in Int
      /\ \A i, j \in R : Distance(embed, ts[i], ts[j]) \in Nat /\ Distance(embed, ts[i], ts[i]) = 0
  <2>1. \A j \in R : ts[j] \in Int
    OBVIOUS
  <2>. QED  BY <2>1, DistanceIsNat
<1>6. k * M \in Nat /\ k - f + 1 \in Nat
  OBVIOUS
<1>7. CASE w \in H
  <2>1. (k - f + 1) * 0 <= k * M
    BY <1>6
  <2>. QED  BY <1>4, <1>5, <1>7, <2>1
<1>8. CASE w \notin H
  <2>1. IsFiniteSet(H) /\ Cardinality(H) \in Nat /\ H # {}
    <3>1. IsFiniteSet(H) /\ Cardinality(H) \in Nat
      BY <1>1, SubsetsAreFinite
    <3>2. H # {}
      <4>1. SUFFICES ASSUME H = {} PROVE FALSE
        OBVIOUS
      <4>2. Cardinality(H) = 0
        BY <4>1, FS_EmptySet
      <4>. QED  BY <4>2
    <3>. QED  BY <3>1, <3>2
  <2>2. PICK g \in H : \A h \in H : Distance(embed, ts[w], ts[g]) <= Distance(embed, ts[w], ts[h])
    <3>. DEFINE V == {Distance(embed, ts[w], ts[h]) : h \in H}
    <3>1. V \subseteq Nat /\ V # {}
      BY <1>4, <1>5, <2>1
    <3>2. PICK v \in V : \A u \in V : v <= u
      <4>. HIDE DEF V
      <4>. QED  BY <3>1, LeastNatural
    <3>. QED  BY <3>2
  <2>3. PICK b \in Nat : b = Distance(embed, ts[w], ts[g])
    BY <1>4, <1>5
  <2>4. S[g] <= k * M
    <3>1. Cardinality(H) >= k + 1
      BY <2>1
    <3>2. \A h \in H : Distance(embed, ts[g], ts[h]) <= M
      OBVIOUS
    <3>. QED  BY <1>3, <3>1, <3>2, ScoreAtMost
  <2>5. PICK a \in Nat : a = k - f + 1
    BY <1>6
  <2>6. a * b <= S[w]
    <3>1. Cardinality(R) >= k + 1
      OBVIOUS
    <3>2. \A h \in H : Distance(embed, ts[w], ts[h]) >= b
      BY <1>4, <1>5, <2>2, <2>3
    <3>3. Cardinality(R) - Cardinality(H) - 1 + a <= k
      <4>1. PICK x \in Nat : x = Cardinality(H) /\ x >= k + 2
        BY <2>1
      <4>. QED  BY <2>5, <4>1
    <3>4. a * b <= KrumScoreSubset(embed, ts, w, R, k)
      BY <1>4, <1>8, <3>1, <3>2, <3>3, ScoreAtLeast
    <3>. QED  BY <1>3, <1>4, <3>4
  <2>7. PICK x \in Nat, y \in Nat : x = S[w] /\ y = S[g] /\ x <= y
    BY <1>3, <1>4
  <2>8. a * b <= k * M
    <3>1. PICK ab \in Nat, kM \in Nat : ab = a * b /\ kM = k * M
      BY <1>6
    <3>2. ab <= x /\ y <= kM
      BY <2>4, <2>6, <2>7, <3>1, Zenon
    <3>3. ab <= kM
      BY ONLY <2>7, <3>2, ab \in Nat, kM \in Nat, x \in Nat, y \in Nat
    <3>. QED  BY <3>1, <3>3, Zenon
  <2>. QED  BY <2>3, <2>5, <2>8
<1>. QED  BY <1>7, <1>8

\* r holds what remains after each round of Multi-Krum.
Rounds(r, embed, ts, f, m) ==
    /\ r[0] = DOMAIN ts /\ \A j \in 0..m : r[j] \in SUBSET (DOMAIN ts)
    /\ \A j \in 1..m : r[j] = KrumRound(embed, ts, f, r[j - 1])
    /\ MultiKrumSelect(embed, ts, f, m) = (DOMAIN ts) \ r[m]

LEMMA RoundType ==
  ASSUME NEW embed, NEW ts, NEW f, NEW R \in SUBSET (DOMAIN ts)
  PROVE  KrumRound(embed, ts, f, R) \in SUBSET (DOMAIN ts) /\ KrumRound(embed, ts, f, R) \subseteq R
BY DEF KrumRound

LEMMA RoundSteps ==
  ASSUME NEW embed, NEW ts, NEW f \in Nat \ {0}, NEW m \in Nat
  PROVE  \E r : Rounds(r, embed, ts, f, m)
<1>. DEFINE Body(g) == [j \in 0..m |-> IF j = 0 THEN DOMAIN ts ELSE KrumRound(embed, ts, f, g[j - 1])]
            Bound(g) == [j \in 0..m |-> IF j = 0 THEN DOMAIN ts
                           ELSE Bind(g[j - 1], LAMBDA x : KrumRound(embed, ts, f, x))]
            rem == CHOOSE g : g = Bound(g)
            S == SUBSET (DOMAIN ts)
            next == [i \in Nat |-> [R \in S |-> KrumRound(embed, ts, f, R)]]
<1>1. MultiKrumSelect(embed, ts, f, m) = (DOMAIN ts) \ rem[m] /\ \A g : Bound(g) = Body(g)
  <2>1. \A R : Bind(R, LAMBDA x : KrumRound(embed, ts, f, x)) = KrumRound(embed, ts, f, R)
    BY DEF Bind
  <2>2. MultiKrumSelect(embed, ts, f, m) = (DOMAIN ts) \ rem[m]
    BY DEF MultiKrumSelect
  <2>. QED  BY <2>1, <2>2
<1>. HIDE DEF Bound
<1>2. DOMAIN ts \in S /\ next \in [Nat -> [S -> S]]
  BY RoundType
<1>. HIDE DEF next
<1>3. PICK q : Solves(q, S, DOMAIN ts, next)
  <2>. HIDE DEF S
  <2>. QED  BY <1>2, Recursion
<1>4. q \in [Nat -> S] /\ q[0] = DOMAIN ts /\ \A i \in Nat \ {0} : q[i] = KrumRound(embed, ts, f, q[i - 1])
  <2>1. q \in [Nat -> S] /\ q[0] = DOMAIN ts /\ \A i \in Nat \ {0} : q[i] = next[i][q[i - 1]]
    BY <1>3 DEF Solves
  <2>2. ASSUME NEW i \in Nat \ {0} PROVE q[i] = KrumRound(embed, ts, f, q[i - 1])
    <3>1. i - 1 \in Nat /\ q[i - 1] \in S
      BY <2>1
    <3>. QED  BY <2>1, <3>1 DEF next
  <2>. QED  BY <2>1, <2>2
<1>. DEFINE h == [i \in 0..m |-> q[i]]
<1>5. h = Body(h)
  <2>1. ASSUME NEW i \in 0..m
        PROVE  h[i] = IF i = 0 THEN DOMAIN ts ELSE KrumRound(embed, ts, f, h[i - 1])
    <3>1. CASE i = 0
      BY <1>4, <3>1
    <3>2. CASE i # 0
      <4>1. i \in Nat \ {0} /\ i - 1 \in 0..m /\ i \in 1..m
        BY <3>2
      <4>. QED  BY <1>4, <3>2, <4>1
    <3>. QED  BY <3>1, <3>2
  <2>. QED  BY <2>1
<1>6. rem = Body(rem)
  <2>. HIDE DEF Body, h
  <2>. QED  BY <1>1, <1>5
<1>. HIDE DEF rem
<1>7. rem[0] = DOMAIN ts /\ \A j \in 1..m : rem[j] = KrumRound(embed, ts, f, rem[j - 1])
  <2>1. rem[0] = DOMAIN ts
    BY <1>6
  <2>2. ASSUME NEW j \in 1..m PROVE rem[j] = KrumRound(embed, ts, f, rem[j - 1])
    <3>1. j \in 0..m /\ j # 0
      OBVIOUS
    <3>. QED  BY <1>6, <3>1
  <2>. QED  BY <2>1, <2>2
<1>8. \A j \in 0..m : rem[j] \in SUBSET (DOMAIN ts)
  <2>. DEFINE P == {j \in Nat : j <= m => rem[j] \in SUBSET (DOMAIN ts)}
  <2>1. 0 \in P
    BY <1>7
  <2>2. ASSUME NEW j \in Nat, j \in P PROVE j + 1 \in P
    <3>. SUFFICES ASSUME j + 1 <= m PROVE rem[j + 1] \in SUBSET (DOMAIN ts)
      OBVIOUS
    <3>1. j + 1 \in 1..m /\ (j + 1) - 1 = j /\ rem[j] \in SUBSET (DOMAIN ts)
      BY <2>2
    <3>2. rem[j + 1] = KrumRound(embed, ts, f, rem[j])
      BY <1>7, <3>1
    <3>. QED  BY <3>1, <3>2, RoundType
  <2>. HIDE DEF P
  <2>3. Nat \subseteq P
    BY <2>1, <2>2, Induction
  <2>. QED  BY <2>3 DEF P
<1>. QED  BY <1>1, <1>7, <1>8 DEF Rounds

\* A round takes away at most one.
LEMMA RoundCount ==
  ASSUME NEW embed, NEW ts \in Seq(Int), NEW f \in Nat, NEW R \in SUBSET (DOMAIN ts)
  PROVE  /\ Cardinality(R) \in Nat /\ Cardinality(KrumRound(embed, ts, f, R)) \in Nat
         /\ Cardinality(KrumRound(embed, ts, f, R)) >= Cardinality(R) - 1
<1>1. PICK n \in Nat : n = Len(ts) /\ DOMAIN ts = 1..n
  OBVIOUS
<1>2. IsFiniteSet(R) /\ Cardinality(R) \in Nat
  BY <1>1, SubsetsAreFinite
<1>3. CASE Cardinality(R) > f + 2
  <2>1. R # {}
    <3>1. SUFFICES ASSUME R = {} PROVE FALSE
      OBVIOUS
    <3>2. Cardinality(R) = 0
      BY <3>1, FS_EmptySet
    <3>. QED  BY <1>3, <3>2
  <2>2. PICK w \in R : KrumIndex(embed, ts, R, Cardinality(R) - f - 2) = {w}
    BY <2>1, KrumSelectsOne
  <2>3. KrumRound(embed, ts, f, R) = R \ {w}
    BY <1>3, <2>2 DEF KrumRound
  <2>4. Cardinality(R \ {w}) = Cardinality(R) - 1 /\ IsFiniteSet(R \ {w})
    BY <1>2, FS_RemoveElement
  <2>5. Cardinality(R \ {w}) \in Nat
    BY <2>4, FS_CardinalityType
  <2>. QED  BY <1>2, <2>3, <2>4, <2>5
<1>4. CASE ~(Cardinality(R) > f + 2)
  <2>1. KrumRound(embed, ts, f, R) = R
    BY <1>4 DEF KrumRound
  <2>. QED  BY <1>2, <2>1
<1>. QED  BY <1>3, <1>4

LEMMA RemainingCount ==
  ASSUME NEW embed, NEW ts \in Seq(Int), NEW f \in Nat, NEW m \in Nat,
         NEW r, Rounds(r, embed, ts, f, m), NEW j \in 0..m
  PROVE  Cardinality(r[j]) \in Nat /\ Cardinality(r[j]) >= Len(ts) - j
<1>1. PICK n \in Nat : n = Len(ts) /\ DOMAIN ts = 1..n
  OBVIOUS
<1>. DEFINE P == {i \in Nat : i <= m => Cardinality(r[i]) \in Nat /\ Cardinality(r[i]) >= n - i}
<1>2. 0 \in P
  <2>1. Cardinality(1..n) = n
    BY FS_Interval
  <2>. QED  BY <1>1, <2>1 DEF Rounds
<1>3. ASSUME NEW i \in Nat, i \in P PROVE i + 1 \in P
  <2>. SUFFICES ASSUME i + 1 <= m
                PROVE  Cardinality(r[i + 1]) \in Nat /\ Cardinality(r[i + 1]) >= n - (i + 1)
    OBVIOUS
  <2>1. i + 1 \in 1..m /\ i \in 0..m /\ (i + 1) - 1 = i
    OBVIOUS
  <2>2. Cardinality(r[i]) \in Nat /\ Cardinality(r[i]) >= n - i
    BY <1>3, <2>1
  <2>3. r[i] \in SUBSET (DOMAIN ts) /\ r[i + 1] = KrumRound(embed, ts, f, r[i])
    BY <2>1 DEF Rounds
  <2>4. Cardinality(r[i + 1]) \in Nat /\ Cardinality(r[i + 1]) >= Cardinality(r[i]) - 1
    BY <2>3, RoundCount
  <2>. QED  BY <2>2, <2>4
<1>. HIDE DEF P
<1>4. Nat \subseteq P
  BY <1>2, <1>3, Induction
<1>. QED  BY <1>1, <1>4 DEF P

\* A bound with more neighbours is the sharper one.
LEMMA FewerNeighbours ==
  ASSUME NEW a \in Nat, NEW A \in Nat, a <= A, NEW g \in Nat, NEW D \in Nat, NEW M \in Nat,
         A * D <= (A + g) * M
  PROVE  a * D <= (a + g) * M
<1>1. CASE D <= M
  <2>1. \A x, y, z \in Nat : x <= y => z * x <= z * y
    OBVIOUS
  <2>2. \A x, y, z \in Nat : (x + y) * z = x * z + y * z /\ x * z \in Nat /\ y * z \in Nat
    OBVIOUS
  <2>3. a * D <= a * M /\ (a + g) * M = a * M + g * M /\ a * D \in Nat /\ a * M \in Nat /\ g * M \in Nat
    BY ONLY <1>1, <2>1, <2>2, a \in Nat, g \in Nat, D \in Nat, M \in Nat
  <2>4. \A x, y, z, u \in Nat : x <= y /\ u = y + z => x <= u
    OBVIOUS
  <2>. QED  BY ONLY <2>3, <2>4
<1>2. CASE D > M
  <2>1. PICK e \in Nat : D = M + e
    BY <1>2
  <2>2. \A x, y, z \in Nat : (x + y) * z = x * z + y * z /\ x * (y + z) = x * y + x * z
    OBVIOUS
  <2>3. \A x, y \in Nat : x * y \in Nat
    OBVIOUS
  <2>4. PICK AM \in Nat, Ae \in Nat, gM \in Nat, aM \in Nat, ae \in Nat :
           AM = A * M /\ Ae = A * e /\ gM = g * M /\ aM = a * M /\ ae = a * e
    BY <2>3
  <2>5. A * D = AM + Ae /\ (A + g) * M = AM + gM /\ a * D = aM + ae /\ (a + g) * M = aM + gM
    BY ONLY <2>1, <2>2, <2>4, a \in Nat, A \in Nat, g \in Nat, M \in Nat, e \in Nat
  <2>6. ae <= Ae
    <3>1. \A x, y, z \in Nat : x <= y => x * z <= y * z
      OBVIOUS
    <3>. QED  BY <2>4, <3>1
  <2>7. AM + Ae <= AM + gM
    BY ONLY <2>5, A * D <= (A + g) * M
  <2>8. aM + ae <= aM + gM
    BY ONLY <2>6, <2>7, AM \in Nat, Ae \in Nat, gM \in Nat, aM \in Nat, ae \in Nat
  <2>. QED  BY ONLY <2>5, <2>8
<1>. QED  BY <1>1, <1>2

\* A survivor of Multi-Krum is the winner of one of the rounds.
LEMMA SurvivorWonARound ==
  ASSUME NEW embed, NEW ts \in Seq(Int), NEW f \in Nat \ {0}, NEW m \in Nat \ {0},
         NEW w \in MultiKrumSelect(embed, ts, f, m)
  PROVE  \E R \in SUBSET (DOMAIN ts), k \in Nat :
            /\ Cardinality(R) = k + f + 2 /\ k >= Len(ts) - m + 1 - f - 2
            /\ w \in KrumIndex(embed, ts, R, k)
<1>1. PICK r : Rounds(r, embed, ts, f, m)
  BY RoundSteps
<1>2. w \in DOMAIN ts /\ w \in r[0] /\ w \notin r[m]
  BY <1>1 DEF Rounds
<1>3. PICK j \in 1..m : w \in r[j - 1] /\ w \notin r[j]
  <2>. DEFINE V == {i \in Nat : i <= m /\ w \notin r[i]}
  <2>1. V \subseteq Nat /\ V # {}
    BY <1>2
  <2>2. PICK j \in V : \A i \in V : j <= i
    <3>. HIDE DEF V
    <3>. QED  BY <2>1, LeastNatural
  <2>3. j \in 1..m
    BY <1>2, <2>2
  <2>4. w \in r[j - 1]
    BY <2>2, <2>3
  <2>. QED  BY <2>2, <2>3, <2>4
<1>4. PICK i \in 0..m : i = j - 1 /\ i <= m - 1
  OBVIOUS
<1>5. r[i] \in SUBSET (DOMAIN ts) /\ r[j] = KrumRound(embed, ts, f, r[i])
  BY <1>1, <1>4 DEF Rounds
<1>6. Cardinality(r[i]) \in Nat /\ Cardinality(r[i]) >= Len(ts) - i
  BY <1>1, RemainingCount
<1>7. /\ Cardinality(r[i]) > f + 2
      /\ w \in KrumIndex(embed, ts, r[i], Cardinality(r[i]) - f - 2)
  BY <1>3, <1>4, <1>5 DEF KrumRound
<1>8. PICK c \in Nat, n \in Nat : c = Cardinality(r[i]) /\ n = Len(ts) /\ c >= n - i /\ c > f + 2
  BY <1>6, <1>7
<1>9. PICK k \in Nat : k = c - f - 2
  BY <1>8
<1>10. c = k + f + 2 /\ k >= n - m + 1 - f - 2
  BY <1>4, <1>8, <1>9
<1>11. w \in KrumIndex(embed, ts, r[i], k)
  BY <1>7, <1>8, <1>9
<1>. QED  BY <1>5, <1>8, <1>10, <1>11

\* Multi-Krum keeps one at least.
LEMMA MultiKrumKeepsOne ==
  ASSUME NEW embed, NEW ts \in Seq(Int), NEW f \in Nat \ {0}, NEW m \in Nat \ {0},
         Len(ts) > f + 2
  PROVE  /\ MultiKrumSelect(embed, ts, f, m) \subseteq DOMAIN ts
         /\ Min(MultiKrumSelect(embed, ts, f, m)) \in MultiKrumSelect(embed, ts, f, m)
<1>1. PICK r : Rounds(r, embed, ts, f, m)
  BY RoundSteps
<1>2. PICK n \in Nat : n = Len(ts) /\ DOMAIN ts = 1..n /\ Cardinality(DOMAIN ts) = n
  BY FS_Interval
<1>3. 1 \in 1..m /\ 1 - 1 = 0
  OBVIOUS
<1>4. r[0] = DOMAIN ts /\ r[1] = KrumRound(embed, ts, f, DOMAIN ts)
  BY <1>1, <1>3 DEF Rounds
<1>5. PICK w \in DOMAIN ts : KrumIndex(embed, ts, DOMAIN ts, n - f - 2) = {w}
  <2>1. DOMAIN ts # {}
    BY <1>2
  <2>. QED  BY <2>1, KrumSelectsOne
<1>6. w \notin r[1]
  BY <1>2, <1>4, <1>5 DEF KrumRound
<1>7. w \notin r[m]
  <2>. DEFINE P == {i \in Nat : i >= 1 /\ i <= m => w \notin r[i]}
  <2>1. 0 \in P
    OBVIOUS
  <2>2. ASSUME NEW i \in Nat, i \in P PROVE i + 1 \in P
    <3>. SUFFICES ASSUME i + 1 <= m PROVE w \notin r[i + 1]
      OBVIOUS
    <3>1. CASE i = 0
      BY <1>6, <3>1
    <3>2. CASE i # 0
      <4>1. i + 1 \in 1..m /\ i \in 0..m /\ (i + 1) - 1 = i /\ w \notin r[i]
        BY <2>2, <3>2
      <4>2. r[i] \in SUBSET (DOMAIN ts) /\ r[i + 1] = KrumRound(embed, ts, f, r[i])
        BY <1>1, <4>1 DEF Rounds
      <4>. QED  BY <4>1, <4>2, RoundType
    <3>. QED  BY <3>1, <3>2
  <2>. HIDE DEF P
  <2>3. Nat \subseteq P
    BY <2>1, <2>2, Induction
  <2>. QED  BY <2>3 DEF P
<1>8. PICK V : V = MultiKrumSelect(embed, ts, f, m) /\ V = (DOMAIN ts) \ r[m]
  BY <1>1 DEF Rounds
<1>9. V \subseteq Nat /\ V # {}
  BY <1>2, <1>5, <1>7, <1>8
<1>10. PICK v \in V : \A u \in V : v <= u
  BY <1>9, LeastNatural
<1>11. Min(V) \in V
  BY <1>10 DEF Min
<1>. QED  BY <1>8, <1>11

\* The winner of a round over R with at least k neighbours.
LEMMA RoundWinnerIsNear ==
  ASSUME NEW embed, NEW ts \in Seq(Int), NEW f \in Nat \ {0}, NEW k \in Nat, k >= f,
         NEW R \in SUBSET (DOMAIN ts), NEW K \in Nat, K >= k, Cardinality(R) = K + f + 2,
         NEW w \in KrumIndex(embed, ts, R, K)
  PROVE  NearHonest(embed, ts, w, f, k)
<1>1. PICK n \in Nat : n = Len(ts) /\ DOMAIN ts = 1..n /\ Cardinality(1..n) = n /\ IsFiniteSet(1..n)
  BY FS_Interval
<1>2. \A i, j \in 1..n : Distance(embed, ts[i], ts[j]) \in Nat /\ Distance(embed, ts[i], ts[j]) <= 100
  <2>1. \A i \in 1..n : ts[i] \in Int
    BY <1>1
  <2>. QED  BY <2>1, DistanceIsNat
<1>3. w \in R /\ w \in 1..n
  <2>1. w \in {i \in R : \A j \in R : LET S(x) == KrumScoreSubset(embed, ts, x, R, K)
                                      IN  S(i) < S(j) \/ (S(i) = S(j) /\ i <= j)}
    BY KrumIndexIs
  <2>. QED  BY <1>1, <2>1
<1>. SUFFICES ASSUME NEW H \in SUBSET (1 .. Len(ts)), Cardinality(H) >= Len(ts) - f
              PROVE  \E h \in H : (k - f + 1) * Distance(embed, ts[w], ts[h]) <=
                         k * Max({Distance(embed, ts[p[1]], ts[p[2]]) : p \in H \X H})
  BY DEF NearHonest
<1>4. H \in SUBSET (1..n) /\ Cardinality(H) >= n - f
  BY <1>1
<1>5. PICK G : G = H \cap R
  OBVIOUS
<1>6. Cardinality(G) \in Nat /\ Cardinality(G) >= K + 2
  <2>1. /\ IsFiniteSet(R) /\ Cardinality(R) \in Nat /\ IsFiniteSet(H) /\ Cardinality(H) \in Nat
        /\ G \in SUBSET (1..n) /\ IsFiniteSet(G) /\ Cardinality(G) \in Nat
    BY <1>1, <1>5, SubsetsAreFinite
  <2>2. /\ Cardinality(R \ H) = Cardinality(R) - Cardinality(G)
        /\ IsFiniteSet(R \ H) /\ Cardinality(R \ H) \in Nat
    <3>1. R \cap H = G
      BY <1>5
    <3>. QED  BY <2>1, <3>1, FS_Difference, FS_CardinalityType
  <2>3. /\ IsFiniteSet((1..n) \ H) /\ Cardinality((1..n) \ H) = n - Cardinality(H)
    <3>1. (1..n) \cap H = H
      BY <1>4
    <3>2. PICK I : I = 1..n /\ IsFiniteSet(I) /\ Cardinality(I) = n /\ I \cap H = H
      BY <1>1, <3>1
    <3>3. IsFiniteSet(I \ H) /\ Cardinality(I \ H) = Cardinality(I) - Cardinality(I \cap H)
      BY <3>2, FS_Difference
    <3>. QED  BY <3>2, <3>3
  <2>4. Cardinality(R \ H) <= Cardinality((1..n) \ H)
    <3>1. R \ H \in SUBSET ((1..n) \ H)
      BY <1>1
    <3>. QED  BY <2>3, <3>1, FS_Subset
  <2>5. PICK x \in Nat, y \in Nat, z \in Nat :
           x = Cardinality(H) /\ y = Cardinality(G) /\ z = Cardinality(R \ H)
    BY <2>1, <2>2
  <2>6. z = K + f + 2 - y /\ z <= n - x /\ x >= n - f
    BY <1>4, <2>2, <2>3, <2>4, <2>5
  <2>7. y >= K + 2
    BY ONLY <2>6, K \in Nat, f \in Nat \ {0}, n \in Nat, x \in Nat, y \in Nat, z \in Nat
  <2>. QED  BY <2>5, <2>7
<1>7. PICK g \in G : TRUE
  <2>1. SUFFICES ASSUME G = {} PROVE FALSE
    OBVIOUS
  <2>2. Cardinality(G) = 0
    BY <2>1, FS_EmptySet
  <2>3. PICK x \in Nat : x = Cardinality(G) /\ x >= K + 2
    BY <1>6
  <2>. QED  BY ONLY <2>2, <2>3, K \in Nat
<1>8. PICK V : V = {Distance(embed, ts[p[1]], ts[p[2]]) : p \in H \X H}
  OBVIOUS
<1>9. PICK M \in Nat : M = Max(V) /\ \A i, j \in H : Distance(embed, ts[i], ts[j]) <= M
  <2>1. \A i, j \in H : Distance(embed, ts[i], ts[j]) \in 0..100
    <3>. SUFFICES ASSUME NEW i \in H, NEW j \in H
                  PROVE  Distance(embed, ts[i], ts[j]) \in 0..100
      OBVIOUS
    <3>1. Distance(embed, ts[i], ts[j]) \in Nat /\ Distance(embed, ts[i], ts[j]) <= 100
      BY <1>2, <1>4
    <3>2. PICK x \in Nat : x = Distance(embed, ts[i], ts[j]) /\ x <= 100
      BY ONLY <3>1
    <3>3. x \in 0..100
      <4>1. x <= 100
        BY <3>2
      <4>. QED  BY ONLY <4>1, x \in Nat
    <3>. QED  BY ONLY <3>2, <3>3
  <2>2. g \in H
    BY <1>5, <1>7
  <2>3. V \subseteq 0..100 /\ V # {}
    <3>1. PICK q : q \in H \X H
      <4>1. <<g, g>> \in H \X H
        BY <2>2
      <4>. QED  BY <4>1
    <3>2. ASSUME NEW v \in V PROVE v \in 0..100
      <4>1. PICK p \in H \X H : v = Distance(embed, ts[p[1]], ts[p[2]])
        BY <1>8
      <4>2. p[1] \in H /\ p[2] \in H
        OBVIOUS
      <4>. QED  BY <2>1, <4>1, <4>2
    <3>3. Distance(embed, ts[q[1]], ts[q[2]]) \in V
      BY <1>8, <3>1, Zenon
    <3>. QED  BY <3>2, <3>3
  <2>4. PICK x \in V : \A y \in V : x >= y
    BY <2>3, GreatestNatural
  <2>5. Max(V) \in V /\ \A y \in V : Max(V) >= y
    BY <2>4 DEF Max
  <2>6. Max(V) \in Nat
    <3>1. Max(V) \in 0..100
      BY <2>3, <2>5
    <3>2. \A v \in 0..100 : v \in Nat
      OBVIOUS
    <3>. QED  BY ONLY <3>1, <3>2
  <2>7. ASSUME NEW i \in H, NEW j \in H PROVE Distance(embed, ts[i], ts[j]) <= Max(V)
    <3>1. Distance(embed, ts[i], ts[j]) \in V
      <4>1. PICK p \in H \X H : p = <<i, j>>
        OBVIOUS
      <4>2. Distance(embed, ts[p[1]], ts[p[2]]) \in V
        BY <1>8, Zenon
      <4>3. p[1] = i /\ p[2] = j
        BY <4>1
      <4>. QED  BY <4>2, <4>3
    <3>. QED  BY <2>1, <2>5, <2>6, <3>1
  <2>. QED  BY <2>6, <2>7
<1>10. PICK h \in G : (K - f + 1) * Distance(embed, ts[w], ts[h]) <= K * M
  <2>1. G \in SUBSET R /\ Cardinality(G) >= K + 2 /\ \A i, j \in G : Distance(embed, ts[i], ts[j]) <= M
    BY <1>5, <1>6, <1>9
  <2>2. K >= f
    OBVIOUS
  <2>. QED  BY <1>9, <2>1, <2>2, KrumNearHonest
<1>11. (k - f + 1) * Distance(embed, ts[w], ts[h]) <= k * M
  <2>1. PICK a \in Nat, A \in Nat, e \in Nat, d \in Nat :
           a = k - f + 1 /\ A = K - f + 1 /\ e = f - 1 /\ d = Distance(embed, ts[w], ts[h])
    <3>1. h \in 1..n
      BY <1>4, <1>5
    <3>2. Distance(embed, ts[w], ts[h]) \in Nat
      BY <1>2, <1>3, <3>1
    <3>3. k - f + 1 \in Nat /\ K - f + 1 \in Nat /\ f - 1 \in Nat
      OBVIOUS
    <3>. QED  BY <3>2, <3>3
  <2>2. a <= A /\ A + e = K /\ a + e = k
    BY <2>1
  <2>3. A * d <= (A + e) * M
    BY <1>10, <2>1, <2>2
  <2>4. a * d <= (a + e) * M
    <3>1. M \in Nat /\ a <= A
      BY <1>9, <2>2
    <3>. QED  BY <2>3, <3>1, FewerNeighbours
  <2>. QED  BY <2>1, <2>2, <2>4
<1>12. h \in H
  BY <1>5
<1>. QED  BY <1>8, <1>9, <1>11, <1>12

\* What the Krum modes were selected by.
LEMMA RobustSelection ==
  ASSUME NEW osp, NEW s, s.kind \in {"median", "ordered", "krum", "multi"},
         NEW embed, NEW ts, NEW scores, NEW sel \in Resolve(osp, s, embed, ts, scores),
         sel.mode \in {"krum", "multi_krum"}
  PROVE  /\ QuorumSatisfied(Len(ts), s.f)
         /\ sel.mode = "krum" => sel.index \in KrumSelect(embed, ts, s.f)
         /\ sel.mode = "multi_krum" =>
               s.kind = "multi" /\ sel.index = Min(MultiKrumSelect(embed, ts, s.f, s.m))
<1>1. \A mode, I : \A x \in Selected(mode, I) : x.mode = mode /\ x.index \in I
  BY DEF Selected
<1>2. CASE osp # {}
  <2>1. PICK tv \in osp : sel \in OspSelection(tv, embed, ts, scores)
    BY <1>2 DEF Resolve
  <2>2. PICK regime, I : regime = ClassifyOspRegime(scores, tv) /\ sel \in Selected(regime, I)
    BY <2>1 DEF OspSelection
  <2>3. regime \in {"osp_single_survivor", "osp_clear_leader", "osp_tight_cluster"}
    BY <2>2 DEF ClassifyOspRegime
  <2>. QED  BY <1>1, <2>2, <2>3
<1>3. CASE osp = {}
  <2>1. sel \in StrategySelection(s, embed, ts)
    BY <1>3 DEF Resolve
  <2>. DEFINE robust == QuorumSatisfied(Len(ts), s.f) /\ ClusterCoherent(embed, ts)
  <2>2. CASE s.kind = "median"
    <3>1. sel \in Selected("consensus_median", ConsensusMedian(embed, ts))
      BY <2>1, <2>2 DEF StrategySelection
    <3>. QED  BY <1>1, <3>1
  <2>3. CASE s.kind = "ordered"
    <3>1. sel \in Selected("score_ordered", {1})
      BY <2>1, <2>3 DEF StrategySelection
    <3>. QED  BY <1>1, <3>1
  <2>4. CASE s.kind \in {"krum", "multi"} /\ ~robust
    <3>1. sel \in FallbackSelection(embed, ts)
      BY <2>1, <2>4 DEF StrategySelection
    <3>2. PICK I : sel \in Selected("consensus_fallback", I) \/ sel \in Selected("weiszfeld", I)
      BY <3>1 DEF FallbackSelection
    <3>. QED  BY <1>1, <3>2
  <2>5. CASE s.kind = "krum" /\ robust
    <3>1. sel \in Selected("krum", KrumSelect(embed, ts, s.f))
      BY <2>1, <2>5 DEF StrategySelection
    <3>. QED  BY <1>1, <2>5, <3>1
  <2>6. CASE s.kind = "multi" /\ robust
    <3>1. sel \in Bind(MultiKrumSelect(embed, ts, s.f, s.m),
                       LAMBDA survivors : Selected("multi_krum", {Min(survivors)}))
      BY <2>1, <2>6 DEF StrategySelection
    <3>2. sel \in Selected("multi_krum", {Min(MultiKrumSelect(embed, ts, s.f, s.m))})
      BY <3>1 DEF Bind
    <3>. QED  BY <1>1, <2>6, <3>2
  <2>. HIDE DEF robust
  <2>. QED  BY <2>2, <2>3, <2>4, <2>5, <2>6
<1>. QED  BY <1>2, <1>3

LEMMA SelectionIsNear ==
  ASSUME NEW osp, NEW s, s.kind \in {"median", "ordered", "krum", "multi"},
         s.kind = "multi" => s.m \in Nat \ {0}, s.f \in Nat \ {0},
         NEW embed, NEW ts \in Seq(Int), NEW scores,
         NEW sel \in Resolve(osp, s, embed, ts, scores), sel.mode \in {"krum", "multi_krum"},
         NEW k, k = (IF sel.mode = "krum" THEN Len(ts) ELSE Len(ts) - s.m + 1) - s.f - 2,
         k >= s.f
  PROVE  NearHonest(embed, ts, sel.index, s.f, k)
<1>1. PICK n \in Nat : n = Len(ts) /\ DOMAIN ts = 1..n /\ Cardinality(DOMAIN ts) = n
  BY FS_Interval
<1>2. PICK f \in Nat \ {0} : f = s.f
  OBVIOUS
<1>3. PICK w : w = sel.index
  OBVIOUS
<1>4. /\ QuorumSatisfied(n, f)
      /\ sel.mode = "krum" => w \in KrumSelect(embed, ts, f)
      /\ sel.mode = "multi_krum" => s.kind = "multi" /\ w = Min(MultiKrumSelect(embed, ts, f, s.m))
  BY <1>1, <1>2, <1>3, RobustSelection
<1>5. n >= 2 * f + 3
  BY <1>4 DEF QuorumSatisfied
<1>6. CASE sel.mode = "krum"
  <2>1. k = n - f - 2 /\ k \in Nat /\ k >= f /\ n = k + f + 2
    <3>1. k = n - f - 2
      BY <1>1, <1>2, <1>6
    <3>. QED  BY ONLY <1>5, <3>1, n \in Nat, f \in Nat \ {0}
  <2>2. w \in KrumIndex(embed, ts, DOMAIN ts, k)
    BY <1>1, <1>2, <1>4, <1>6, <2>1 DEF KrumSelect
  <2>3. Cardinality(DOMAIN ts) = k + f + 2 /\ DOMAIN ts \in SUBSET (DOMAIN ts) /\ k >= k
    BY <1>1, <2>1
  <2>4. NearHonest(embed, ts, w, f, k)
    BY <2>1, <2>2, <2>3, RoundWinnerIsNear
  <2>. QED  BY <1>2, <1>3, <2>4
<1>7. CASE sel.mode = "multi_krum"
  <2>1. PICK m \in Nat \ {0} : m = s.m
    BY <1>4, <1>7
  <2>2. k = n - m + 1 - f - 2 /\ k >= f
    <3>1. k = n - m + 1 - f - 2
      <4>1. sel.mode # "krum"
        BY <1>7
      <4>2. k = (Len(ts) - s.m + 1) - s.f - 2
        BY <4>1, Zenon
      <4>3. k = (n - m + 1) - f - 2
        BY <1>1, <1>2, <2>1, <4>2, Zenon
      <4>. QED  BY <4>3
    <3>2. k >= f
      BY <1>2
    <3>. QED  BY <3>1, <3>2
  <2>3. k \in Nat
    BY ONLY <2>2, n \in Nat, m \in Nat \ {0}, f \in Nat \ {0}
  <2>4. Len(ts) > f + 2
    BY <1>1, <1>5
  <2>5. w \in MultiKrumSelect(embed, ts, f, m)
    BY <1>4, <1>7, <2>1, <2>4, MultiKrumKeepsOne
  <2>6. PICK R \in SUBSET (DOMAIN ts), K \in Nat :
           /\ Cardinality(R) = K + f + 2 /\ K >= Len(ts) - m + 1 - f - 2
           /\ w \in KrumIndex(embed, ts, R, K)
    BY <2>5, SurvivorWonARound
  <2>7. K >= k
    BY <1>1, <2>2, <2>6
  <2>8. NearHonest(embed, ts, w, f, k)
    BY <2>2, <2>3, <2>6, <2>7, RoundWinnerIsNear
  <2>. QED  BY <1>2, <1>3, <2>8
<1>. QED  BY <1>6, <1>7

\* The orders a set of proposals compiles to list its explorers.
LEMMA OrdersAreLists ==
  ASSUME NEW set, NEW N \in Nat, DOMAIN set \subseteq 1..N
  PROVE  Compile(set) \subseteq Seq(DOMAIN set)
<1>. DEFINE valid == {e \in DOMAIN set : set[e].score > 0}
            above == [e \in valid |-> Cardinality({d \in valid : set[d].score > set[e].score})]
            level == [e \in valid |-> Cardinality({d \in valid : set[d].score >= set[e].score})]
            Place(i, s) ==
               {Append(s, e) : e \in {x \in valid \ ToSet(s) : above[x] < i /\ i <= level[x]}}
            Body(g) == [i \in 0..Cardinality(valid) |->
                           IF i = 0 THEN {<<>>} ELSE UNION {Place(i, s) : s \in g[i - 1]}]
            orders == CHOOSE g : g = Body(g)
            S == SUBSET Seq(valid)
            next == [i \in Nat |-> [Q \in S |-> UNION {Place(i, s) : s \in Q}]]
<1>1. Compile(set) = orders[Cardinality(valid)]
  BY DEF Compile
<1>2. PICK c \in Nat : c = Cardinality(valid)
  <2>1. valid \in SUBSET (1..N)
    OBVIOUS
  <2>. HIDE DEF valid
  <2>. QED  BY <2>1, SubsetsAreFinite
<1>3. valid \subseteq DOMAIN set
  OBVIOUS
<1>4. ASSUME NEW i, NEW s \in Seq(valid) PROVE Place(i, s) \subseteq Seq(valid)
  <2>. HIDE DEF valid, above, level
  <2>. QED  OBVIOUS
<1>. HIDE DEF valid, Place
<1>5. {<<>>} \in S /\ next \in [Nat -> [S -> S]]
  <2>1. \A i : \A Q \in S : UNION {Place(i, s) : s \in Q} \in S
    BY <1>4
  <2>. QED  BY <2>1
<1>6. PICK q : Solves(q, S, {<<>>}, next)
  <2>. HIDE DEF S, next
  <2>. QED  BY <1>5, Recursion
<1>7. /\ q \in [Nat -> S] /\ q[0] = {<<>>}
      /\ \A i \in Nat \ {0} : q[i] = UNION {Place(i, s) : s \in q[i - 1]}
  <2>1. q \in [Nat -> S] /\ q[0] = {<<>>} /\ \A i \in Nat \ {0} : q[i] = next[i][q[i - 1]]
    <3>. HIDE DEF S, next
    <3>. QED  BY <1>6 DEF Solves
  <2>2. ASSUME NEW i \in Nat \ {0} PROVE q[i] = UNION {Place(i, s) : s \in q[i - 1]}
    <3>1. i - 1 \in Nat /\ q[i - 1] \in S
      <4>. HIDE DEF S
      <4>. QED  BY <2>1
    <3>2. next[i][q[i - 1]] = UNION {Place(i, s) : s \in q[i - 1]}
      <4>. HIDE DEF S
      <4>. QED  BY <3>1
    <3>. QED  BY <2>1, <3>2
  <2>. QED  BY <2>1, <2>2
<1>. HIDE DEF S, next
<1>. DEFINE h == [i \in 0..Cardinality(valid) |-> q[i]]
<1>8. h = Body(h)
  <2>1. ASSUME NEW i \in 0..c
        PROVE  h[i] = IF i = 0 THEN {<<>>} ELSE UNION {Place(i, s) : s \in h[i - 1]}
    <3>1. CASE i = 0
      BY <1>2, <1>7, <3>1
    <3>2. CASE i # 0
      <4>1. i \in Nat \ {0} /\ i - 1 \in 0..c /\ i \in 0..c
        BY <3>2
      <4>2. h[i] = q[i] /\ h[i - 1] = q[i - 1]
        BY <1>2, <4>1
      <4>3. q[i] = UNION {Place(i, s) : s \in q[i - 1]}
        BY <1>7, <4>1
      <4>. QED  BY <3>2, <4>2, <4>3
    <3>. QED  BY <3>1, <3>2
  <2>. QED  BY <1>2, <2>1
<1>9. orders = Body(orders)
  <2>. HIDE DEF Body, h
  <2>. QED  BY <1>8
<1>. HIDE DEF orders
<1>10. /\ orders[0] = {<<>>}
       /\ \A i \in 1..c : orders[i] = UNION {Place(i, s) : s \in orders[i - 1]}
  <2>1. orders[0] = {<<>>}
    BY <1>2, <1>9
  <2>2. ASSUME NEW i \in 1..c PROVE orders[i] = UNION {Place(i, s) : s \in orders[i - 1]}
    <3>1. i \in 0..c /\ i # 0
      OBVIOUS
    <3>. QED  BY <1>2, <1>9, <3>1
  <2>. QED  BY <2>1, <2>2
<1>11. orders[c] \subseteq Seq(valid)
  <2>. DEFINE P == {i \in Nat : i <= c => orders[i] \subseteq Seq(valid)}
  <2>1. 0 \in P
    <3>1. <<>> \in Seq(valid)
      OBVIOUS
    <3>2. {<<>>} \subseteq Seq(valid)
      BY <3>1, Zenon
    <3>3. orders[0] \subseteq Seq(valid)
      BY <1>10, <3>2, Zenon
    <3>. QED  BY <3>3
  <2>2. ASSUME NEW i \in Nat, i \in P PROVE i + 1 \in P
    <3>. SUFFICES ASSUME i + 1 <= c PROVE orders[i + 1] \subseteq Seq(valid)
      OBVIOUS
    <3>1. i + 1 \in 1..c /\ (i + 1) - 1 = i /\ orders[i] \subseteq Seq(valid)
      BY <2>2
    <3>2. orders[i + 1] = UNION {Place(i + 1, s) : s \in orders[i]}
      BY <1>10, <3>1
    <3>. QED  BY <1>4, <3>1, <3>2
  <2>. HIDE DEF P
  <2>3. Nat \subseteq P
    BY <2>1, <2>2, Induction
  <2>. QED  BY <2>3 DEF P
<1>12. Seq(valid) \subseteq Seq(DOMAIN set)
  BY <1>3
<1>. QED  BY <1>1, <1>2, <1>11, <1>12

\* Only survivors are proposed.
LEMMA ProposedAreSurvivors ==
  ASSUME Len(cfg.adapter) \in Nat
  PROVE  DOMAIN ProposalSet \subseteq Survivors
<1>1. PICK L \in Nat : L = Len(cfg.adapter)
  OBVIOUS
<1>. DEFINE Score(n) == CHOOSE x \in passed[n] : TRUE
            Put(n, g) == IF n \notin Survivors THEN g ELSE InsertScored(g, n, wave, Score(n))
            Body(g) == [n \in 0..Len(cfg.adapter) |->
                           IF n = 0 THEN <<>>
                           ELSE IF n \notin Survivors THEN g[n - 1]
                           ELSE InsertScored(g[n - 1], n, wave, CHOOSE x \in passed[n] : TRUE)]
            set == CHOOSE g : g = Body(g)
            V == {[gen |-> wave, score |-> Score(n)] : n \in Survivors}
            S == UNION {[D -> V] : D \in SUBSET Survivors}
            next == [n \in Nat |-> [g \in S |-> Put(n, g)]]
<1>2. ProposalSet = set[Len(cfg.adapter)]
  BY DEF ProposalSet
<1>3. ASSUME NEW n, NEW g \in S PROVE Put(n, g) \in S
  <2>1. PICK D \in SUBSET Survivors : g \in [D -> V]
    OBVIOUS
  <2>2. CASE n \notin Survivors
    BY <2>1, <2>2
  <2>3. CASE n \in Survivors
    <3>1. PICK r : r = [gen |-> wave, score |-> Score(n)] /\ r \in V
      <4>1. [gen |-> wave, score |-> Score(n)] \in V
        <5>. HIDE DEF Score
        <5>. QED  BY <2>3, Zenon
      <4>. QED  BY <4>1, Zenon
    <3>. HIDE DEF V
    <3>2. \/ Put(n, g) = g
          \/ Put(n, g) = [x \in D \cup {n} |-> IF x = n THEN r ELSE g[x]]
      BY <2>1, <2>3, <3>1 DEF InsertScored
    <3>3. [x \in D \cup {n} |-> IF x = n THEN r ELSE g[x]] \in [D \cup {n} -> V]
      BY <2>1, <3>1
    <3>4. D \cup {n} \in SUBSET Survivors
      BY <2>3
    <3>. QED  BY <3>2, <3>3, <3>4
  <2>. QED  BY <2>2, <2>3
<1>4. <<>> \in S
  <2>1. <<>> \in [{} -> V]
    OBVIOUS
  <2>2. {} \in SUBSET Survivors
    OBVIOUS
  <2>. HIDE DEF V
  <2>. QED  BY <2>1, <2>2
<1>. HIDE DEF S
<1>5. next \in [Nat -> [S -> S]]
  <2>. HIDE DEF Put
  <2>. QED  BY <1>3
<1>. HIDE DEF next
<1>6. PICK q : Solves(q, S, <<>>, next)
  BY <1>4, <1>5, Recursion
<1>7. q \in [Nat -> S] /\ q[0] = <<>> /\ \A n \in Nat \ {0} : q[n] = Put(n, q[n - 1])
  <2>1. q \in [Nat -> S] /\ q[0] = <<>> /\ \A n \in Nat \ {0} : q[n] = next[n][q[n - 1]]
    BY <1>6 DEF Solves
  <2>2. ASSUME NEW n \in Nat \ {0} PROVE q[n] = Put(n, q[n - 1])
    <3>1. n - 1 \in Nat /\ q[n - 1] \in S
      BY <2>1
    <3>. HIDE DEF Put
    <3>. QED  BY <2>1, <3>1 DEF next
  <2>. QED  BY <2>1, <2>2
<1>. DEFINE h == [n \in 0..Len(cfg.adapter) |-> q[n]]
<1>8. h = Body(h)
  <2>1. ASSUME NEW n \in 0..L
        PROVE  h[n] = IF n = 0 THEN <<>> ELSE Put(n, h[n - 1])
    <3>1. CASE n = 0
      BY <1>1, <1>7, <3>1
    <3>2. CASE n # 0
      <4>1. n \in Nat \ {0} /\ n - 1 \in 0..L /\ n \in 0..L
        BY <3>2
      <4>2. h[n] = q[n] /\ h[n - 1] = q[n - 1]
        BY <1>1, <4>1
      <4>. HIDE DEF Put, h
      <4>. QED  BY <1>7, <3>2, <4>1, <4>2
    <3>. QED  BY <3>1, <3>2
  <2>. QED  BY <1>1, <2>1
<1>9. set = Body(set)
  <2>. HIDE DEF Body, h
  <2>. QED  BY <1>8
<1>. HIDE DEF set
<1>10. set[0] = <<>> /\ \A n \in 1..L : set[n] = Put(n, set[n - 1])
  <2>1. set[0] = <<>>
    BY <1>1, <1>9
  <2>2. ASSUME NEW n \in 1..L PROVE set[n] = Put(n, set[n - 1])
    <3>1. n \in 0..L /\ n # 0
      OBVIOUS
    <3>. QED  BY <1>1, <1>9, <3>1
  <2>. QED  BY <2>1, <2>2
<1>11. set[L] \in S
  <2>. HIDE DEF Put
  <2>. DEFINE P == {n \in Nat : n <= L => set[n] \in S}
  <2>1. 0 \in P
    BY <1>4, <1>10
  <2>2. ASSUME NEW n \in Nat, n \in P PROVE n + 1 \in P
    <3>. SUFFICES ASSUME n + 1 <= L PROVE set[n + 1] \in S
      OBVIOUS
    <3>1. n + 1 \in 1..L /\ (n + 1) - 1 = n /\ set[n] \in S
      BY <2>2
    <3>2. set[n + 1] = Put(n + 1, set[n])
      BY <1>10, <3>1
    <3>. QED  BY <1>3, <3>1, <3>2
  <2>. HIDE DEF P
  <2>3. Nat \subseteq P
    BY <2>1, <2>2, Induction
  <2>. QED  BY <2>3 DEF P
<1>12. \A g \in S : DOMAIN g \subseteq Survivors
  BY DEF S
<1>. QED  BY <1>1, <1>2, <1>11, <1>12

-----------------------------------------------------------------------------
(* Proposals: the winner of Krum *)

\* A loop that is past its call holds the one text it was answered with.
Holds(r) ==
    /\ {"pc", "out"} \subseteq DOMAIN r
    /\ r.pc \in {"check", "proposed"} => \E t \in Int : r.out = {t}

\* What survives is a proposal with its text, and the winner is near the honest.
WinnerInv ==
    /\ cfg \in Configs
    /\ DOMAIN ex = Explorers /\ \A e \in Explorers : Holds(ex[e])
    /\ stage \in {"explore", "verify"} => Survivors = {}
    /\ Survivors \subseteq Proposed
    /\ WinnerNearHonest

LEMMA OutcomeKeeps ==
  ASSUME WinnerNearHonest, outcome' = outcome, cfg' = cfg
  PROVE  WinnerNearHonest'
BY DEF WinnerNearHonest

\* A step of a loop leaves a loop that holds its text.
LEMMA LoopHolds ==
  ASSUME WinnerInv, NEW e \in Explorers, AdapterReturns(e) \/ TurnTimeout(e) \/ CheckTurn(e)
  PROVE  \E r : Holds(r) /\ ex' = [ex EXCEPT ![e] = r]
<1>1. Holds(ex[e]) /\ e \in DOMAIN ex
  BY DEF WinnerInv
<1>2. ASSUME NEW pc, pc \notin {"check", "proposed"}, ex' = [ex EXCEPT ![e].pc = pc]
      PROVE  \E r : Holds(r) /\ ex' = [ex EXCEPT ![e] = r]
  <2>1. Holds([ex[e] EXCEPT !.pc = pc])
    BY <1>1, <1>2 DEF Holds
  <2>2. ex' = [ex EXCEPT ![e] = [ex[e] EXCEPT !.pc = pc]]
    BY <1>2
  <2>. QED  BY <2>1, <2>2
<1>3. ASSUME NEW pc, NEW out, pc \in {"check", "proposed"} => \E t \in Int : out = {t},
             ex' = Ended(e, pc, out)
      PROVE  \E r : Holds(r) /\ ex' = [ex EXCEPT ![e] = r]
  <2>1. Holds([FreshLoop(e) EXCEPT !.pc = pc, !.out = out])
    BY <1>3 DEF Holds, FreshLoop
  <2>2. ex' = [ex EXCEPT ![e] = [FreshLoop(e) EXCEPT !.pc = pc, !.out = out]]
    BY <1>3 DEF Ended
  <2>. QED  BY <2>1, <2>2
<1>4. ASSUME ex' = Fails(e) PROVE \E r : Holds(r) /\ ex' = [ex EXCEPT ![e] = r]
  BY <1>3, <1>4 DEF Fails
<1>5. ASSUME NEW t \in cfg.texts, ex' = Answers(e, t)
      PROVE  \E r : Holds(r) /\ ex' = [ex EXCEPT ![e] = r]
  <2>1. t \in Int
    BY ConfigsAssumption, TextsAssumption DEF WinnerInv
  <2>2. Holds([ex[e] EXCEPT !.pc = "check", !.busy = 0, !.out = {t}])
    BY <1>1, <2>1 DEF Holds
  <2>3. ex' = [ex EXCEPT ![e] = [ex[e] EXCEPT !.pc = "check", !.busy = 0, !.out = {t}]]
    BY <1>1, <1>5 DEF Answers
  <2>. QED  BY <2>2, <2>3
<1>6. CASE CardHit(e)
  <2>1. ex' = [ex EXCEPT ![e].pc = "send"] /\ "send" \notin {"check", "proposed"}
    BY <1>6 DEF CardHit
  <2>. QED  BY <1>2, <2>1, Zenon
<1>7. CASE CardLock(e)
  <2>1. ex' = [ex EXCEPT ![e].pc = "fetch"] /\ "fetch" \notin {"check", "proposed"}
    BY <1>7 DEF CardLock
  <2>. QED  BY <1>2, <2>1, Zenon
<1>8. CASE CardFetched(e)
  <2>1. ex' = [ex EXCEPT ![e].pc = "send"] /\ "send" \notin {"check", "proposed"}
    BY <1>8 DEF CardFetched
  <2>. QED  BY <1>2, <2>1, Zenon
<1>9. CASE CardUnavailable(e) \/ PollEnds(e) \/ PollRefused(e) \/ CloudFails(e)
  BY <1>4, <1>9 DEF CardUnavailable, PollEnds, PollRefused, CloudFails
<1>10. CASE SendTask(e)
  BY <1>2, <1>4, <1>10 DEF SendTask
<1>11. CASE \E t \in cfg.texts : PollCompleted(e, t) \/ CloudAnswers(e, t)
  BY <1>5, <1>11 DEF PollCompleted, CloudAnswers
<1>12. CASE CloudBusy(e)
  <2>1. CASE ex' = Fails(e)
    BY <1>4, <2>1
  <2>2. CASE ex' = [ex EXCEPT ![e].busy = @ + 1]
    <3>1. Holds([ex[e] EXCEPT !.busy = @ + 1])
      BY <1>1 DEF Holds
    <3>2. ex' = [ex EXCEPT ![e] = [ex[e] EXCEPT !.busy = @ + 1]]
      BY <1>1, <2>2
    <3>. QED  BY <3>1, <3>2
  <2>. QED  BY <1>12, <2>1, <2>2 DEF CloudBusy
<1>13. CASE TurnTimeout(e)
  <2>1. CASE ex' = Fails(e)
    BY <1>4, <2>1
  <2>2. CASE ex' = [ex EXCEPT ![e] = [@ EXCEPT !.pc = Start(e), !.busy = 0, !.retried = TRUE]]
    <3>1. Start(e) \notin {"check", "proposed"}
      BY DEF Start
    <3>2. Holds([ex[e] EXCEPT !.pc = Start(e), !.busy = 0, !.retried = TRUE])
      BY <1>1, <3>1 DEF Holds
    <3>3. ex' = [ex EXCEPT ![e] = [ex[e] EXCEPT !.pc = Start(e), !.busy = 0, !.retried = TRUE]]
      BY <1>1, <2>2
    <3>. QED  BY <3>2, <3>3
  <2>. QED  BY <1>13, <2>1, <2>2 DEF TurnTimeout
<1>14. CASE CheckTurn(e)
  <2>1. PICK t : t = CHOOSE x \in ex[e].out : TRUE
    OBVIOUS
  <2>2. t \in Int
    <3>1. ex[e].pc = "check"
      BY <1>14 DEF CheckTurn
    <3>2. PICK u \in Int : ex[e].out = {u}
      BY <1>1, <3>1 DEF Holds
    <3>. QED  BY <2>1, <3>2
  <2>3. CASE ex' = Fails(e)
    BY <1>4, <2>3
  <2>4. CASE ex' = Ended(e, "proposed", {t})
    BY <1>3, <2>2, <2>4
  <2>5. ASSUME NEW x, ex' = [ex EXCEPT ![e] = [ex[e] EXCEPT !.pc = Start(e), !.turn = x,
                                                            !.last = {t}, !.out = {}]]
        PROVE  \E r : Holds(r) /\ ex' = [ex EXCEPT ![e] = r]
    <3>1. Start(e) \notin {"check", "proposed"}
      BY DEF Start
    <3>2. PICK r : r = [ex[e] EXCEPT !.pc = Start(e), !.turn = x, !.last = {t}, !.out = {}]
      OBVIOUS
    <3>3. Holds(r)
      BY <1>1, <3>1, <3>2 DEF Holds
    <3>4. ex' = [ex EXCEPT ![e] = r]
      BY <2>5, <3>2, Zenon
    <3>. QED  BY <3>3, <3>4
  <2>6. \/ ex' = Fails(e)
        \/ ex' = Ended(e, "proposed", {t})
        \/ ex' = [ex EXCEPT ![e] = [@ EXCEPT !.pc = Start(e), !.turn = @ + 1,
                                             !.last = {t}, !.out = {}]]
    BY <1>14, <2>1, Zenon DEF CheckTurn
  <2>7. ASSUME ex' = [ex EXCEPT ![e] = [@ EXCEPT !.pc = Start(e), !.turn = @ + 1,
                                                 !.last = {t}, !.out = {}]]
        PROVE  \E x : ex' = [ex EXCEPT ![e] = [ex[e] EXCEPT !.pc = Start(e), !.turn = x,
                                                            !.last = {t}, !.out = {}]]
    BY <2>7
  <2>. QED  BY <2>3, <2>4, <2>5, <2>6, <2>7, Zenon
<1>. QED  BY <1>6, <1>7, <1>8, <1>9, <1>10, <1>11, <1>12, <1>13, <1>14 DEF AdapterReturns

\* Merging selects a winner near the honest.
LEMMA MergeIsNear ==
  ASSUME WinnerInv, MergeResolves
  PROVE  WinnerNearHonest'
<1>1. cfg \in Configs /\ cfg' = cfg /\ Survivors \subseteq Proposed
  BY DEF WinnerInv, MergeResolves
<1>2. PICK set : /\ set = ProposalSet
                 /\ \E order \in Compile(set) \ {<<>>} :
                      \E ts \in {Table([i \in DOMAIN order |-> TextOf(order[i])])},
                         scores \in {Table([i \in DOMAIN order |-> set[order[i]].score])} :
                         \E sel \in Resolve(cfg.osp, cfg.strategy, cfg.embed, ts, scores) :
                            outcome' = {[mode |-> sel.mode, index |-> sel.index, texts |-> ts]}
  BY DEF MergeResolves
<1>3. PICK order, ts, scores, sel :
         /\ order \in Compile(set)
         /\ ts = Table([i \in DOMAIN order |-> TextOf(order[i])])
         /\ sel \in Resolve(cfg.osp, cfg.strategy, cfg.embed, ts, scores)
         /\ outcome' = {[mode |-> sel.mode, index |-> sel.index, texts |-> ts]}
  BY <1>2, Zenon
<1>4. PICK N \in Nat : N = Len(cfg.adapter) /\ Explorers = 1..N
  <2>1. cfg.adapter \in Seq(ToSet(cfg.adapter))
    BY <1>1, ConfigsAssumption
  <2>. QED  BY <2>1 DEF Explorers
<1>5. DOMAIN set \subseteq Survivors
  BY <1>2, <1>4, ProposedAreSurvivors
<1>6. order \in Seq(DOMAIN set)
  <2>1. DOMAIN set \subseteq 1..N
    BY <1>4, <1>5 DEF Survivors
  <2>. QED  BY <1>3, <2>1, OrdersAreLists
<1>7. \A e \in Proposed : TextOf(e) \in Int
  <2>. SUFFICES ASSUME NEW e \in Proposed PROVE TextOf(e) \in Int
    OBVIOUS
  <2>1. PICK t \in Int : ex[e].out = {t}
    BY DEF WinnerInv, Holds, Proposed
  <2>. QED  BY <2>1 DEF TextOf
<1>8. ts \in Seq(Int)
  <2>1. ts = [i \in DOMAIN order |-> TextOf(order[i])]
    BY <1>3 DEF Table
  <2>2. PICK n \in Nat : DOMAIN order = 1..n
    BY <1>6
  <2>3. \A i \in 1..n : TextOf(order[i]) \in Int
    <3>. SUFFICES ASSUME NEW i \in 1..n PROVE TextOf(order[i]) \in Int
      OBVIOUS
    <3>1. order[i] \in Proposed
      BY <1>1, <1>5, <1>6, <2>2
    <3>. QED  BY <1>7, <3>1
  <2>4. ts \in [1..n -> Int]
    BY <2>1, <2>2, <2>3
  <2>. QED  BY <2>4
<1>9. PICK s : s = cfg.strategy /\ s.kind \in {"median", "ordered", "krum", "multi"}
               /\ s.f \in Nat /\ (s.kind = "multi" => s.m \in Nat \ {0})
  BY <1>1, ConfigsAssumption
<1>10. PICK k : k = (IF sel.mode = "krum" THEN Len(ts) ELSE Len(ts) - s.m + 1) - s.f - 2
  OBVIOUS
<1>11. ASSUME sel.mode \in {"krum", "multi_krum"}, s.f > 0, k >= s.f
       PROVE  NearHonest(cfg.embed, ts, sel.index, s.f, k)
  <2>1. s.f \in Nat \ {0}
    BY <1>9, <1>11
  <2>2. sel \in Resolve(cfg.osp, s, cfg.embed, ts, scores)
    BY <1>3, <1>9
  <2>3. /\ s.kind \in {"median", "ordered", "krum", "multi"}
        /\ s.kind = "multi" => s.m \in Nat \ {0}
        /\ sel.mode \in {"krum", "multi_krum"} /\ k >= s.f
    BY <1>9, <1>11
  <2>4. k = (IF sel.mode = "krum" THEN Len(ts) ELSE Len(ts) - s.m + 1) - s.f - 2
    BY <1>10
  <2>. QED  BY <1>8, <2>1, <2>2, <2>3, <2>4, SelectionIsNear
<1>12. \A o \in outcome' : o.mode = sel.mode /\ o.index = sel.index /\ o.texts = ts
  BY <1>3
<1>. QED  BY <1>1, <1>9, <1>10, <1>11, <1>12, Zenon DEF WinnerNearHonest

\* Whatever the proposals and whichever f of them are outliers, the winner of Krum or of
\* Multi-Krum is near one of the others (krum.rs 161-325, merger.rs 139-250).
THEOREM WinnerHonest == Spec => []WinnerNearHonest
<1>1. ASSUME Init PROVE WinnerInv
  <2>1. cfg \in Configs /\ WinnerNearHonest
    BY <1>1 DEF Init, WinnerNearHonest
  <2>2. CASE InitTask
    <3>1. Survivors = {}
      BY <2>2 DEF InitTask, Survivors
    <3>2. \A e \in Explorers : Holds(FreshLoop(e))
      BY DEF Holds, FreshLoop, Opening, Start
    <3>3. DOMAIN ex = Explorers /\ \A e \in Explorers : ex[e] = FreshLoop(e)
      BY <2>2 DEF InitTask
    <3>. QED  BY <2>1, <3>1, <3>2, <3>3 DEF WinnerInv
  <2>3. CASE InitMerge
    <3>1. PICK t \in [Explorers -> cfg.texts] :
             ex = [e \in Explorers |-> [FreshLoop(e) EXCEPT !.pc = "proposed", !.out = {t[e]}]]
      BY <2>3 DEF InitMerge
    <3>2. \A e \in Explorers : t[e] \in Int
      BY <2>1, ConfigsAssumption, TextsAssumption
    <3>3. \A e \in Explorers : Holds(ex[e]) /\ ex[e].pc = "proposed"
      BY <3>1, <3>2 DEF Holds, FreshLoop
    <3>4. Survivors \subseteq Proposed
      BY <3>3 DEF Survivors, Proposed
    <3>5. DOMAIN ex = Explorers /\ stage = "merge"
      BY <2>3, <3>1 DEF InitMerge
    <3>. QED  BY <2>1, <3>3, <3>4, <3>5 DEF WinnerInv
  <2>. QED  BY <1>1, <2>2, <2>3 DEF Init
<1>2. ASSUME WinnerInv, [Next]_vars PROVE WinnerInv'
  <2>. DEFINE Early == {"explore", "verify"}
  <2>1. ASSUME UNCHANGED <<cfg, ex, passed>>, stage' \in Early => stage \in Early, WinnerNearHonest'
        PROVE  WinnerInv'
    <3>1. Explorers' = Explorers
      BY <2>1 DEF Explorers
    <3>2. Survivors' = Survivors /\ Proposed' = Proposed
      BY <2>1, <3>1 DEF Survivors, Proposed
    <3>. QED  BY <1>2, <2>1, <3>1, <3>2 DEF WinnerInv
  <2>2. ASSUME UNCHANGED <<cfg, ex, passed, outcome>>, stage' \in Early => stage \in Early
        PROVE  WinnerInv'
    <3>1. WinnerNearHonest'
      BY <1>2, <2>2, OutcomeKeeps DEF WinnerInv
    <3>. QED  BY <2>1, <2>2, <3>1
  <2>3. ASSUME UNCHANGED <<cfg, outcome>>, DOMAIN ex' = Explorers,
               \A e \in Explorers : Holds(ex'[e]), Survivors' = {}
        PROVE  WinnerInv'
    <3>1. Explorers' = Explorers
      BY <2>3 DEF Explorers
    <3>2. WinnerNearHonest'
      BY <1>2, <2>3, OutcomeKeeps DEF WinnerInv
    <3>. QED  BY <1>2, <2>3, <3>1, <3>2 DEF WinnerInv
  <2>4. CASE UNCHANGED vars
    BY <2>2, <2>4 DEF vars
  <2>5. ASSUME NEW e \in Explorers, AdapterReturns(e) \/ TurnTimeout(e) \/ CheckTurn(e)
        PROVE  WinnerInv'
    <3>1. stage = "explore" /\ UNCHANGED <<cfg, passed, outcome>>
      BY <2>5 DEF AdapterReturns, CardHit, CardLock, CardFetched, CardUnavailable, SendTask, PollEnds,
             PollRefused, PollCompleted, CloudAnswers, CloudBusy, CloudFails, TurnTimeout, CheckTurn
    <3>2. PICK r : Holds(r) /\ ex' = [ex EXCEPT ![e] = r]
      BY <1>2, <2>5, LoopHolds
    <3>3. Survivors' = {}
      BY <1>2, <3>1 DEF WinnerInv, Survivors, Explorers
    <3>4. DOMAIN ex' = Explorers /\ \A d \in Explorers : Holds(ex'[d])
      BY <1>2, <3>2 DEF WinnerInv
    <3>. QED  BY <2>3, <3>1, <3>3, <3>4
  <2>6. CASE CardExpires \/ ExploreEnds
    <3>1. UNCHANGED <<cfg, ex, passed, outcome>> /\ stage \in Early
      BY <2>6 DEF CardExpires, ExploreEnds
    <3>. QED  BY <2>2, <3>1
  <2>7. CASE GenerationTimeout
    <3>1. stage = "explore" /\ UNCHANGED <<cfg, passed, outcome>>
      BY <2>7 DEF GenerationTimeout
    <3>2. ex' = [e \in Explorers |-> [FreshLoop(e) EXCEPT !.pc = "failed"]]
      BY <2>7 DEF GenerationTimeout
    <3>3. \A e \in Explorers : Holds([FreshLoop(e) EXCEPT !.pc = "failed"])
      BY DEF Holds, FreshLoop
    <3>4. Survivors' = {}
      BY <1>2, <3>1 DEF WinnerInv, Survivors, Explorers
    <3>. QED  BY <2>3, <3>1, <3>2, <3>3, <3>4
  <2>8. CASE \E e \in Explorers, i \in Docs : Lookup(e, i) \/ EvalReturns(e, i)
    <3>1. PICK e \in Explorers, i \in Docs : Lookup(e, i) \/ EvalReturns(e, i)
      BY <2>8
    <3>2. UNCHANGED <<cfg, ex, passed, outcome>> /\ stage' = stage
      BY <3>1 DEF Lookup, EvalHit, EvalMiss, EvalReturns, JudgeReturns, EvalAnswer, PanelEval
    <3>. QED  BY <2>2, <3>2
  <2>9. CASE VerifyEnds
    <3>1. UNCHANGED <<cfg, ex, outcome>> /\ stage' \notin Early
      BY <2>9 DEF VerifyEnds
    <3>2. \A e \in Explorers : passed'[e] # {} => e \in Proposed
      BY <2>9 DEF VerifyEnds
    <3>3. Explorers' = Explorers /\ Proposed' = Proposed
      BY <3>1 DEF Explorers, Proposed
    <3>4. Survivors' \subseteq Proposed'
      BY <3>2, <3>3 DEF Survivors
    <3>5. WinnerNearHonest'
      BY <1>2, <3>1, OutcomeKeeps DEF WinnerInv
    <3>. QED  BY <1>2, <3>1, <3>3, <3>4, <3>5 DEF WinnerInv
  <2>10. CASE CompareEnds
    <3>1. UNCHANGED <<cfg, ex, passed, outcome>> /\ stage' \notin Early
      BY <2>10 DEF CompareEnds
    <3>. QED  BY <2>2, <3>1
  <2>11. CASE MergeResolves
    <3>1. UNCHANGED <<cfg, ex, passed>> /\ stage' \notin Early
      BY <2>11 DEF MergeResolves
    <3>2. WinnerNearHonest'
      BY <1>2, <2>11, MergeIsNear
    <3>. QED  BY <2>1, <3>1, <3>2
  <2>12. CASE ZeroSurvival
    <3>1. CASE wave < MaxWaves
      <4>1. /\ ex' = [e \in Explorers |-> FreshLoop(e)] /\ passed' = [e \in Explorers |-> {}]
            /\ UNCHANGED <<cfg, outcome>>
        BY <2>12, <3>1 DEF ZeroSurvival
      <4>2. \A e \in Explorers : Holds(FreshLoop(e))
        BY DEF Holds, FreshLoop, Opening, Start
      <4>3. Survivors' = {}
        BY <4>1 DEF Survivors, Explorers
      <4>. QED  BY <2>3, <4>1, <4>2, <4>3
    <3>2. CASE ~(wave < MaxWaves)
      <4>1. UNCHANGED <<cfg, ex, passed, outcome>> /\ stage' \notin Early
        BY <2>12, <3>2 DEF ZeroSurvival
      <4>. QED  BY <2>2, <4>1
    <3>. QED  BY <3>1, <3>2
  <2>. QED  BY <1>2, <2>4, <2>5, <2>6, <2>7, <2>8, <2>9, <2>10, <2>11, <2>12 DEF Next
<1>3. WinnerInv => WinnerNearHonest
  BY DEF WinnerInv
<1>. QED  BY <1>1, <1>2, <1>3, PTL DEF Spec
=============================================================================
