---------------------------- MODULE AgentDispatch ----------------------------
(***************************************************************************)
(* Explorer calls dispatched to edge agents over NATS:                     *)
(*                                                                         *)
(*   h2ai-orchestrator/src/nats_dispatch_adapter.rs  the caller            *)
(*   h2ai-provisioner/src/nats_provider.rs           the agent registry    *)
(*   h2ai-provisioner/src/scheduling.rs              the choice of an agent*)
(*   h2ai-agent/src/{main,dispatch,heartbeat,tao_agent}.rs   the agent     *)
(*   h2ai-state/src/nats.rs           publish_task_payload,                *)
(*                                    await_task_result_once               *)
(*                                                                         *)
(* Payloads, heartbeats and terminate messages travel on core NATS: each   *)
(* subscriber of the moment gets one copy or none.  Results go through a   *)
(* JetStream work queue.  Every call has a task id of its own, and every   *)
(* agent process an agent id of its own, so nothing is retried in place.   *)
(*                                                                         *)
(* All agents are of one cost tier and have the tools every call requires  *)
(* (agent/src/main.rs, routes/tasks.rs), so the choice is by load alone.   *)
(***************************************************************************)
EXTENDS Naturals, FiniteSets

CONSTANTS
    Agents,     \* agent processes, each with its id
    Calls,      \* calls of NatsDispatchAdapter::execute, each with its task id
    MaxTurns,   \* agent_max_tool_iterations
    NoCall

ASSUME DispatchAssumption == MaxTurns \in Nat \ {0} /\ NoCall \notin Calls

VARIABLES
    up,         \* [Agents -> {"off", "starting", "up", "gone"}]
    inbox,      \* [Agents -> SUBSET Calls]: payloads its subscription holds, in any order
    stop,       \* agents with a terminate message to read
    work,       \* [Agents -> Calls or NoCall]: the payload the loop is at
    turn,       \* [Agents -> 0..MaxTurns]: turn of its TAO loop, 0 outside of it
    reply,      \* [Agents -> "none", "answer" or "error"]: the TaskResult to publish
    active,     \* [Agents -> Nat]: the AtomicU32 the heartbeat reports
    beat,       \* [Agents -> SUBSET Nat]: the load in a heartbeat on its way, {} if there is none
    registry,   \* [Agents -> SUBSET Nat]: the load of a live registration, {} if there is none
    call,       \* [Calls -> where the caller is]
    target,     \* [Calls -> SUBSET Agents]: the selected agent, {} before
    waiter,     \* [Calls -> where the spawned await_task_result_once is]
    skipped,    \* [Calls -> Nat]: stored messages the consumer starts behind
    result,     \* [Calls -> "none", "answer" or "error"]: the message in the work queue
    ran,        \* [Calls -> Nat]: how often an agent began to execute it
    ended       \* [Calls -> how its TAO loop ended]

agentVars == <<up, inbox, stop, work, turn, reply, active, beat>>
callVars  == <<call, target, waiter, skipped>>
ghosts    == <<ran, ended>>
dispatchVars      == <<agentVars, registry, callVars, result, ghosts>>

DispatchInit ==
    /\ up = [a \in Agents |-> "off"] /\ inbox = [a \in Agents |-> {}] /\ stop = {}
    /\ work = [a \in Agents |-> NoCall] /\ turn = [a \in Agents |-> 0]
    /\ reply = [a \in Agents |-> "none"] /\ active = [a \in Agents |-> 0]
    /\ beat = [a \in Agents |-> {}] /\ registry = [a \in Agents |-> {}]
    /\ call = [c \in Calls |-> "idle"] /\ target = [c \in Calls |-> {}]
    /\ waiter = [c \in Calls |-> "none"] /\ skipped = [c \in Calls |-> 0]
    /\ result = [c \in Calls |-> "none"]
    /\ ran = [c \in Calls |-> 0] /\ ended = [c \in Calls |-> "none"]

-----------------------------------------------------------------------------
(* The agent's life *)

\* main: the heartbeat starts before the subscriptions are made.
Boot(a) ==
    /\ up[a] = "off"
    /\ up' = [up EXCEPT ![a] = "starting"]
    /\ UNCHANGED <<inbox, stop, work, turn, reply, active, beat, registry, callVars, result,
                   ghosts>>

Subscribe(a) ==
    /\ up[a] = "starting"
    /\ up' = [up EXCEPT ![a] = "up"]
    /\ UNCHANGED <<inbox, stop, work, turn, reply, active, beat, registry, callVars, result,
                   ghosts>>

\* The process ends and what it holds goes with it: a crash, a missing adapter
\* or a failed subscription.
Exit(a) ==
    /\ up' = [up EXCEPT ![a] = "gone"]
    /\ inbox' = [inbox EXCEPT ![a] = {}] /\ stop' = stop \ {a}
    /\ work' = [work EXCEPT ![a] = NoCall] /\ turn' = [turn EXCEPT ![a] = 0]
    /\ reply' = [reply EXCEPT ![a] = "none"] /\ active' = [active EXCEPT ![a] = 0]
    /\ UNCHANGED <<beat, registry, callVars, result, ghosts>>

Crash(a) == up[a] \in {"starting", "up"} /\ Exit(a)

\* The loop reads the terminate message between two payloads; payloads that
\* wait beside it are lost.
StopLoop(a) == up[a] = "up" /\ a \in stop /\ work[a] = NoCall /\ Exit(a)

\* HeartbeatTask, every ten seconds; it may get lost.
Beat(a) ==
    /\ up[a] \in {"starting", "up"} /\ beat[a] = {}
    /\ beat' = [beat EXCEPT ![a] = {active[a]}]
    /\ UNCHANGED <<up, inbox, stop, work, turn, reply, active, registry, callVars, result,
                   ghosts>>

LoseBeat(a) ==
    /\ beat[a] # {}
    /\ beat' = [beat EXCEPT ![a] = {}]
    /\ UNCHANGED <<up, inbox, stop, work, turn, reply, active, registry, callVars, result,
                   ghosts>>

-----------------------------------------------------------------------------
(* NatsAgentProvider *)

\* The heartbeat subscriber registers whoever it hears from.
Register(a) ==
    /\ beat[a] # {}
    /\ registry' = [registry EXCEPT ![a] = beat[a]]
    /\ beat' = [beat EXCEPT ![a] = {}]
    /\ UNCHANGED <<up, inbox, stop, work, turn, reply, active, callVars, result, ghosts>>

\* A registration older than the TTL is passed over by select_agent and removed
\* by the cleanup task.
Lapse(a) ==
    /\ registry[a] # {}
    /\ registry' = [registry EXCEPT ![a] = {}]
    /\ UNCHANGED <<agentVars, callVars, result, ghosts>>

\* terminate_agent: the message reaches a subscribed agent or is lost, and the
\* registration goes; the next heartbeat brings it back.
TerminateAgent(a) ==
    /\ stop' \in {stop, IF up[a] = "up" THEN stop \cup {a} ELSE stop}
    /\ registry' = [registry EXCEPT ![a] = {}]
    /\ UNCHANGED <<up, inbox, work, turn, reply, active, beat, callVars, result, ghosts>>

\* LeastLoadedPolicy within one cost tier; ties are broken by the agent id,
\* which is random.
Live == {a \in Agents : registry[a] # {}}
LeastLoaded ==
    {a \in Live : \A b \in Live : \A m \in registry[a], n \in registry[b] : m <= n}

-----------------------------------------------------------------------------
(* NatsDispatchAdapter::execute *)

\* select_agent, then the waiter is spawned before the payload goes out; it may
\* be scheduled after that all the same.
Select(c) ==
    /\ call[c] = "idle"
    /\ \E a \in LeastLoaded : target' = [target EXCEPT ![c] = {a}]
    /\ call' = [call EXCEPT ![c] = "selected"]
    /\ waiter' = [waiter EXCEPT ![c] = "spawned"]
    /\ UNCHANGED <<agentVars, registry, skipped, result, ghosts>>

NoAgents(c) ==
    /\ call[c] = "idle" /\ Live = {}
    /\ call' = [call EXCEPT ![c] = "failed"]
    /\ UNCHANGED <<agentVars, registry, target, waiter, skipped, result, ghosts>>

\* An agent was selected, but the context cannot be offloaded.
OffloadError(c) ==
    /\ call[c] = "idle" /\ Live # {}
    /\ call' = [call EXCEPT ![c] = "failed"]
    /\ UNCHANGED <<agentVars, registry, target, waiter, skipped, result, ghosts>>

\* publish_task_payload: every agent subscribes to the payloads of all.
PublishPayload(c) ==
    /\ call[c] = "selected"
    /\ \E got \in SUBSET {a \in Agents : up[a] = "up"} :
         inbox' = [a \in Agents |-> IF a \in got THEN inbox[a] \cup {c} ELSE inbox[a]]
    /\ call' = [call EXCEPT ![c] = "waiting"]
    /\ UNCHANGED <<up, stop, work, turn, reply, active, beat, registry, target, waiter,
                   skipped, result, ghosts>>

\* On an error the caller returns; its waiter stays.
PublishError(c) ==
    /\ call[c] = "selected"
    /\ call' = [call EXCEPT ![c] = "failed"]
    /\ UNCHANGED <<agentVars, registry, target, waiter, skipped, result, ghosts>>

\* The generation phase times out and drops the call; its waiter stays.
Abandon(c) ==
    /\ call[c] \in {"selected", "waiting"}
    /\ call' = [call EXCEPT ![c] = "dropped"]
    /\ UNCHANGED <<agentVars, registry, target, waiter, skipped, result, ghosts>>

\* The waiter has ended: its message, without an error in it, is the answer.
Return(c) ==
    /\ call[c] = "waiting" /\ waiter[c] \in {"answer", "error", "timeout"}
    /\ call' = [call EXCEPT ![c] = IF waiter[c] = "answer" THEN "ok" ELSE "failed"]
    /\ UNCHANGED <<agentVars, registry, target, waiter, skipped, result, ghosts>>

-----------------------------------------------------------------------------
(* await_task_result_once *)

\* Where a new consumer starts: DeliverPolicy::All skips nothing.
DeliverNew(c) == IF result[c] = "none" THEN 0 ELSE 1
DeliverPolicy(c) == 0

CreateConsumer(c) ==
    /\ waiter[c] = "spawned"
    /\ waiter' = [waiter EXCEPT ![c] = "listening"]
    /\ skipped' = [skipped EXCEPT ![c] = DeliverPolicy(c)]
    /\ UNCHANGED <<agentVars, registry, call, target, result, ghosts>>

\* The first message is taken; acknowledged, it leaves the work queue.
Receive(c) ==
    /\ waiter[c] = "listening" /\ result[c] # "none" /\ skipped[c] = 0
    /\ waiter' = [waiter EXCEPT ![c] = result[c]]
    /\ result' = [result EXCEPT ![c] = "none"]
    /\ UNCHANGED <<agentVars, registry, call, target, skipped, ghosts>>

\* The stream cannot be reached, or breaks off, or the acknowledgement fails.
WaiterError(c) ==
    /\ waiter[c] \in {"spawned", "listening"}
    /\ waiter' = [waiter EXCEPT ![c] = "error"]
    /\ UNCHANGED <<agentVars, registry, call, target, skipped, result, ghosts>>

\* task_timeout.
WaitOn(c) == call[c] = "idle" /\ waiter[c] = "listening" /\ UNCHANGED dispatchVars
TimesOut(c) ==
    /\ waiter[c] = "listening"
    /\ waiter' = [waiter EXCEPT ![c] = "timeout"]
    /\ UNCHANGED <<agentVars, registry, call, target, skipped, result, ghosts>>

-----------------------------------------------------------------------------
(* DispatchLoop *)

AnyAgent(a, c) == TRUE
Addressee(a, c) == a \in target[c]

\* One payload at a time; one for another agent is passed over.
Take(a) ==
    /\ up[a] = "up" /\ work[a] = NoCall
    /\ \E c \in inbox[a] :
         /\ Addressee(a, c)
         /\ inbox' = [inbox EXCEPT ![a] = @ \ {c}]
         /\ work' = [work EXCEPT ![a] = c]
         /\ ran' = [ran EXCEPT ![c] = @ + 1]
    /\ turn' = [turn EXCEPT ![a] = 1]
    /\ active' = [active EXCEPT ![a] = @ + 1]
    /\ UNCHANGED <<up, stop, reply, beat, registry, callVars, result, ended>>

PassOver(a) ==
    /\ up[a] = "up" /\ work[a] = NoCall
    /\ \E c \in inbox[a] :
         ~Addressee(a, c) /\ inbox' = [inbox EXCEPT ![a] = @ \ {c}]
    /\ UNCHANGED <<up, stop, work, turn, reply, active, beat, registry, callVars, result,
                   ghosts>>

\* TaoAgent::run, a turn that ends in a tool call: the next one follows.

ToolCall(a) ==
    /\ turn[a] \in 1..(MaxTurns - 1)
    /\ turn' = [turn EXCEPT ![a] = @ + 1]
    /\ UNCHANGED <<up, inbox, stop, work, reply, active, beat, registry, callVars, result,
                   ghosts>>

\* How the loop may end at this turn: with a plain text, with an adapter error,
\* or in the last turn with a tool call, whose observation is then the output.
Endings(a) == {"final", "adapter_failed"} \cup (IF turn[a] = MaxTurns THEN {"truncated"} ELSE {})

\* execute_task: only an adapter error makes an error of it.
OutputOnly(end) == "answer"
ReplyFor(end) == IF end = "adapter_failed" THEN "error" ELSE "answer"

Execute(a) ==
    /\ turn[a] > 0
    /\ \E end \in Endings(a) :
         /\ reply' = [reply EXCEPT ![a] = ReplyFor(end)]
         /\ ended' = [ended EXCEPT ![work[a]] = end]
    /\ turn' = [turn EXCEPT ![a] = 0]
    /\ active' = [active EXCEPT ![a] = @ - 1]
    /\ UNCHANGED <<up, inbox, stop, work, beat, registry, callVars, result, ran>>

\* publish_result waits for the stream's acknowledgement; an error is logged,
\* and the loop goes on.
PublishResult(a) ==
    /\ reply[a] # "none"
    /\ result' = [result EXCEPT ![work[a]] = reply[a]]
    /\ reply' = [reply EXCEPT ![a] = "none"] /\ work' = [work EXCEPT ![a] = NoCall]
    /\ UNCHANGED <<up, inbox, stop, turn, active, beat, registry, callVars, ghosts>>

ResultUnsent(a) ==
    /\ reply[a] # "none"
    /\ reply' = [reply EXCEPT ![a] = "none"] /\ work' = [work EXCEPT ![a] = NoCall]
    /\ UNCHANGED <<up, inbox, stop, turn, active, beat, registry, callVars, result, ghosts>>

-----------------------------------------------------------------------------
AgentStep(a) ==
    \/ Boot(a) \/ Subscribe(a) \/ Crash(a) \/ StopLoop(a) \/ Beat(a) \/ LoseBeat(a)
    \/ Take(a) \/ PassOver(a) \/ ToolCall(a) \/ Execute(a) \/ PublishResult(a)
    \/ ResultUnsent(a)

ProviderStep(a) == Register(a) \/ Lapse(a) \/ TerminateAgent(a)

CallStep(c) ==
    \/ Select(c) \/ NoAgents(c) \/ OffloadError(c) \/ PublishPayload(c) \/ PublishError(c)
    \/ Abandon(c) \/ Return(c) \/ CreateConsumer(c) \/ Receive(c) \/ WaiterError(c) \/ TimesOut(c)

DispatchNext ==
    \/ \E a \in Agents : AgentStep(a) \/ ProviderStep(a)
    \/ \E c \in Calls : CallStep(c)

DispatchSpec == DispatchInit /\ [][DispatchNext]_dispatchVars

\* A started call and its waiter are driven by the runtime and the stream hands
\* out what it holds.  Agents, heartbeats and core NATS owe nothing, and neither
\* does the timer: CallReturns assumes it where it is needed.
FairDispatch ==
    /\ DispatchSpec
    /\ \A c \in Calls :
         /\ WF_dispatchVars(PublishPayload(c) \/ PublishError(c))
         /\ WF_dispatchVars(waiter[c] = "spawned" /\ (CreateConsumer(c) \/ WaiterError(c)))
         /\ WF_dispatchVars(Receive(c)) /\ WF_dispatchVars(Return(c))

-----------------------------------------------------------------------------
(* Properties *)

\* The load an agent reports is 0 or 1: its loop takes one payload at a time and
\* gives the counter back before it publishes (dispatch.rs active_tasks).
DispatchTypeOK ==
    /\ up \in [Agents -> {"off", "starting", "up", "gone"}]
    /\ inbox \in [Agents -> SUBSET Calls] /\ stop \in SUBSET Agents
    /\ work \in [Agents -> Calls \cup {NoCall}] /\ turn \in [Agents -> 0..MaxTurns]
    /\ reply \in [Agents -> {"none", "answer", "error"}]
    /\ active \in [Agents -> {0, 1}]
    /\ beat \in [Agents -> SUBSET {0, 1}] /\ registry \in [Agents -> SUBSET {0, 1}]
    /\ call \in [Calls -> {"idle", "selected", "waiting", "ok", "failed", "dropped"}]
    /\ target \in [Calls -> SUBSET Agents]
    /\ waiter \in [Calls -> {"none", "spawned", "listening", "answer", "error", "timeout"}]
    /\ skipped \in [Calls -> {0, 1}]
    /\ result \in [Calls -> {"none", "answer", "error"}]
    /\ ran \in [Calls -> Nat]
    /\ ended \in [Calls -> {"none", "final", "truncated", "adapter_failed"}]

\* Payloads go to every agent, but a call is executed at most once, and only by
\* the agent it was dispatched to (dispatch.rs compares agent ids).
ExecutedOnce ==
    /\ \A c \in Calls : ran[c] <= 1
    /\ \A a \in Agents : work[a] # NoCall => target[work[a]] = {a}

\* What a caller gets for an answer is what the model said or, at the iteration
\* cap, the last tool observation: never the text of an adapter error
\* (execute_task sets TaskResult.error, nats_dispatch_adapter.rs checks it).
OkIsAnAnswer ==
    \A c \in Calls : call[c] = "ok" => ran[c] = 1 /\ ended[c] \in {"final", "truncated"}

\* A call whose result is in the work queue returns without the help of its
\* timer, also when the agent was faster than the creation of the consumer
\* (nats_dispatch_adapter.rs, the spawned waiter races the publication).
AnsweredCallReturns ==
    \A c \in Calls :
        call[c] = "waiting" /\ waiter[c] \in {"spawned", "listening"} /\ result[c] # "none"
            ~> call[c] \notin {"selected", "waiting"}

\* Given a timer that fires, every dispatched call returns, whatever happens
\* to the agent, its payload and its result.
CallReturns ==
    (\A c \in Calls : WF_dispatchVars(TimesOut(c)))
        => \A c \in Calls : call[c] = "selected" ~> call[c] \notin {"selected", "waiting"}
=============================================================================
