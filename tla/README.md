# Verification of pera

pera runs code written by a language model in a secure environment: an
*orchestrator* lets participants (an LLM agent, a user, a UI) take turns and
applies their decisions to an *environment*; the environment of the agent
submits code to an *execution engine*, which interprets it, suspends it at each
external call, executes the call as an *action* in a sandboxed skill, and
resumes it with the result.

This directory holds TLA+ modules for the parts of the system that are
concurrent, persistent or stateful enough to go wrong in ways a test hardly
reaches, the TLC configurations that check them, and proofs checked by TLAPS.

## Inventory

| Part | State | Operations | Hard behaviour | What makes it correct |
|---|---|---|---|---|
| **Run loop** (`crates/orchestrator/src/orchestrator.rs`) | per participant: pending inbox, active loop (inbox, execution state, step count), finished; run counters; pending and submitted actions; queued events; round-robin index | `run_with_output`: limits, poll, pick, respond, apply one of six decisions | answers of the environment arrive in any order between any two phases; blocked and waiting loops; limits; clocks; errors of every collaborator | no item or wakeup lost, blocked loops released by their own answer only, each action reported once, fair turns, limits hold, runs end on their condition, and every run ends |
| **Environment interface** (`orchestrator/src/traits.rs`) | what an environment owes and has ready to be polled | `reset`, `schedule`, `perform_now`, `poll_events` | asynchronous with the loop | every accepted action is answered at most once, to whoever scheduled it |
| **Execution engine** (`runtime/src/engine.rs`, `run_executor.rs`) | statuses of runs; command and update queues | `submit`, `recover_from_events`, `run_status`; handlers for submissions, updates and their errors | each handler is a series of writes that may fail or be cut off by a restart | events in order, runs resumed with their own result, no waiting run forgotten, the ends announced are those in the store, ended runs stay ended |
| **Action worker** (`runtime/src/action.rs`) | the action being executed | claim, execute with timeout, answer | timeout against late answer | one answer per action |
| **Run store, event log** (`runtime/src/fs.rs`, `events.rs`) | `run.json`, action records, `events.jsonl`; broadcast channel | save, load, list, publish | crash between two files, lagging subscribers | recovery finds a consistent picture |
| **Agent workspace** (`runtime/src/agent_workspace.rs`) | runs by action, interpreter state per actor, loaded skills, pending events | the environment of the agent: load and unload skills, submit code, translate engine events | reads the engine's status when an event arrives; reset while runs are under way | keeps the promise of the environment interface; interpreter state persists between steps |
| **UI sessions** (`server/src/state/*.rs`, `ui/src/lib.rs`) | surface tree, bound data, event queue, pending results | click, apply result or failure, navigate, subscribe | events queued while the participant is blocked; subscribers that lag | each result bound to its own action |
| **Skill instances** (`runtime/src/catalog.rs`, `skills.rs`, `capabilities/`) | warm wasm instances, compiled components, database connections | load, invoke, evict | an execution that outlives its timeout keeps its instance | context of an invocation never leaks into another |
| **Skill provisioning** (`skills/src`, `cli/src/commands/skill.rs`) | files of installed skills | build, install, select a profile | I/O | manifests and profiles agree |
| **Catalog and bindings** (`runtime/src/catalog.rs`, `canonical/src/bindings.rs`) | registry of names | load, resolve, convert values | names shared by skills; integers of several widths | a name reaches its owner; values survive the round trip |
| **Interpreter** (`runtime/src/interpreter/monty.rs`) | none between calls | start, resume | external library | each argument bound once |
| **Agent** (`agents/src`, `llm/src`) | call ids, actions already shown | build a prompt, read an answer | two ways into the prompt; answers cut anywhere | calls and results pair up; the answer is taken whole |
| **Evaluations** (`evals/src`) | trajectory, verdict so far | converse, compare, judge | a verdict put together in three places | passed exactly if every criterion holds |
| **Command line, web shell** | terminal, browser | | responses overtake the stream | the current snapshot is shown |

The run loop calls the environment and the participants (awaiting each), the
workspace calls the engine through channels and hears of it through a broadcast
channel, the engine task and the action worker exchange queues, and the store and
the log are the only things that outlive the process. `PROJECT.json` lists the
components with their status and every hazard at the line where it bites.

## Modules

    Environment          what the run loop may rely on (abstract)
      Orchestrator       the run loop, composed with that environment
        MCOrchestrator             values for TLC
        OrchestratorProofs         its safety: blocked loops, wakeups, limits, verdicts, turns
    RunLifecycle         the order of a run's events (abstract)
    ExecutionEngine      engine task, action worker, store, log, restart
      MCExecutionEngine        values for TLC
      EngineProofs             its safety, and that it implements RunLifecycle
      AgentWorkspace     the agent's environment on top of the engine
        WorkspaceProofs            that it implements Environment
    ActionQueue          what the engine relies on of the worker (abstract)
    SkillInstances       the worker with its instances and threads
      MCSkillInstances         values for TLC
      SkillInstancesProofs     its safety, and that it implements ActionQueue
    UiServer             sessions of the interface, streams and shells
      MCUiServer               values for TLC
      UiServerProofs           its safety
    AgentPrompt          from trajectory and inbox to the prompt
    ResponseStream       from the model's answer to the decision
    SkillProvisioning    compile, install and database commands
    SkillCatalog         loaders and the registry of names
    ValueConversion      the conversions of a call's values
    Evaluation           users, criteria, judge, verdict
      MCComponents             values for TLC of the last six
    LoopTheorems         what is proved of a loop by its turns, whatever the loop
      SkillProofs              the safety of SkillProvisioning and SkillCatalog
      AgentProofs              the safety of ResponseStream, AgentPrompt and Evaluation

Four refinements tie the modules together. `ExecutionEngine` implements
`RunLifecycle` (`EventsInOrder`), `AgentWorkspace` implements `Environment`
(`KeepsPromise`), the assumption under which the run loop is checked and proved,
and `SkillInstances` implements `ActionQueue` (`ServesQueue`), the worker that
`ExecutionEngine` takes for granted; `Orchestrator` extends `Environment` itself.

### Environment and Orchestrator

`Environment` is the promise of the `Environment` trait at the grain the loop can
observe: `running[a]` is who is owed an answer for action `a`, `events` what the
next `poll_events` returns. An environment answers an accepted action once, to
the participant that scheduled it, completed or failed, and may send notices
besides.

`Orchestrator` extends it with the run loop. `pc` names the phase of
`run_with_output`:

| pc | code | actions |
|---|---|---|
| `idle` | no run | `StartRun` (reset and the new `RunState`), `ResetFails` |
| `limits` | top of the loop | `CheckLimits` |
| `poll` | `poll_environment_phase` up to the batch | `PollEnvironment`, `EnvironmentTerminates` |
| `apply` | one event of the batch | `ApplyEvent` |
| `pick` | `pick_next_participant` | `PickParticipant`, `NobodyToRun` |
| `turn` | `apply_decision` | one action per decision and outcome: `Notification`, `Message`, `FinalMessage`, `RefusedAction`, `ImmediateAction`, `ScheduledAction`, `UnscheduledAction`, `Yield`, `Finish`, and `ParticipantFails` |
| `ended` | after the loop | `EndRun` |

`Abort` is every `?` of the function: the participants are dropped with the
`RunState`, and the next run has none. Between any two phases the environment
answers and clocks run out (`EnvStep`, `WaitExpires`, `DurationElapses`). The
state of a participant is spread over functions: `loop[p]` is `Idle` or the
`LoopExecutionState` of its active loop, `awaiting[p]` the action it is blocked
on, `pendingInbox[p]` and `loopInbox[p]` the two inboxes.

Abstracted: message texts, observations, outcomes, the trajectory (but for which
participants completed a loop), the generated ids (the k-th action of a run is k).
Initial messages are at most one per participant. The termination check at the
top of the loop has no action, because only `Finish` finishes a participant and
checks at once; `EndsOnCondition` would fail if that left a gap.

### ExecutionEngine and RunLifecycle

The engine task handles one command or update at a time, and a handler is a
series of writes. `HandleSubmit` and `HandleUpdate` compute the series as
`apply_transition` and `handle_update_error` would perform it and put it in
`todo`; `Write` performs the next write, `WriteFails` is the error path out of it
(the submitter gets the error; an update goes to `handle_update_error`; an error
in there is dropped with the update, and the run enters `abandoned`). Between two
writes the worker claims and answers, subscribers read, and `Restart` may kill the
process: `store`, `records` and `log` survive, and `reply` and `feed` keep what the
submitters and the subscribers of the hub were told; everything else is lost. `log`
holds what recovery reads of `events.jsonl`: which ends it announces for each run. `RecoverRun` is one iteration of `handle_recover`, which
refuses to start when the action of a waiting run was never saved.

What the interpreter computes is a free choice: an external call, the end of the
run, or an error. `MaxCalls`, `MaxCrashes` and `MaxFaults` bound the calls per
run, the restarts and the failing writes.

An action record and a log line each go to two files, of which only the first is
ever read (`load_action`, `read_events`), and the hub is told after both. `FirstFile`
is what the first does, and `CutOff` a write that got no further: an error
(`WriteFails`) and a kill (`Restart`) may each leave the record or the line behind,
with its event told to nobody. So the log may announce both ends of a run: when
the line of `RunCompleted` is in the system's log but the run's own could not be
written, `handle_update_error` saves the run as failed and announces that too.
`LogTellsTheTruth` states what holds with that: what the subscribers were told of an
end is what the store says; a run the log calls failed is failed; and one it calls
completed is completed, or failed after a failing write, but always over, which is
what recovery relies on.

Assumed: the write of one file happens or does not (no torn files). This is stronger
than what a file system gives; see the hazards.

`RunLifecycle` says in which order the events of a run come, one event per step,
and `ExecutionEngine` implements it (`EventsInOrder`) with the last published
event as its state. After a restart events may be missing and an action may be
claimed again, but nothing ever follows the last event of a run.

### AgentWorkspace

Extends `ExecutionEngine` with `agent_workspace.rs`. `call` is the method the run
loop is in (`&mut self` admits one): `Scheduling(p, r)` while `submit` is awaited,
`Polling` from `collect_pending_events` to the end of the translation, `Broken`
after an error. The engine goes on during every call (`EngineGoesOn`), and what it
publishes goes to `channel`, of `ChannelSize` events, of which the oldest is
dropped for a subscriber that is too slow. `PollStarts` drains it, `Translate`
turns one event into events for the run loop and is the step that asks the engine
for the status. `Reset` forgets the actions and interpreter states, but neither the
engine's runs nor the events on their way.

Left out: the skills an actor has loaded (`load_skill`, `unload_skill`, the
lifecycle events), `observe`. They are read and written in the loop's own calls
only.

### SkillInstances and ActionQueue

`ActionQueue` is the worker as the engine sees it: it claims actions in the order
they were accepted and answers each once. `SkillInstances` is `execute` and
`execute_sync` with the caches of `catalog.rs`: the worker looks up, loads and
builds a warm instance (`Lookup`, `LoadComponent`, `CapabilityProviders`, `Build`,
`Store`), starts a thread (`Spawn`) and waits for it (`Join`) or gives up
(`TimesOut`), upon which the thread goes on. The thread takes the instance's mutex
twice, to set the context of the invocation and to call (`BeginInvocation`,
`TakeInstance`); it returns, traps, or panics with the mutex held. A trapped
instance is `spoiled` (the component model forbids entering it again), one with a
poisoned mutex refuses every lock. `MaxFaults` bounds the timeouts.

### UiServer

One session (sessions share nothing but the table). `HandleEvent` takes the mutex
of the runner and starts a run, `RunStep` is a turn of it, a poll of the answer or
its end, `Reply` answers the sender and broadcasts. A run is what the orchestrator
makes of one participant with an immediate action: sync the list, look at the
inbox, else at the work item; at most `MaxRunSteps` turns and `MaxRunActions`
actions. A shell fetches, posts, connects (`Connect` is the snapshot, `Subscribe`
the stream) and receives by two ways that overtake each other. A snapshot is known
by its version. Left out: the tree of the interface, its Markdown rendering, and
the rendering in the browser.

### The components without shared state

`MCComponents` puts six modules side by side and picks one `subject`; the others
stay in a state they begin in. They are checked by one run, because each is
sequential by itself and the question is the same: does the result fit its
definition.

- `AgentPrompt`: a trajectory as the run loop makes it, the builder's history
  (`seen`, call ids) and every prompt the agent sends. `Respond` is `respond` with
  the prompt it builds first; the other actions are the run loop's.
- `ResponseStream`: the answer as a sequence of server events, each a block of
  units of text; the connection delivers any number of units at a time, cuts
  characters and newlines, fails. `Collect` is the agent's loop over the events.
- `SkillProvisioning`: each command is a series of steps on files (`Steps`), which
  the next action performs and `CutOff` may stop, in the middle of a file too. A
  file's content is the source it was made of, `Partial` or `Missing`.
- `SkillCatalog`: entries installed, possibly unreadable, three ways to load, and
  the registry as the loop over what was loaded makes it, with its indexes.
- `ValueConversion`: one call through all conversions: interpreter object, value,
  canonical value, Wasm value and back (`Lift`, `LowerArguments`, `Invoke`,
  `Return`, `LiftResult`, `Resume`). 32 and 64 bits are scaled to 3 and 5.
- `Evaluation`: a conversation, the greedy comparison of requested actions with
  the expected ones, the criteria of the run, and a judge whose reply is parsed.

Module definitions that say "a slip" or "a mutant" are variants of the code with a
plausible mistake. No specification uses them; `PROJECT.json` pairs each with the
property that catches it, so that no property is satisfied by the shape of a model.

## Runs

| Run | Instance | What it shows |
|---|---|---|
| `orchestrator_core` | 2 participants, 2 actions, 5 steps, all decisions | the inductive invariant with the types, blocked loops can be answered, no wakeup or item lost, deadlock verdicts are real, release by own answer |
| `orchestrator_faults` | 2 participants, 3 steps, all faults, clocks, chatter, limits on failures | actions reported exactly once, limits hold, the run ends when a listed participant finishes |
| `orchestrator_live` | 3 participants, a wait limit, an environment that need not answer, fair | every run ends; turns go round |
| `engine_faults` | 2 runs, 2 calls each, one restart, one failed write, either perhaps between two files | one place per action, own results only, no run forgotten, announced ends and statuses true, events in order, nothing completed executed again, finality of ended runs |
| `engine_live` | 2 runs, 1 call, one restart, one failed write, fair | submitters answered, accepted runs end |
| `engine_recovery` | 1 run, one restart | **violated**: recovery is refused |
| `workspace` | 1 actor, 2 runs, one restart, a reset, a channel of 6, fair | the promise of `Environment` is kept, an actor's state is its own, accepted actions are answered |
| `workspace_memory` | 1 actor, 2 runs | **violated**: the state of a step is lost |
| `ui` | 2 shells, 3 posts, channel of 2 | settled snapshots, one action a click, current streams |
| `ui_results` | 1 shell, 4 posts | **violated**: a result is stored at another button's path |
| `instances` | 4 actions of 2 skills, one timeout | a worker that serves its queue, spoiled instances evicted, diagnostics not mixed up |
| `components` | see `MCComponents` | six definitions against their references |

**Bounds.** Two participants are enough for one to be delivered to while the other
is blocked, waiting, idle or finished; the third in `orchestrator_live` makes
passing over visible. Two actions let one answer overtake another, five steps let
both be scheduled, answered and acted upon. The limits of the code bound the steps,
messages and actions, so nothing else needs a bound but the unsolicited events
(`MaxChatter`). Two runs and two calls let updates of one run arrive while the other
is handled, and let an answer meet the next call of its own run; a fault or restart
can hit every write of every handler. One failed write and one restart leave
two-fault histories unexplored in the checks with faults (an error inside
`handle_update_error` needs two).

In `workspace` a run has at most nine events and the channel holds six, so that it
lags; the second run begins after the reset of the first one's task. In `ui` the
channel of two lags with three events, two shells race for the mutex, and symmetry
exchanges them. In `instances` three actions use one skill: one that times out, one
that meets its thread, and one that comes after; the fourth uses a skill that is
refused. In `components` the sizes are those at which every branch of the
definitions fires: two skills with one namespace and three with one function, values
at and beyond each width, two commands cut off before a third, answers of three
events cut anywhere, three requested actions against two expectations that overlap.

**Fairness.** The loop's task, the engine task and the worker are tokio tasks that
are always scheduled again: weak fairness of their steps. `select!` polls its
branches in random order, so neither commands nor updates starve: strong fairness
of `HandleSubmit` and `HandleUpdate`. The worker ends every execution by a
timeout: weak fairness of `Execute`. `FairLoopSpec` adds the clocks, with
`max_blocked_action_wait` given; without it the loop may poll for ever, which is
what the code does. In `WorkspaceFairSpec` the run loop polls again and again while
an action is pending (strong fairness of `PollStarts`, which other calls disable).
In `InstancesSpec` the worker and its timer are fair and nothing is assumed of the
threads. Clients, environments, restarts and faults are not fair.

**Deadlock** is checked for the orchestrator. The others switch it off: an engine,
a worker or a server with nothing to do waits for ever, and a command or an
evaluation ends.

## What the properties except

Several properties hold but for a case that they name. Each is behaviour of the
code that a reader should know of:

- An integer parameter of 8 or 16 bits, or a character, is refused in both
  directions, so that such a function cannot be called (`EchoReturns`).
- The result of `unload_skill` is shown to the model without its call, which the
  transcript leaves out (`CallsAreAnswered`; `prompt.rs:364-412`).
- An install compares directories by the component and `meta.json`. It takes a
  directory that was cut off with both in place, or whose other files changed, for
  complete (`InstallRepairs`; `provision.rs:352-373`).
- Two skills whose names make one Python namespace share it, and the last one
  loaded takes the names (`NamesResolveToOwner`).
- A response that arrives after a newer snapshot of the stream replaces it
  (`StreamsAreCurrent`; `main.ts:443`).
- A thread that was given up may set its context on the instance between the two
  locks of another action (`DiagnosticsAreOwn`).
- A chunk of the model's answer that ends within a character fails the answer
  (`AnswerIsWhole`; `openai.rs:121`).
- Expectations without an order are matched greedily, so that a run that did what
  was expected may be refused, and a judge's reply with its braces in the wrong
  order ends the evaluation without a verdict (`VerdictIsSound`).

## Findings

1. A process killed between `save_run` and `save_action` (`engine.rs:472-476`)
   leaves a waiting run whose action cannot be loaded, and `handle_recover`
   (`engine.rs:309`) gives up on all runs at this and every later start.
2. `apply_transition` publishes the last event of a run before it records the
   status (`engine.rs:484-488`). The workspace reads the status when it translates
   that event (`agent_workspace.rs:599-607`) and keeps no interpreter state unless
   it is already `Completed`, although the agent's prompt says that variables
   persist between steps. (The tests use a single-threaded runtime, on which the
   two writes cannot be separated.)
3. A click whose action the environment refuses ends the run with an error, and
   the binding of its result stays queued (`session.rs:104`, `198`): the result of
   the next click is stored at the path of the one that failed.

## Proofs

Every safety invariant and action property that a run checks is proved, but for
`EchoReturns`, and so are three of the refinements (of `ServesQueue` the safety
part). The theorems hold for any number of participants, runs, calls, requests,
skills, shells and buttons, any limit and channel size, any number of restarts,
failing writes, timeouts, resets and posts, catalogs, answers, conversations and
lists of criteria of any length: the bounds of the models are constants of the
theorems. Assumed are only the ASSUMEs on the constants of each module, which TLC
evaluates in the runs. `PROJECT.json` lists the theorems with the property each one states.

Each proof follows one pattern: an inductive invariant, checked by TLC on the
instances of the runs before it was proved, a lemma per action and conjunct that
it is kept, and the properties from it.

### The run loop

`OrchestratorProofs` (`IInv`): `BlockedIsAnswerable` is not inductive alone. That
scheduling an action does not clash with an answer still in flight needs that ids
above the counter are unused, that an answer in flight is addressed to whoever is on
record for the action, and that the environment has stopped working on it
(`AddressInv`). That an answer which is applied releases the loop that waits for it,
and no other, needs that it is delivered to that participant, hence that its loop
belongs to the run (`PhaseInv`). `NoLostWakeup` needs that a participant taking its
turn has just been handed its inbox (`TurnInv`).

Each verdict has an invariant of its own. `LimitsHold` needs
what each phase knows of the counters (`LimitInv`), `EndsOnCondition` that a run
under way has no result (`EndInv`). `ReportedOnce` counts the places of an action;
while a batch is applied its events are neither queued nor applied, so `CountInv` is
about the three queues together. `DeadlockIsReal` needs that whatever the environment
owes or has sent is in the loop's own books (`OwedInv`), by which the loop decides,
and that nothing moves once it has (`StuckInv`).

The action properties `ReleasedByOwnAnswer`, `NoItemDropped` and `RoundRobin` follow
from the same invariants, by one lemma that says what any step of a run does to one
participant.

### The engine

`EngineProofs` proves `TypeOK`, that is, that the series of writes of every handler
and error path is well formed. `EngineInv` says what is under way:

- `HandlerFits`: the handler's remaining writes against the stored session of its
  run. A session is saved before anything that relies on it.
- `CommandsFit`, `OneByRun`: a submission is in the command queue once, for a run
  that nothing is known of, and not during recovery; a run has one action in work.
- `WorkFits`, `ClaimsAnswered`, `IdsFit`: an action in work was asked for, and is
  what its run waits for unless the run failed; a claim has its answer behind it;
  ids are fresh, and what a run waits for is not completed.

`OnceInFlight`, `ResumedByOwnAction`, `ClaimedIsWanted` and `OverIsFinal` follow. The
others need more: `LogFits` (for each run `EndFits`: once the end of a completed run
was told, no write is left that can fail, so the error path cannot contradict what
subscribers heard; what is only in the log may be followed by that path, but after a
failing write alone), `BookFits` (what a run waits for is on
its way, and its status is current, or the rest of the handler makes it so, or the
run fell to a failed write), and `EventFits` (the events a handler has yet to publish
continue those already told, and what is in work is where the last event says). With
`EventFits` a step publishes one event that `RunLifecycle` allows, or none
(`LifecycleStep`), which is the refinement `EngineImplementsLifecycle`.

### The workspace

`EngineMoves` shows that every step of the composition is a step of the engine or
leaves it alone, so that `WorkspaceSpec => Spec` and every theorem about the engine
holds under the workspace. `WorkspaceInv` adds the registers: whose submission is to
be reported is registered, a registered run was answered, the run being submitted
is not registered yet (`RegistersFit`), every event in the channel or being
translated was published (`Published`), and an interpreter state is of a run whose
completion was published and told (`StatesFit`). `StateIsOwn` follows with
`LogTellsTheTruth` of the engine, in its part about what subscribers were told.
`WorkspaceKeepsPromise` maps `running` to the
registered runs and `events` to the batch: the return of an accepted submission is
`Accept`, the end of a registered run is `Answer`, any other event of one a
`Notice`, the return of a poll `Poll`, a reset or restart `Reset`, and all else a
stutter. With it the theorems about the run loop, proved for any environment that
keeps the promise, apply to the one the agent has.

### Skill instances

`InstancesInv` fits the worker's program counter, its threads, the mutexes and the
caches to each other: a thread in its call holds the mutex of its instance and is
the only one (`ThreadsFit`), and a warm instance is of its skill (`WarmFits`).
`SpoiledOnce` needs that an instance of which a later action was told the failure is
neither cached nor with the worker any more (`SpoiledInv`), `DiagnosticsAreOwn` that
the context of the instance the worker's thread runs on is its own, unless a thread
that was given up shares the instance (`ContextInv`).
`WorkerServesQueue` is the safety part of `ServesQueue`.

### UI sessions

Everything rests on the mutex (`MutexFits`): a run or a stream that connects holds
it. Hence a run has the list and the data model for itself and is at one of its two
turns (`RunFits`), only a run under way leaves the data model behind (`DataFits`), and
no version falls between a connecting stream's snapshot and its subscription
(`StreamsFit`, which states `StreamsAreCurrent` without its premise). The proofs also
show that the limits of eight turns and four actions are never met.

### Loops

The five components below are made of loops, which the modules write as recursive
functions (`after[n]` is what the loop has made after `n` turns). The library's
induction theorems take a predicate as an operator, which the provers cannot
instantiate. `LoopTheorems` goes round that: its induction is over a *set* of
numbers, from the well-foundedness of `<` (`TurnInduction`, `BoundedInduction`), and
`LoopExists` says that a function defined by its turns exists and obeys them. With
them a loop is reasoned about as in a program: an invariant of its turns, and what
it says when the loop is over.

### Skill provisioning

`ProvisioningInv` says where in its operations a command is (`JobFits`), what the
artifact directory and the catalog entry hold at that point and between commands
(`ArtifactsFit`, `CatalogFits`), and that no command reports success with
operations left. `InstallRepairs` is its last conjunct: it becomes true when the last
operation of a command succeeds, and what the directories hold at that point is the
sum of what every earlier operation of it left. What a command that was cut off
leaves behind is known only up to `torn`; this is why the property excepts it.

### Skill catalog

`RegistryFits` says what the registry holds once the functions of a set have been
registered: the index of bare names has exactly those of one function, and the list
of duplicates the others, in whatever order they came. It is an invariant of both
loops of `from_skills`, the inner one over an entry's functions and the outer one over
the entries. That no two functions of an accepted catalog share an id is part of it,
and by this a qualified name reaches one function; two skills with one namespace are
the exception the property names.

### The answer of the model

The text on the connection is a concatenation of blocks. `StreamInv` says that the
buffer begins where some block `k` does and ends where the connection is (`Held`), and
that what was collected is what the blocks before `k` say (`Gathered`). That the first
two newlines of the buffer are the end of block `k`, however the chunks were cut,
is the heart of it. At the end of the stream `k` is past the last block, or the rest
is a block without its newlines, which is parsed as one.

### The prompts

`PromptInv` has two halves. One is the trajectory (`WellOrdered`): an action is
requested when none is open, scheduled right after its request, and answered by one
outcome; so at most one request is open at any point (`OneIsOpen`). The other is the
inbox (`Known`): what it holds of an action, the trajectory has recorded since the
last loop ended, so that the builder has seen the action when it comes to the inbox.

From the first half follows what the builder's history is after each event
(`Follows`): calls and results pair up and no id is unassigned, or one call waits for
its result and its id is at hand, bound to the action or unassigned (`Waits`). A
prompt is made when no action is open, so every call of the transcript has its result.
From the second half follows that the inbox adds no call, and no result but those of
`unload_skill`, under ids of their own (`Added`, `InboxIs`), so that the prompt pairs
up whichever beginning of it is dropped as an overlap.

### The verdict

`VerdictIsSound` compares three loops with what they are meant to decide: the ordered
match with the existence of an increasing assignment, the unordered one with an
injective one (in one direction: it is greedy), the list of judge requests with the
criteria that ask for a judge. Each is proved by an invariant of its turns; for the
ordered match that is that the cursor is never behind that of any other assignment.
`EvaluationInv` carries the verdict from the run loop's evaluator over the criteria of
the run to the replies of the judge.

### Only model-checked

- Liveness, which is beyond the prover (as is ENABLED): `RunEnds`, `SubmittersAreAnswered`,
  `AcceptedRunsEnd`, `AcceptedIsAnswered`, and the fairness part of `ServesQueue`.
- `EchoReturns`. The conversions recurse over types and values of any depth;
  `ValueConversion` declares them with RECURSIVE operators, of which the prover's
  arithmetic back end knows nothing, and an induction over nested data is not one
  over the turns of a loop.
- The three violated properties, which the code does not have.

## Not modelled

- The Python interpreter, the wasm runtime, SQLite and the HTTP client: libraries,
  taken by what the code expects of them.
- The rendering of Python stubs and the parsing of WIT, manifests and
  specifications: text in, text out, with no state (`canonical/src/python.rs`,
  `wit.rs`, `skills/src/manifest.rs`, `evals/src/overrides.rs`).
- The command line and its terminal output (`cli/src/repl`), the browser's
  rendering, the Markdown of `ui/src`.
- The skills loaded by an actor, torn files of the store, and the optimisation
  suggestions of evaluations.

## Plan

1. *(done)* `Environment`, `Orchestrator` and its first proofs; `RunLifecycle`,
   `ExecutionEngine`; `AgentWorkspace`, `SkillInstances`, `UiServer` and the
   components without shared state.
2. *(done)* Proofs of the safety properties of the run loop, the engine, the
   workspace, the skill instances and the UI sessions, with the refinements of
   `RunLifecycle`, `Environment` and (its safety) `ActionQueue`.
3. *(done)* Proofs of the components without shared state, with the theorems about
   loops that they rest on.
4. The conversions of values over a set of types ranked by depth, so that
   `EchoReturns` can be proved by induction over the rank.
5. Torn files of the store; the skills an actor has loaded.
