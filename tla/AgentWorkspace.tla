--------------------------- MODULE AgentWorkspace ---------------------------
(***************************************************************************)
(* The environment of the agent (crates/runtime/src/agent_workspace.rs) on *)
(* top of the execution engine it submits code to.  The workspace serves   *)
(* one call of the run loop at a time (&mut self), and the engine goes on  *)
(* during every call: while schedule awaits the engine's answer, and while *)
(* poll_events translates the events it received, asking the engine for    *)
(* the status of a run whose end it has just read.                         *)
(*                                                                         *)
(* An action of the workspace and the run that executes it are registered  *)
(* and forgotten together (pending_execution_runs, execution_runs_by_id),  *)
(* so an action is known by its run.  The interpreter state an actor left  *)
(* behind is known by the run that produced it.                            *)
(*                                                                         *)
(* As the agent does (agents/src/llm.rs: execute_code is DeferredBlocking) *)
(* an actor has one action under way, and after an error of poll_events    *)
(* the run loop gives up and the next call is reset.                       *)
(***************************************************************************)
EXTENDS ExecutionEngine, FiniteSets

CONSTANTS
    NumParticipants,  \* the participants that may act are 0 .. NumParticipants - 1
    ChannelSize,      \* capacity of the broadcast channel (1024 in EventHub::new)
    MaxResets         \* bound on the resets and restarts

ASSUME WorkspaceAssumption ==
    /\ NumParticipants \in Nat \ {0} /\ ChannelSize \in Nat \ {0} /\ MaxResets \in Nat
    /\ Runs = 1 .. Cardinality(Runs)

VARIABLES
    channel,  \* the events the subscription has not received
    lagged,   \* whether the channel dropped some of them
    call,     \* the call being served, with its actor and run
    queued,   \* queued_events: runs whose submission is still to be reported
    pending,  \* pending_execution_runs: the actor that waits for each run
    drained,  \* execution_events of the poll under way, still to be translated
    batch,    \* the events that poll is going to return
    repl,     \* repl_states_by_actor, by the run that left the state
    \* history and bounds
    told,     \* the runs reported as completed to each actor in this task
    resets

wsVars == <<channel, lagged, call, queued, pending, drained, batch, repl, told, resets>>

Participant == 0 .. NumParticipants - 1
Nobody == NumParticipants
NoRun == 0

Free == [op |-> "Free", actor |-> Nobody, run |-> NoRun]
Scheduling(p, r) == [op |-> "Schedule", actor |-> p, run |-> r]
Polling == [op |-> "Poll", actor |-> Nobody, run |-> NoRun]
Broken == [op |-> "Broken", actor |-> Nobody, run |-> NoRun]

Notice(kind, p, r) == [kind |-> kind, participant |-> p, id |-> r]

(***************************************************************************)
(* The subscription                                                        *)
(***************************************************************************)

(* A slip: a full channel keeps everything. *)
BroadcastUnbounded(r, kind) ==
    /\ channel' = Append(channel, [run |-> r, kind |-> kind])
    /\ lagged' = (lagged \/ Len(channel) = ChannelSize)

(* A published event reaches the broadcast channel, which drops the oldest  *)
(* one when it is full.                                                     *)
Broadcast(r, kind) ==
    /\ channel' = Append(IF Len(channel) < ChannelSize THEN channel ELSE Tail(channel),
                         [run |-> r, kind |-> kind])
    /\ lagged' = (lagged \/ Len(channel) = ChannelSize)

(* The workspace hears of what the engine publishes, and of nothing else. *)
Heard ==
    /\ IF feed' # feed THEN Broadcast(Head(todo).run, Head(todo).event.kind)
                     ELSE UNCHANGED <<channel, lagged>>
    /\ UNCHANGED <<call, queued, pending, drained, batch, repl, told, resets>>

EngineGoesOn == (EngineStep \/ WriteFails \/ Claim \/ Execute) /\ Heard

(***************************************************************************)
(* schedule                                                                *)
(***************************************************************************)

(* submit_execute_code up to the await.  Everything but code in a known     *)
(* language is refused before, and nothing changes.                         *)
Schedule(p, r) ==
    /\ call = Free
    /\ \A q \in Runs : pending[q] # p
    /\ Submit(r)
    /\ call' = Scheduling(p, r)
    /\ UNCHANGED <<channel, lagged, queued, pending, drained, batch, repl, told, resets>>

(* A slip: a refused submission is registered too. *)
ScheduleReturnsRegardless ==
    /\ call.op = "Schedule" /\ reply[call.run] # "None"
    /\ pending' = [pending EXCEPT ![call.run] = call.actor]
    /\ queued' = Append(queued, call.run)
    /\ call' = Free
    /\ UNCHANGED <<vars, channel, lagged, drained, batch, repl, told, resets>>

(* ... and after it: the run is registered only now, its first events may   *)
(* be in the channel already, and its submission is reported once more.     *)
ScheduleReturns ==
    /\ call.op = "Schedule" /\ reply[call.run] # "None"
    /\ IF reply[call.run] = "Ok"
       THEN /\ pending' = [pending EXCEPT ![call.run] = call.actor]
            /\ queued' = Append(queued, call.run)
       ELSE UNCHANGED <<pending, queued>>
    /\ call' = Free
    /\ UNCHANGED <<vars, channel, lagged, drained, batch, repl, told, resets>>

(***************************************************************************)
(* poll_events                                                             *)
(***************************************************************************)

(* collect_pending_events takes the queued events and all the channel holds; *)
(* a lag is an error that loses the queued events.                          *)
PollStarts ==
    /\ call = Free
    /\ IF lagged
       THEN /\ call' = Broken /\ queued' = <<>>
            /\ UNCHANGED <<channel, drained>>
       ELSE /\ call' = Polling /\ drained' = channel /\ channel' = <<>>
            /\ UNCHANGED queued
    /\ lagged' = FALSE
    /\ UNCHANGED <<vars, pending, batch, repl, told, resets>>

ReportQueued ==
    /\ call = Polling /\ queued # <<>>
    /\ batch' = Append(batch, Notice("ActionRunStatus", pending[Head(queued)], Head(queued)))
    /\ queued' = Tail(queued)
    /\ UNCHANGED <<vars, channel, lagged, call, pending, drained, repl, told, resets>>

(* A slip: the run stays registered after its end was reported. *)
TranslateKeepsRun ==
    /\ call = Polling /\ queued = <<>> /\ drained # <<>>
    /\ drained' = Tail(drained)
    /\ LET r == Head(drained).run
           p == pending[r]
           kind == Head(drained).kind
           answer == CASE kind = "RunCompleted" -> "ActionCompleted"
                       [] kind = "RunFailed" -> "ActionFailed"
                       [] OTHER -> "ActionRunStatus"
       IN  /\ batch' = IF p = Nobody THEN batch ELSE Append(batch, Notice(answer, p, r))
           /\ UNCHANGED <<pending, repl, told>>
    /\ UNCHANGED <<vars, channel, lagged, call, queued, resets>>

(* translate_execution_event: the events of unregistered runs are ignored,  *)
(* the end of a run is the answer, anything else is a status.  The state    *)
(* the run left is taken from the engine's status, if that is up to date.   *)
Translate ==
    /\ call = Polling /\ queued = <<>> /\ drained # <<>>
    /\ drained' = Tail(drained)
    /\ LET r == Head(drained).run
           p == pending[r]
           kind == Head(drained).kind
       IN  IF p = Nobody
           THEN UNCHANGED <<batch, pending, repl, told>>
           ELSE CASE kind = "RunCompleted" ->
                       /\ repl' = IF status[r] = Completed THEN [repl EXCEPT ![p] = r] ELSE repl
                       /\ pending' = [pending EXCEPT ![r] = Nobody]
                       /\ batch' = Append(batch, Notice("ActionCompleted", p, r))
                       /\ told' = [told EXCEPT ![p] = Append(@, r)]
                  [] kind = "RunFailed" ->
                       /\ pending' = [pending EXCEPT ![r] = Nobody]
                       /\ batch' = Append(batch, Notice("ActionFailed", p, r))
                       /\ UNCHANGED <<repl, told>>
                  [] OTHER ->
                       /\ batch' = Append(batch, Notice("ActionRunStatus", p, r))
                       /\ UNCHANGED <<pending, repl, told>>
    /\ UNCHANGED <<vars, channel, lagged, call, queued, resets>>

PollReturns ==
    /\ call = Polling /\ queued = <<>> /\ drained = <<>>
    /\ batch' = <<>> /\ call' = Free
    /\ UNCHANGED <<vars, channel, lagged, queued, pending, drained, repl, told, resets>>

(***************************************************************************)
(* The other calls                                                         *)
(***************************************************************************)
Forget ==
    /\ queued' = <<>> /\ pending' = [r \in Runs |-> Nobody]
    /\ repl' = [p \in Participant |-> NoRun]
    /\ told' = [p \in Participant |-> <<>>]

(* A slip: the interpreter states survive a reset. *)
ResetKeepsStates ==
    /\ call \in {Free, Broken} /\ resets < MaxResets /\ resets' = resets + 1
    /\ queued' = <<>> /\ pending' = [r \in Runs |-> Nobody]
    /\ told' = [p \in Participant |-> <<>>]
    /\ call' = Free /\ UNCHANGED <<repl, vars, channel, lagged, drained, batch>>

(* reset.  The runs of the engine go on. *)
Reset ==
    /\ call \in {Free, Broken} /\ resets < MaxResets /\ resets' = resets + 1
    /\ Forget
    /\ call' = Free /\ UNCHANGED <<vars, channel, lagged, drained, batch>>

(* The process is killed; from_root subscribes before it recovers. *)
WorkspaceRestarts ==
    /\ resets < MaxResets /\ resets' = resets + 1
    /\ Restart /\ Forget
    /\ call' = Free /\ channel' = <<>> /\ lagged' = FALSE /\ drained' = <<>> /\ batch' = <<>>

(***************************************************************************)
(* Specification                                                           *)
(***************************************************************************)
WorkspaceInit ==
    /\ Init
    /\ channel = <<>> /\ lagged = FALSE /\ call = Free
    /\ queued = <<>> /\ pending = [r \in Runs |-> Nobody] /\ drained = <<>> /\ batch = <<>>
    /\ repl = [p \in Participant |-> NoRun]
    /\ told = [p \in Participant |-> <<>>] /\ resets = 0

Poll == PollStarts \/ ReportQueued \/ Translate \/ PollReturns

WorkspaceNext ==
    \/ EngineGoesOn
    \/ \E p \in Participant, r \in Runs : Schedule(p, r)
    \/ ScheduleReturns
    \/ Poll
    \/ Reset
    \/ WorkspaceRestarts

allVars == <<vars, wsVars>>
WorkspaceSpec == WorkspaceInit /\ [][WorkspaceNext]_allVars

(* The tasks of the engine, as in Fairness; and the run loop polls again     *)
(* and again while an action is pending.                                    *)
WorkspaceFairness ==
    /\ WF_allVars(Write /\ Heard) /\ WF_allVars(Recover /\ Heard)
    /\ SF_allVars(HandleSubmit /\ Heard) /\ SF_allVars(HandleUpdate /\ Heard)
    /\ WF_allVars(Claim /\ Heard) /\ WF_allVars(Execute /\ Heard)
    /\ WF_allVars(ScheduleReturns) /\ SF_allVars(PollStarts)
    /\ WF_allVars(ReportQueued \/ Translate \/ PollReturns)

WorkspaceFairSpec == WorkspaceSpec /\ WorkspaceFairness

(***************************************************************************)
(* Properties                                                              *)
(***************************************************************************)
EventKind == {"RunSubmitted", "RunStarted", "ActionEnqueued", "ActionClaimed", "ActionCompleted",
              "RunResumed", "RunCompleted", "ActionFailed", "RunFailed"}
BusEvents == [run : Runs, kind : EventKind]

(* The state is well formed; only a poll holds events, and the channel      *)
(* keeps to its capacity.                                                   *)
WorkspaceTypeOK ==
    /\ channel \in Seq(BusEvents) /\ Len(channel) <= ChannelSize /\ lagged \in BOOLEAN
    /\ call \in {Free, Polling, Broken} \cup {Scheduling(p, r) : p \in Participant, r \in Runs}
    /\ queued \in Seq(Runs) /\ pending \in [Runs -> Participant \cup {Nobody}]
    /\ drained \in Seq(BusEvents)
    /\ batch \in Seq([kind : {"ActionRunStatus", "ActionCompleted", "ActionFailed"},
                      participant : Participant, id : Runs])
    /\ (drained # <<>> \/ batch # <<>>) => call = Polling
    /\ repl \in [Participant -> Runs \cup {NoRun}]
    /\ told \in [Participant -> Seq(Runs)] /\ resets \in 0 .. MaxResets

(* The workspace keeps the promise Orchestrator relies on: whatever the     *)
(* engine does, and however many events of earlier tasks or of refused      *)
(* submissions are still on their way, an accepted action is answered at    *)
(* most once, to its actor, after which nothing more is heard of it, and a  *)
(* reset forgets it (agent_workspace.rs:395-421, 461-650, 660-723).         *)
Promised == INSTANCE Environment WITH
    MaxActions <- Cardinality(Runs), ChatterKinds <- {"ActionRunStatus"}, MaxChatter <- 0,
    running <- pending, events <- batch, chatter <- 0
KeepsPromise == Promised!Promise

(* The code of an actor only ever continues from a state that its own code  *)
(* left behind in this task, in a run it was told of                        *)
(* (agent_workspace.rs:481, 599-607, 664).                                  *)
StateIsOwn ==
    \A p \in Participant :
        repl[p] # NoRun => repl[p] \in ToSet(told[p]) /\ store[repl[p]] = Completed

(* Whoever waits for an action gets its answer, unless the subscription     *)
(* lagged, which ends the run of the loop, or the engine failed twice       *)
(* (agent_workspace.rs:395-421, 497-520, 589-627).                          *)
AcceptedIsAnswered ==
    \A r \in Runs : pending[r] # Nobody ~> \/ pending[r] = Nobody \/ call = Broken
                                          \/ r \in abandoned

(* "The environment is persistent and local variables defined in one step   *)
(* can be reused in next steps" (code_generation_system.md:13): the next    *)
(* step continues from the last one that its actor was told of.             *)
VariablesPersist ==
    \A p \in Participant : told[p] # <<>> => repl[p] = Last(told[p])
=============================================================================
