-------------------------- MODULE ExecutionEngine --------------------------
(***************************************************************************)
(* The execution engine of crates/runtime: the engine task of engine.rs    *)
(* with the transitions of run_executor.rs, the action worker of action.rs *)
(* and what the run store and the event log (fs.rs) keep across a restart. *)
(*                                                                         *)
(* The engine task handles one command or one update at a time, but a      *)
(* handler is a series of writes: it saves the run, saves its actions,     *)
(* enqueues the next action, publishes the events and records the status.  *)
(* todo holds the writes still to come; between any two of them the action *)
(* worker and the subscribers go on, a write may fail, or the process may  *)
(* be killed.  What the interpreter computes is a free choice: a run       *)
(* completes, suspends on an external call, or is an error.                *)
(*                                                                         *)
(* A write of two files, of an action record or of a log line, may be cut  *)
(* off between them, by an error or because the process is killed.  Assumed *)
(* of the file system: the write of one file happens or does not (no torn  *)
(* files).                                                                 *)
(***************************************************************************)
EXTENDS Naturals, Sequences, SequencesExt

CONSTANTS
    Runs,        \* the run ids that may be generated
    MaxCalls,    \* bound on the external calls of one run
    MaxCrashes,  \* bound on the restarts
    MaxFaults    \* bound on the writes that fail

ASSUME EngineAssumption ==
    MaxCalls \in Nat /\ MaxCrashes \in Nat /\ MaxFaults \in Nat

VARIABLES
    \* what survives a restart
    store,        \* run.json of each run: its ExecutionSession
    records,      \* the ActionRecord of each action
    log,          \* the ends that the system's events.jsonl announces for each run
    feed,         \* the events the subscribers of the hub were told of, for each run
    issued,       \* how many action ids were generated for each run (all fresh)
    reply,        \* what the submitter of each run was told
    \* the engine task
    phase,        \* recovering, serving, or refused when recovery returned an error
    unrecovered,  \* the runs handle_recover has still to look at
    commands,     \* command_rx: the submit requests
    cause,        \* the command or update being handled
    failing,      \* whether handle_update_error is handling it
    todo,         \* the writes of the current handler still to come
    status,       \* EngineState.run_statuses
    abandoned,    \* the runs of an update whose error could not be handled either
    \* the action worker
    actionQueue,  \* action_rx
    executing,    \* the action being executed
    updates,      \* update_rx
    \* bounds
    crashes, faults

durable == <<store, records, log, feed, issued, reply>>
engine == <<phase, unrecovered, commands, cause, failing, todo, status,
            abandoned>>
worker == <<actionQueue, executing, updates>>
bounds == <<crashes, faults>>
vars == <<durable, engine, worker, bounds>>

(* The k-th action id generated for run r. *)
ActionId == Runs \X (1 .. MaxCalls)
NoAction == <<>>
RunOf(a) == a[1]

(* ExecutionStatus; Running is never saved. *)
Unknown == [status |-> "Unknown", action |-> NoAction]
Waiting(a) == [status |-> "WaitingForAction", action |-> a]
Completed == [status |-> "Completed", action |-> NoAction]
Failed == [status |-> "Failed", action |-> NoAction]
Terminal == {Completed, Failed}
IsWaiting(session) == session.status = "WaitingForAction"

(* A slip: fail_run leaves the snapshot in place. *)
SnapshotUnlessCompleted(session) == IsWaiting(session) \/ session = Failed

(* A session has a snapshot to resume from exactly while it waits           *)
(* (run_executor.rs:155-158, 238-266).                                      *)
HasSnapshot(session) == IsWaiting(session)

Update(kind, a) == [kind |-> kind, action |-> a]
Submission(r) == [kind |-> "Submit", action |-> <<r, 0>>]
Idle == [kind |-> "Idle", action |-> NoAction]

TerminalEvents == {"RunCompleted", "RunFailed"}

(* The subscribers were told of an event of one of these kinds. *)
Notified(r, kinds) == \E i \in 1 .. Len(feed[r]) : feed[r][i].kind \in kinds

(***************************************************************************)
(* Transitions: the writes of a handler, in order                          *)
(***************************************************************************)
SaveRun(r, session) == [op |-> "SaveRun", run |-> r, session |-> session]
SaveAction(a, state) == [op |-> "SaveAction", action |-> a, state |-> state]
Enqueue(a) == [op |-> "Enqueue", action |-> a]
Publish(r, kind, a) ==
    [op |-> "Publish", run |-> r, event |-> [kind |-> kind, action |-> a]]
RecordStatus(r, session) == [op |-> "RecordStatus", run |-> r, session |-> session]
Reply(r, answer) == [op |-> "Reply", run |-> r, answer |-> answer]

(* A step of the interpreter suspended on the new action a, or completed    *)
(* the run if a is NoAction.  completed is the action the run was resumed   *)
(* with; its record and its event come first.                               *)
ActionWrites(completed, a) ==
    (IF completed # NoAction THEN <<SaveAction(completed, "Completed")>> ELSE <<>>)
    \o (IF a # NoAction THEN <<SaveAction(a, "Pending"), Enqueue(a)>> ELSE <<>>)

(* A slip: the run is announced as resumed before the action is completed. *)
EventsResumedFirst(r, completed, a) ==
    (IF completed # NoAction
     THEN <<Publish(r, "RunResumed", NoAction), Publish(r, "ActionCompleted", completed)>>
     ELSE <<Publish(r, "RunSubmitted", NoAction), Publish(r, "RunStarted", NoAction)>>)
    \o (IF a # NoAction THEN <<Publish(r, "ActionEnqueued", a)>>
                        ELSE <<Publish(r, "RunCompleted", NoAction)>>)

(* transition_events *)
TransitionEvents(r, completed, a) ==
    (IF completed # NoAction
     THEN <<Publish(r, "ActionCompleted", completed), Publish(r, "RunResumed", NoAction)>>
     ELSE <<Publish(r, "RunSubmitted", NoAction), Publish(r, "RunStarted", NoAction)>>)
    \o (IF a # NoAction THEN <<Publish(r, "ActionEnqueued", a)>>
                        ELSE <<Publish(r, "RunCompleted", NoAction)>>)

SessionAfter(a) == IF a = NoAction THEN Completed ELSE Waiting(a)

(* A slip: the actions are saved before the run. *)
StepActionsFirst(r, completed, a) ==
    ActionWrites(completed, a) \o <<SaveRun(r, SessionAfter(a))>>
    \o TransitionEvents(r, completed, a) \o <<RecordStatus(r, SessionAfter(a))>>

(* apply_transition after a step of the interpreter. *)
Step(r, completed, a) ==
    <<SaveRun(r, SessionAfter(a))>> \o ActionWrites(completed, a)
    \o TransitionEvents(r, completed, a) \o <<RecordStatus(r, SessionAfter(a))>>

(* A slip: the failure is announced before it is saved. *)
FailRunAnnouncedFirst(r) ==
    <<Publish(r, "RunFailed", NoAction), SaveRun(r, Failed), RecordStatus(r, Failed)>>

(* apply_transition for fail_run. *)
FailRun(r) ==
    <<SaveRun(r, Failed), Publish(r, "RunFailed", NoAction), RecordStatus(r, Failed)>>

(* handle_update for a failed action; handle_update_error does the same for *)
(* a failed or claimed one, and saves before it publishes for a completed one. *)
FailAction(a, saveFirst) ==
    LET report == <<Publish(RunOf(a), "ActionFailed", a)>>
        save == <<SaveAction(a, "Failed")>>
    IN  (IF saveFirst THEN save \o report ELSE report \o save) \o FailRun(RunOf(a))

(***************************************************************************)
(* Clients                                                                 *)
(***************************************************************************)

(* ExecutionEngine::submit; callers have awaited recover_from_events. *)
Submit(r) ==
    /\ phase = "serving"
    /\ reply[r] = "None" /\ store[r] = Unknown /\ cause # Submission(r)
    /\ ~Contains(commands, r)
    /\ commands' = Append(commands, r)
    /\ UNCHANGED <<durable, phase, unrecovered, cause, failing, todo, status, abandoned,
                   worker, bounds>>

(***************************************************************************)
(* The engine task                                                         *)
(***************************************************************************)
Ready == phase # "recovering" /\ cause = Idle

Begin(what, program, isError) ==
    /\ cause' = what /\ todo' = program /\ failing' = isError
    /\ UNCHANGED <<store, records, log, feed, reply, phase, unrecovered, status, abandoned, bounds>>

(* The action id of an external call, when the interpreter makes one. *)
NextAction(r) == <<r, issued[r] + 1>>
Suspends(r) == issued[r] < MaxCalls /\ issued' = [issued EXCEPT ![r] = @ + 1]

(* handle_submit: code that does not compile, fails at once or calls an     *)
(* unknown action is refused before anything about the run is saved.        *)
HandleSubmit ==
    /\ Ready /\ commands # <<>>
    /\ commands' = Tail(commands)
    /\ LET r == Head(commands)
           ok == <<Reply(r, "Ok")>>
       IN  \/ /\ Suspends(r)
              /\ Begin(Submission(r), Step(r, NoAction, NextAction(r)) \o ok, FALSE)
           \/ /\ Begin(Submission(r), Step(r, NoAction, NoAction) \o ok, FALSE)
              /\ UNCHANGED issued
           \/ /\ Begin(Submission(r), <<Reply(r, "Err")>>, FALSE)
              /\ UNCHANGED issued
    /\ UNCHANGED worker

(* handle_update.  complete_action wants a snapshot to resume from, not     *)
(* that the run waits for this very action; without one, or when the        *)
(* interpreter reports an error, handle_update_error takes over.            *)
HandleUpdate ==
    /\ Ready /\ updates # <<>>
    /\ updates' = Tail(updates)
    /\ LET u == Head(updates)
           a == u.action
           r == RunOf(a)
       IN  CASE u.kind = "Claimed" ->
                  Begin(u, <<Publish(r, "ActionClaimed", a)>>, FALSE) /\ UNCHANGED issued
             [] u.kind = "Failed" ->
                  Begin(u, FailAction(a, FALSE), FALSE) /\ UNCHANGED issued
             [] u.kind = "Completed" ->
                  \/ /\ HasSnapshot(store[r])
                     /\ \/ /\ Suspends(r)
                           /\ Begin(u, Step(r, a, NextAction(r)), FALSE)
                        \/ /\ Begin(u, Step(r, a, NoAction), FALSE)
                           /\ UNCHANGED issued
                  \/ /\ Begin(u, FailAction(a, TRUE), TRUE)
                     /\ UNCHANGED issued
    /\ UNCHANGED <<commands, actionQueue, executing>>

(* The first file of a write that has two: the copy of an action record     *)
(* that load_action reads, or the line in the log that recovery reads.  The *)
(* other copies, in the directory of the run, are never read.               *)
FirstFile(w) ==
    /\ records' = IF w.op = "SaveAction" THEN [records EXCEPT ![w.action] = w.state] ELSE records
    /\ log' = IF w.op = "Publish"
              THEN [log EXCEPT ![w.run] = @ \cup ({w.event.kind} \cap TerminalEvents)] ELSE log

(* A write that is cut off has written its first file or nothing; nobody    *)
(* was told of its event, since the hub comes after both logs.              *)
CutOff(w) == FirstFile(w) \/ UNCHANGED <<records, log>>

(* The next write of the current handler succeeds ... *)
Perform(w) ==
    /\ FirstFile(w)
    /\ store' = IF w.op = "SaveRun" THEN [store EXCEPT ![w.run] = w.session] ELSE store
    /\ actionQueue' = IF w.op = "Enqueue" THEN Append(actionQueue, w.action) ELSE actionQueue
    /\ feed' = IF w.op = "Publish" THEN [feed EXCEPT ![w.run] = Append(@, w.event)] ELSE feed
    /\ status' = IF w.op = "RecordStatus" THEN [status EXCEPT ![w.run] = w.session] ELSE status
    /\ reply' = IF w.op = "Reply" THEN [reply EXCEPT ![w.run] = w.answer] ELSE reply

(* A slip: the handler is not left after its last write. *)
WriteWithoutEnd ==
    /\ todo # <<>>
    /\ Perform(Head(todo))
    /\ todo' = Tail(todo)
    /\ UNCHANGED <<cause, failing, issued, phase, unrecovered, commands, abandoned, executing,
                   updates, bounds>>

Write ==
    /\ todo # <<>>
    /\ Perform(Head(todo))
    /\ todo' = Tail(todo)
    /\ IF Tail(todo) = <<>> THEN cause' = Idle /\ failing' = FALSE
                            ELSE UNCHANGED <<cause, failing>>
    /\ UNCHANGED <<issued, phase, unrecovered, commands, abandoned, executing, updates, bounds>>

(* A slip: the error of a handler is only logged. *)
WriteFailsUnhandled ==
    /\ todo # <<>> /\ Head(todo).op \in {"SaveRun", "SaveAction", "Publish"}
    /\ faults < MaxFaults /\ faults' = faults + 1
    /\ CutOff(Head(todo))
    /\ todo' = <<>> /\ cause' = Idle /\ failing' = FALSE
    /\ UNCHANGED <<store, feed, issued, reply, phase, unrecovered, commands, status, abandoned,
                   worker, crashes>>

(* ... or fails: the submitter gets the error, an update is handed to       *)
(* handle_update_error, and an error in there is dropped together with the  *)
(* update.                                                                  *)
WriteFails ==
    /\ todo # <<>> /\ Head(todo).op \in {"SaveRun", "SaveAction", "Publish"}
    /\ faults < MaxFaults /\ faults' = faults + 1
    /\ CutOff(Head(todo))
    /\ CASE cause.kind = "Submit" ->
              /\ todo' = <<Reply(RunOf(cause.action), "Err")>>
              /\ UNCHANGED <<cause, failing, abandoned>>
         [] cause.kind # "Submit" /\ ~failing ->
              /\ todo' = FailAction(cause.action, cause.kind = "Completed")
              /\ failing' = TRUE /\ UNCHANGED <<cause, abandoned>>
         [] OTHER ->
              /\ abandoned' = abandoned \cup {RunOf(cause.action)}
              /\ todo' = <<>> /\ cause' = Idle /\ failing' = FALSE
    /\ UNCHANGED <<store, feed, issued, reply, phase, unrecovered, commands, status, worker,
                   crashes>>

(***************************************************************************)
(* The action worker: one action at a time, each claimed and then answered *)
(* (an execution that takes too long is answered as failed)                *)
(***************************************************************************)
Claim ==
    /\ executing = NoAction /\ actionQueue # <<>>
    /\ executing' = Head(actionQueue)
    /\ actionQueue' = Tail(actionQueue)
    /\ updates' = Append(updates, Update("Claimed", executing'))
    /\ UNCHANGED <<durable, engine, bounds>>

(* A slip: an execution that was answered for goes on and answers again. *)
ExecuteAnswersAgain ==
    /\ executing # NoAction
    /\ \E kind \in {"Completed", "Failed"} :
         updates' = Append(updates, Update(kind, executing))
    /\ executing' \in {executing, NoAction}
    /\ UNCHANGED <<durable, engine, actionQueue, bounds>>

Execute ==
    /\ executing # NoAction
    /\ \E kind \in {"Completed", "Failed"} :
         updates' = Append(updates, Update(kind, executing))
    /\ executing' = NoAction
    /\ UNCHANGED <<durable, engine, actionQueue, bounds>>

(***************************************************************************)
(* Restart and recovery                                                    *)
(***************************************************************************)

(* The process is killed, perhaps in the middle of a write, and a new one   *)
(* reads the event log and lists the runs of the store.                     *)
Restart ==
    /\ crashes < MaxCrashes /\ crashes' = crashes + 1
    /\ IF todo # <<>> THEN CutOff(Head(todo)) ELSE UNCHANGED <<records, log>>
    /\ phase' = "recovering"
    /\ unrecovered' = {r \in Runs : store[r] # Unknown}
    /\ commands' = <<>> /\ cause' = Idle /\ failing' = FALSE /\ todo' = <<>>
    /\ status' = [r \in Runs |-> Unknown] /\ abandoned' = {}
    /\ actionQueue' = <<>> /\ executing' = NoAction /\ updates' = <<>>
    /\ UNCHANGED <<store, feed, issued, reply, faults>>

(* A slip: only the runs that wait get their status back. *)
RecoverRunUnrecorded(r) ==
    /\ phase = "recovering" /\ r \in unrecovered
    /\ unrecovered' = unrecovered \ {r}
    /\ IF ~IsWaiting(store[r]) \/ log[r] # {}
       THEN UNCHANGED <<phase, actionQueue, status>>
       ELSE IF records[store[r].action] = "Absent"
            THEN phase' = "refused" /\ UNCHANGED <<actionQueue, status>>
            ELSE /\ actionQueue' = Append(actionQueue, store[r].action)
                 /\ status' = [status EXCEPT ![r] = store[r]]
                 /\ UNCHANGED phase
    /\ UNCHANGED <<durable, commands, cause, failing, todo, abandoned, executing, updates, bounds>>

(* handle_recover, one run: the action a run waits for is enqueued again,   *)
(* unless the log says the run is over; a waiting run whose action was      *)
(* never saved makes the whole recovery fail.                               *)
RecoverRun(r) ==
    /\ phase = "recovering" /\ r \in unrecovered
    /\ unrecovered' = unrecovered \ {r}
    /\ status' = [status EXCEPT ![r] = store[r]]
    /\ IF ~IsWaiting(store[r]) \/ log[r] # {}
       THEN UNCHANGED <<phase, actionQueue>>
       ELSE IF records[store[r].action] = "Absent"
            THEN phase' = "refused" /\ UNCHANGED actionQueue
            ELSE /\ actionQueue' = Append(actionQueue, store[r].action)
                 /\ UNCHANGED phase
    /\ UNCHANGED <<durable, commands, cause, failing, todo, abandoned, executing, updates, bounds>>

Recovered ==
    /\ phase = "recovering" /\ unrecovered = {}
    /\ phase' = "serving"
    /\ UNCHANGED <<durable, unrecovered, commands, cause, failing, todo, status, abandoned,
                   worker, bounds>>

(***************************************************************************)
(* Specification                                                           *)
(***************************************************************************)
Init ==
    /\ store = [r \in Runs |-> Unknown]
    /\ records = [a \in ActionId |-> "Absent"]
    /\ log = [r \in Runs |-> {}]
    /\ feed = [r \in Runs |-> <<>>]
    /\ issued = [r \in Runs |-> 0]
    /\ reply = [r \in Runs |-> "None"]
    /\ phase = "recovering" /\ unrecovered = {}
    /\ commands = <<>> /\ cause = Idle /\ failing = FALSE /\ todo = <<>>
    /\ status = [r \in Runs |-> Unknown] /\ abandoned = {}
    /\ actionQueue = <<>> /\ executing = NoAction /\ updates = <<>>
    /\ crashes = 0 /\ faults = 0

Recover == Recovered \/ \E r \in Runs : RecoverRun(r)
EngineStep == HandleSubmit \/ HandleUpdate \/ Write \/ Recover

Next ==
    \/ \E r \in Runs : Submit(r)
    \/ EngineStep
    \/ WriteFails
    \/ Claim \/ Execute
    \/ Restart

Spec == Init /\ [][Next]_vars

(* The engine task and the worker task are always scheduled again; select!  *)
(* takes commands and updates in random order, so neither starves.  The     *)
(* timeout of the worker ends every execution.                              *)
Fairness ==
    /\ WF_vars(Write) /\ WF_vars(Recover) /\ SF_vars(HandleSubmit) /\ SF_vars(HandleUpdate)
    /\ WF_vars(Claim) /\ WF_vars(Execute)

FairSpec == Spec /\ Fairness

(***************************************************************************)
(* Properties                                                              *)
(***************************************************************************)
Sessions == {Unknown, Completed, Failed} \cup {Waiting(a) : a \in ActionId}
Events == [kind : TerminalEvents \cup {"RunSubmitted", "RunStarted", "RunResumed",
                   "ActionEnqueued", "ActionClaimed", "ActionCompleted", "ActionFailed"},
           action : ActionId \cup {NoAction}]
Updates == [kind : {"Claimed", "Completed", "Failed"}, action : ActionId]
Writes ==
    {SaveRun(r, session) : r \in Runs, session \in Sessions}
    \cup {RecordStatus(r, session) : r \in Runs, session \in Sessions}
    \cup {SaveAction(a, state) : a \in ActionId, state \in {"Pending", "Completed", "Failed"}}
    \cup {Enqueue(a) : a \in ActionId}
    \cup {Publish(r, e.kind, e.action) : r \in Runs, e \in Events}
    \cup {Reply(r, answer) : r \in Runs, answer \in {"Ok", "Err"}}

(* The state is well formed, and the engine task is busy exactly while it   *)
(* has writes to do.                                                        *)
TypeOK ==
    /\ store \in [Runs -> Sessions] /\ status \in [Runs -> Sessions]
    /\ records \in [ActionId -> {"Absent", "Pending", "Completed", "Failed"}]
    /\ log \in [Runs -> SUBSET TerminalEvents]
    /\ feed \in [Runs -> Seq(Events)]
    /\ issued \in [Runs -> 0 .. MaxCalls]
    /\ reply \in [Runs -> {"None", "Ok", "Err"}]
    /\ phase \in {"recovering", "serving", "refused"} /\ unrecovered \subseteq Runs
    /\ commands \in Seq(Runs)
    /\ cause \in Updates \cup {Submission(r) : r \in Runs} \cup {Idle}
    /\ failing \in BOOLEAN /\ todo \in Seq(Writes) /\ abandoned \subseteq Runs
    /\ (todo = <<>>) <=> (cause = Idle)
    /\ actionQueue \in Seq(ActionId) /\ executing \in ActionId \cup {NoAction}
    /\ updates \in Seq(Updates)
    /\ crashes \in 0 .. MaxCrashes /\ faults \in 0 .. MaxFaults

(* The places where an action can be on its way: about to be enqueued, with *)
(* the worker, answered, or answered and being handled.                     *)
Places(a) ==
    {<<"todo", i>> : i \in {j \in 1 .. Len(todo) : todo[j].op = "Enqueue" /\ todo[j].action = a}}
    \cup {<<"queue", i>> : i \in {j \in 1 .. Len(actionQueue) : actionQueue[j] = a}}
    \cup {<<"worker", i>> : i \in {j \in {1} : executing = a}}
    \cup {<<"answer", i>> : i \in {j \in 1 .. Len(updates) :
                                     updates[j].kind # "Claimed" /\ updates[j].action = a}}
    \cup {<<"handled", i>> : i \in {j \in {1} : cause.kind \in {"Completed", "Failed"}
                                                 /\ cause.action = a}}

(* No action is in two places, whatever was restarted or failed: recovery   *)
(* enqueues nothing that is still on its way (engine.rs:294-317, 478-482).  *)
OnceInFlight == \A a \in ActionId : \A x, y \in Places(a) : x = y

(* complete_action resumes a run with any result it is handed for it        *)
(* (run_executor.rs:108-131 compares no ids).  It is the right one because  *)
(* a run that can be resumed waits for the only action it has under way.    *)
ResumedByOwnAction ==
    \A a \in ActionId :
        (HasSnapshot(store[RunOf(a)]) /\ \E x \in Places(a) : x[1] \in {"queue", "worker", "answer"})
            => store[RunOf(a)] = Waiting(a)

(* No waiting run is forgotten: between two handlers that concern it, the   *)
(* action it waits for is on its way, or its submitter was told that it     *)
(* failed, or both handle_update and handle_update_error met an error       *)
(* (engine.rs:246-249, 294-317, 467-491).                                   *)
NoRunForgotten ==
    phase = "serving" =>
      \A r \in Runs : IsWaiting(store[r]) =>
        \/ Places(store[r].action) # {}
        \/ cause # Idle /\ RunOf(cause.action) = r
        \/ reply[r] = "Err" \/ r \in abandoned

(* Recovery may skip the runs whose end is in the log: they are over in the *)
(* store.  What the subscribers were told of an end is what the store says, *)
(* and so is what the log says, save one case: when the end of a completed  *)
(* run was logged and then could not be published, the run is saved and     *)
(* logged as failed too (engine.rs:248, 304-306, 472-486, fs.rs:221-225).   *)
LogTellsTheTruth ==
    \A r \in Runs :
        /\ "RunFailed" \in log[r] => store[r] = Failed
        /\ "RunCompleted" \in log[r] => store[r] = Completed \/ (store[r] = Failed /\ faults > 0)
        /\ Notified(r, {"RunCompleted"}) => store[r] = Completed
        /\ Notified(r, {"RunFailed"}) => store[r] = Failed

(* run_status and has_active_runs are right whenever the engine task is     *)
(* between two handlers, for every run whose submission did not fail        *)
(* (engine.rs:88-99, 299-302, 488).                                         *)
StatusIsCurrent ==
    (phase = "serving" /\ cause = Idle) =>
        \A r \in Runs : status[r] = store[r] \/ reply[r] = "Err" \/ r \in abandoned

(* A run that is over is never resumed, whatever answers still arrive for   *)
(* it (engine.rs:394-456, run_executor.rs:108-116, 150).                    *)
OverIsFinal == [][\A r \in Runs : store[r] \in Terminal => store'[r] \in Terminal]_vars

(* Nothing is executed in vain or twice: an action the worker claims is the *)
(* one its run waits for, and it was not completed before a restart         *)
(* (engine.rs:294-317, 472-482); unless a write has failed.                 *)
ClaimedIsWanted ==
    [][(executing' # executing /\ executing' # NoAction /\ faults = 0) =>
          /\ store[RunOf(executing')] = Waiting(executing')
          /\ records[executing'] # "Completed"]_vars

(* The events of every run come in the order of RunLifecycle, as long as no *)
(* write fails.                                                             *)
Lifecycle == INSTANCE RunLifecycle WITH
    restarted <- crashes > 0, faulty <- faults > 0,
    stage <- [r \in Runs |-> IF feed[r] = <<>> THEN "None" ELSE feed[r][Len(feed[r])].kind]
EventsInOrder == Lifecycle!Spec

(* An accepted run comes to an end, in the store and, unless the engine was *)
(* restarted, for its subscribers too; except that recovery may be refused, *)
(* or the engine may fail to record even the error (engine.rs:230-317).     *)
AcceptedRunsEnd ==
    \A r \in Runs : reply[r] = "Ok" ~>
        \/ store[r] \in Terminal /\ (Notified(r, TerminalEvents) \/ crashes > 0)
        \/ phase = "refused" \/ r \in abandoned

(* Whoever submits to an engine that is not killed again gets an answer     *)
(* (engine.rs:192-207, 240-243).                                            *)
SubmittersAreAnswered ==
    \A r \in Runs : (Contains(commands, r) /\ crashes = MaxCrashes) ~> reply[r] # "None"

(* "execution_engine_recovers_waiting_runs_from_event_log": the waiting runs *)
(* of the store are recovered (runtime/src/tests.rs:454, 522).              *)
RecoverySucceeds == phase # "refused"
=============================================================================
