------------------------------ MODULE UiServer ------------------------------
(***************************************************************************)
(* The server's user interface sessions (crates/server/src) with the web   *)
(* shells that use them (web/ui-shell/src).  Sessions share nothing, so    *)
(* one is modelled.  Its runner, behind a mutex, owns an orchestrator with *)
(* one participant, which answers an event of the interface, and one       *)
(* environment, a list of todos.  Every event is a run of the orchestrator *)
(* of at most a few turns; what it leaves is answered to the sender and    *)
(* broadcast to the streams.                                               *)
(*                                                                         *)
(* The data model has one entry per path that the specification of the     *)
(* interface binds, and a snapshot is known by its version.                *)
(***************************************************************************)
EXTENDS Integers, Sequences, FiniteSets, SequencesExt

CONSTANTS
    Shells,       \* the browsers that use the session
    Buttons,      \* the nodes with a click handler
    ActionOf,     \* the action each of them invokes
    ResultOf,     \* the path its result is bound to, or NoBinding
    ChannelSize,  \* capacity of the broadcast channel (64 in create_session)
    MaxPosts,     \* bound on the events that are posted
    MaxReads      \* bound on the snapshots that are fetched and the streams

Actions == {"add_todo", "toggle_todo", "delete_todo"}
NoBinding == "none"
Free == "free"

ASSUME UiAssumption ==
    /\ Shells # {} /\ Free \notin Shells
    /\ ChannelSize \in Nat \ {0} /\ MaxPosts \in Nat /\ MaxReads \in Nat
    /\ ActionOf \in [Buttons -> Actions \cup {"unsupported"}]
    /\ ResultOf \in [Buttons -> {NoBinding, "todos", "last"}]

VARIABLES
    todos, nextId,  \* TodoEnvironment
    data,           \* data_model, by path
    status,         \* status of the interface
    pending,        \* pending_results: the bindings of answers to come
    created,        \* whether the session is in the server's table
    run,            \* the orchestrator's run for one event, with its inbox
    holder,         \* the request whose handler holds the runner's mutex
    posts,          \* the requests that wait for it
    stream,         \* each shell's stream: its receiver and what it showed
    replies,        \* responses on their way to the shells
    shown,          \* the snapshot each shell displays, and where it is from
    \* history and bounds
    version,        \* number of events handled: names the snapshots
    posted, reads

envVars == <<todos, nextId>>
uiVars == <<data, status, pending>>
shellVars == <<stream, replies, shown>>
vars == <<envVars, uiVars, shellVars, created, run, holder, posts, version, posted, reads>>

(***************************************************************************)
(* TodoEnvironment                                                         *)
(***************************************************************************)

InitialTodos == <<[id |-> 1, completed |-> FALSE], [id |-> 2, completed |-> TRUE]>>

NoText == 0     \* the empty text; every other text is 1
NoSelection == 0

Has(id) == \E i \in DOMAIN todos : todos[i].id = id

Refuses(action, arg) ==
    IF action = "add_todo" THEN arg = NoText ELSE ~Has(arg)

(* A slip: the new item is numbered by its place in the list. *)
AddNumbersByPlace(action) ==
    /\ todos' = Append(todos, [id |-> Len(todos) + 1, completed |-> FALSE])
    /\ nextId' = nextId + 1

Add(action) ==
    /\ todos' = Append(todos, [id |-> nextId, completed |-> FALSE])
    /\ nextId' = nextId + 1

(* retain: the items at these places stay, in their order. *)
Retain(places) ==
    \E at \in [1 .. Cardinality(places) -> places] :
        /\ \A i, j \in DOMAIN at : i < j => at[i] < at[j]
        /\ todos' = [i \in DOMAIN at |-> todos[at[i]]]

PerformNow(action, arg) ==
    \/ action = "add_todo" /\ Add(action)
    \/ /\ action = "toggle_todo"
       /\ todos' = [i \in DOMAIN todos |->
                       IF todos[i].id = arg
                       THEN [todos[i] EXCEPT !.completed = ~@] ELSE todos[i]]
       /\ UNCHANGED nextId
    \/ /\ action = "delete_todo"
       /\ Retain({i \in DOMAIN todos : todos[i].id # arg})
       /\ UNCHANGED nextId

(***************************************************************************)
(* A run of the orchestrator for one event (run_request)                   *)
(***************************************************************************)

Render == [kind |-> "render", node |-> "none", value |-> 0]
Set(field, value) == [kind |-> "set", node |-> field, value |-> value]
Click(node) == [kind |-> "click", node |-> node, value |-> 0]
Unsupported == [Render EXCEPT !.kind = "unsupported"]

Fields == {"draft", "selected"}   \* the nodes with a writable value
Label == "label"                  \* a node with neither value nor handler

Commands ==
    {Render, Unsupported}
      \cup {Set("draft", 1), Set("selected", 1), Set("selected", 3), Set(Label, 1)}
      \cup {Click(b) : b \in Buttons \cup {Label}}

MaxRunSteps == 8
MaxRunActions == 4

NoRun == [pc |-> "none", cmd |-> Render, inbox |-> <<>>, obs |-> <<>>,
          steps |-> 0, actions |-> 0, finish |-> "none"]

StartRun(cmd) == [NoRun EXCEPT !.pc = "turn", !.cmd = cmd, !.obs = todos]

Over(finish) == [run EXCEPT !.pc = "over", !.finish = finish, !.inbox = <<>>, !.steps = @ + 1]
Synced == [data EXCEPT !.todos = run.obs]

(* A slip: the work item of the loop is looked at before its inbox. *)
WorkItemFirst == run.inbox # <<>> /\ run.cmd.kind # "click"

(* respond returns at the first answer in the inbox, and only without one *)
(* handles the command.                                                    *)
HasAnswer == run.inbox # <<>>

CommandTurn(kind) ==
    /\ run.pc = "turn" /\ ~HasAnswer /\ run.cmd.kind = kind

RenderTurn ==
    /\ CommandTurn("render")
    /\ data' = Synced
    /\ run' = Over("completed")
    /\ UNCHANGED <<envVars, status, pending>>

SetTurn ==
    /\ CommandTurn("set")
    /\ IF run.cmd.node \in Fields
       THEN /\ data' = [Synced EXCEPT ![run.cmd.node] = run.cmd.value]
            /\ status' = "ready"
            /\ run' = Over("completed")
       ELSE /\ data' = Synced
            /\ run' = Over("ParticipantError")
            /\ UNCHANGED status
    /\ UNCHANGED <<envVars, pending>>

(* map_action: the bound argument of the clicked button; the selection has *)
(* to be a number.                                                         *)
MapsAction(b) ==
    ActionOf[b] \in Actions /\ (ActionOf[b] # "add_todo" => data.selected # NoSelection)
Argument(b) == IF ActionOf[b] = "add_todo" THEN data.draft ELSE data.selected

(* A click is an immediate action: the environment performs it within the  *)
(* turn, and its answer is queued for the next poll.                       *)
ClickTurn ==
    /\ CommandTurn("click")
    /\ data' = Synced
    /\ LET b == run.cmd.node IN
       IF b \notin Buttons \/ ~MapsAction(b)
       THEN run' = Over("ParticipantError") /\ UNCHANGED <<envVars, status, pending>>
       ELSE /\ pending' = Append(pending, ResultOf[b])
            /\ status' = "triggering"
            /\ IF run.actions + 1 > MaxRunActions
               THEN run' = Over("ActionLimitExceeded") /\ UNCHANGED envVars
               ELSE IF Refuses(ActionOf[b], Argument(b))
               THEN /\ run' = [Over("EnvironmentError") EXCEPT !.actions = @ + 1]
                    /\ UNCHANGED envVars
               ELSE /\ PerformNow(ActionOf[b], Argument(b))
                    /\ run' = [run EXCEPT !.pc = "poll", !.steps = @ + 1, !.actions = @ + 1,
                                          !.inbox = <<>>]

(* A slip: the observation is taken once, when the run starts. *)
PollKeepsObservation ==
    /\ run.pc = "poll"
    /\ run' = IF run.steps >= MaxRunSteps THEN Over("StepLimitExceeded")
              ELSE [run EXCEPT !.pc = "turn", !.inbox = <<todos>>]
    /\ UNCHANGED <<envVars, uiVars>>

(* poll_environment_phase delivers the queued answer, whose outcome is the *)
(* list of todos, and observes the environment again.                      *)
Poll ==
    /\ run.pc = "poll"
    /\ run' = IF run.steps >= MaxRunSteps THEN Over("StepLimitExceeded")
              ELSE [run EXCEPT !.pc = "turn", !.inbox = <<todos>>, !.obs = todos]
    /\ UNCHANGED <<envVars, uiVars>>

(* The outcome goes to the oldest pending binding.  apply_action_failure   *)
(* is left out: this environment answers a failure by ending the run.      *)
AnswerTurn ==
    /\ run.pc = "turn" /\ HasAnswer
    /\ LET path == IF pending = <<>> THEN NoBinding ELSE Head(pending) IN
       data' = IF path = NoBinding THEN Synced ELSE [Synced EXCEPT ![path] = Head(run.inbox)]
    /\ pending' = IF pending = <<>> THEN <<>> ELSE Tail(pending)
    /\ status' = "ready"
    /\ run' = Over("completed")
    /\ UNCHANGED envVars

RunStep ==
    /\ \/ RenderTurn \/ SetTurn \/ ClickTurn \/ Poll \/ AnswerTurn
    /\ UNCHANGED <<shellVars, created, holder, posts, version, posted, reads>>

(***************************************************************************)
(* The server and its requests                                             *)
(***************************************************************************)

(* The session enters the table after its first run, a "render".  The     *)
(* request may bring initial values for the fields.                        *)
CreateSession ==
    /\ ~created
    /\ created' = TRUE
    /\ todos' = InitialTodos /\ nextId' = 3
    /\ \E input \in {0, 1} :
         data' = [data EXCEPT !.todos = InitialTodos, !.draft = input, !.selected = input]
    /\ UNCHANGED <<status, pending, shellVars, run, holder, posts, version, posted, reads>>

(* A shell posts an event; nothing keeps it from posting the next one. *)
Post(s, cmd) ==
    /\ created /\ posted < MaxPosts
    /\ posted' = posted + 1
    /\ posts' = posts \cup {[id |-> posted', shell |-> s, cmd |-> cmd]}
    /\ UNCHANGED <<envVars, uiVars, shellVars, created, run, holder, version, reads>>

(* post_event with the runner's mutex; an event that is no command is      *)
(* refused before anything happens.                                        *)
HandleEvent(p) ==
    /\ holder = Free /\ p \in posts
    /\ posts' = posts \ {p}
    /\ IF p.cmd.kind = "unsupported"
       THEN UNCHANGED <<holder, run>>
       ELSE holder' = p.shell /\ run' = StartRun(p.cmd)
    /\ UNCHANGED <<envVars, uiVars, shellVars, created, version, posted, reads>>

(* A receiver that lags loses the oldest snapshots. *)
Received(queue, v) ==
    IF Len(queue) < ChannelSize THEN Append(queue, v) ELSE Append(Tail(queue), v)

(* A run that did not complete its loop leaves its reason as the status;   *)
(* then the snapshot is broadcast and answered, and the mutex released.    *)
Reply ==
    /\ run.pc = "over"
    /\ status' = IF run.finish = "completed" THEN status ELSE run.finish
    /\ version' = version + 1
    /\ stream' = [s \in Shells |->
                     IF stream[s].open
                     THEN [stream[s] EXCEPT !.queue = Received(@, version')] ELSE stream[s]]
    /\ replies' = replies \cup {[shell |-> holder, version |-> version']}
    /\ run' = NoRun
    /\ holder' = Free
    /\ UNCHANGED <<envVars, data, pending, shown, created, posts, posted, reads>>

(* get_session: the answer to Refresh. *)
Fetch(s) ==
    /\ created /\ holder = Free /\ reads < MaxReads
    /\ reads' = reads + 1
    /\ replies' = replies \cup {[shell |-> s, version |-> version]}
    /\ UNCHANGED <<envVars, uiVars, stream, shown, created, run, holder, posts, version, posted>>

Closed == [open |-> FALSE, connecting |-> FALSE, queue |-> <<>>, last |-> 0]

(* A slip: the snapshot is taken and the mutex released, then the shell    *)
(* subscribes.                                                             *)
ConnectUnlocked(s) ==
    /\ created /\ holder = Free /\ reads < MaxReads /\ ~stream[s].connecting
    /\ reads' = reads + 1
    /\ stream' = [stream EXCEPT ![s] = [Closed EXCEPT !.connecting = TRUE, !.queue = <<version>>]]
    /\ UNCHANGED <<envVars, uiVars, replies, shown, created, run, holder, posts, version, posted>>

(* subscribe holds the mutex from its snapshot, the first message of the   *)
(* stream, until it has a receiver; the shell closes the stream it had.    *)
Connect(s) ==
    /\ created /\ holder = Free /\ reads < MaxReads /\ ~stream[s].connecting
    /\ reads' = reads + 1
    /\ holder' = s
    /\ stream' = [stream EXCEPT ![s] = [Closed EXCEPT !.connecting = TRUE, !.queue = <<version>>]]
    /\ UNCHANGED <<envVars, uiVars, replies, shown, created, run, posts, version, posted>>

Subscribe(s) ==
    /\ stream[s].connecting
    /\ stream' = [stream EXCEPT ![s].connecting = FALSE, ![s].open = TRUE]
    /\ holder' = IF run.pc = "none" THEN Free ELSE holder
    /\ UNCHANGED <<envVars, uiVars, replies, shown, created, run, posts, version, posted, reads>>

Disconnect(s) ==
    /\ stream[s].open
    /\ stream' = [stream EXCEPT ![s] = Closed]
    /\ UNCHANGED <<envVars, uiVars, replies, shown, created, run, holder, posts, version,
                   posted, reads>>

(***************************************************************************)
(* The web shell displays whatever arrives (attachSnapshot)                *)
(***************************************************************************)

StreamArrives(s) ==
    /\ stream[s].open /\ stream[s].queue # <<>>
    /\ LET v == Head(stream[s].queue) IN
       /\ stream' = [stream EXCEPT ![s].queue = Tail(@), ![s].last = v]
       /\ shown' = [shown EXCEPT ![s] = [version |-> v, from |-> "stream"]]
    /\ UNCHANGED <<envVars, uiVars, replies, created, run, holder, posts, version, posted, reads>>

(* Responses overtake each other and the stream. *)
ReplyArrives(r) ==
    /\ r \in replies
    /\ replies' = replies \ {r}
    /\ shown' = [shown EXCEPT ![r.shell] = [version |-> r.version, from |-> "reply"]]
    /\ UNCHANGED <<envVars, uiVars, stream, created, run, holder, posts, version, posted, reads>>

UiInit ==
    /\ todos = <<>> /\ nextId = 0
    /\ data = [todos |-> <<>>, last |-> <<>>, draft |-> NoText, selected |-> NoSelection]
    /\ status = "ready" /\ pending = <<>>
    /\ created = FALSE /\ run = NoRun /\ holder = Free /\ posts = {}
    /\ stream = [s \in Shells |-> Closed]
    /\ replies = {}
    /\ shown = [s \in Shells |-> [version |-> 0, from |-> "reply"]]
    /\ version = 0 /\ posted = 0 /\ reads = 0

UiNext ==
    \/ CreateSession
    \/ RunStep
    \/ Reply
    \/ \E p \in posts : HandleEvent(p)
    \/ \E r \in replies : ReplyArrives(r)
    \/ \E s \in Shells :
         \/ \E cmd \in Commands : Post(s, cmd)
         \/ Fetch(s) \/ Connect(s) \/ Subscribe(s) \/ Disconnect(s) \/ StreamArrives(s)

UiSpec == UiInit /\ [][UiNext]_vars

(***************************************************************************)
(* Properties                                                              *)
(***************************************************************************)

Todos == Seq([id : Nat, completed : BOOLEAN])

(* The variables have their types, a receiver never holds more than the    *)
(* channel, and no two items of the list share their number, whatever was  *)
(* added and deleted before.                                               *)
UiTypeOK ==
    /\ todos \in Todos /\ nextId \in Nat
    /\ \A i, j \in DOMAIN todos : i # j => todos[i].id # todos[j].id
    /\ \A i \in DOMAIN todos : todos[i].id < nextId
    /\ data \in [todos : Todos, last : Todos, draft : Nat, selected : Nat]
    /\ status \in {"ready", "triggering", "ParticipantError", "EnvironmentError",
                   "ActionLimitExceeded", "StepLimitExceeded"}
    /\ pending \in Seq({NoBinding, "todos", "last"})
    /\ run.pc \in {"none", "turn", "poll", "over"} /\ run.cmd \in Commands
    /\ holder \in Shells \cup {Free}
    /\ posts \subseteq [id : 1 .. MaxPosts, shell : Shells, cmd : Commands]
    /\ stream \in [Shells -> [open : BOOLEAN, connecting : BOOLEAN, queue : Seq(Nat), last : Nat]]
    /\ \A s \in Shells : Len(stream[s].queue) <= ChannelSize
    /\ replies \subseteq [shell : Shells, version : 0 .. version]
    /\ shown \in [Shells -> [version : 0 .. version, from : {"stream", "reply"}]]

(* Whenever the mutex is free, which is when snapshots are taken, the data *)
(* model shows the environment's list and no action is announced that is   *)
(* not under way: a run may end at any turn, by an error or a limit, and   *)
(* the list is copied into the data model only at the turns                *)
(* (sync_from_observation and status_from_result in session.rs).           *)
SettledBetweenRuns ==
    created /\ holder = Free => data.todos = todos /\ status # "triggering"

(* One click performs at most one action, although the loop that handles   *)
(* it has its work item in every turn (respond in session.rs).             *)
ClickActsOnce == run.actions <= 1

(* A connected shell has been sent the current snapshot last, however      *)
(* connecting, events and lag interleave; once that arrived, it shows an   *)
(* older one only if a response arrived after it (subscribe and post_event *)
(* in state.rs, stream_session in api.rs, attachSnapshot in main.ts).      *)
StreamsAreCurrent ==
    holder = Free =>
        \A s \in Shells : stream[s].open =>
            IF stream[s].queue # <<>> THEN Last(stream[s].queue) = version
            ELSE /\ stream[s].last = version
                 /\ shown[s].version # version => shown[s].from = "reply"

(* The result of a click is found at the path the clicked button binds it  *)
(* to (the result_path of skills/core/ui/SKILL.md).                        *)
ResultsInPlace ==
    run.pc = "over" /\ run.finish = "completed" /\ run.cmd.kind = "click"
      /\ ResultOf[run.cmd.node] # NoBinding
        => data[ResultOf[run.cmd.node]] = todos
=============================================================================
