--------------------------- MODULE UiServerProofs ---------------------------
(***************************************************************************)
(* Proofs about the sessions of the user interface, for any number of      *)
(* shells, any interface (whatever its buttons do and wherever their       *)
(* results go), any capacity of the broadcast channel, and any number of   *)
(* events, fetches and streams.                                            *)
(*                                                                         *)
(* Everything rests on the runner's mutex: a run has the environment and   *)
(* the data model for itself from its first turn to its reply, and no      *)
(* snapshot falls between the two halves of a stream's connection.         *)
(***************************************************************************)
EXTENDS UiServer, TLAPS, SequenceTheorems, FiniteSetTheorems

(***************************************************************************)
(* The inductive invariant                                                 *)
(***************************************************************************)
Todo == [id : Nat, completed : BOOLEAN]
Statuses == {"ready", "triggering", "ParticipantError", "EnvironmentError",
             "ActionLimitExceeded", "StepLimitExceeded"}
Finishes == (Statuses \ {"ready", "triggering"}) \cup {"none", "completed"}
Runs == [pc : {"none", "turn", "poll", "over"}, cmd : Commands, inbox : Seq(Todos), obs : Todos,
         steps : Nat, actions : Nat, finish : Finishes]
Streams == [open : BOOLEAN, connecting : BOOLEAN, queue : Seq(Nat), last : Nat]

(* The parts of UiTypeOK, with the types the properties do not need. *)
ListFits ==
    /\ todos \in Todos /\ nextId \in Nat
    /\ \A i, j \in DOMAIN todos : i # j => todos[i].id # todos[j].id
    /\ \A i \in DOMAIN todos : todos[i].id < nextId

DataTyped ==
    /\ data \in [todos : Todos, last : Todos, draft : Nat, selected : Nat]
    /\ status \in Statuses
    /\ pending \in Seq({NoBinding, "todos", "last"})

ServerTyped ==
    /\ run \in Runs /\ created \in BOOLEAN /\ holder \in Shells \cup {Free}
    /\ posted \in 0 .. MaxPosts
    /\ posts \subseteq [id : 1 .. MaxPosts, shell : Shells, cmd : Commands]

ShellsTyped ==
    /\ version \in Nat
    /\ stream \in [Shells -> Streams]
    /\ \A s \in Shells : Len(stream[s].queue) <= ChannelSize
    /\ replies \subseteq [shell : Shells, version : 0 .. version]
    /\ shown \in [Shells -> [version : 0 .. version, from : {"stream", "reply"}]]

(* One handler at a time holds the mutex, the one with a run or the one    *)
(* that connects a stream, and nobody does before the session exists.      *)
MutexFits ==
    /\ run.pc # "none" => holder # Free
    /\ \A s \in Shells : stream[s].connecting =>
           holder = s /\ run.pc = "none" /\ ~stream[s].open
    /\ ~created => run.pc = "none" /\ holder = Free /\ posts = {}

(* A run is at its first turn and did nothing yet, or it performed its one *)
(* action in it and is answered in the second, before any limit; and it    *)
(* observes the environment as it is.                                      *)
RunFits ==
    /\ run.pc = "turn" => run.obs = todos
    /\ run.pc = "turn" /\ run.inbox = <<>> => run.steps = 0 /\ run.actions = 0
    /\ run.pc = "turn" /\ run.inbox # <<>> => run.inbox = <<todos>>
    /\ run.pc = "poll" => run.steps = 1
    /\ run.pc = "over" => run.finish # "none"
    /\ run.actions <= 1

(* Only a run under way leaves the data model behind the environment, and  *)
(* only a click that is not answered yet, or never will be, is announced.  *)
DataFits ==
    /\ created /\ run.pc \in {"none", "over"} => data.todos = todos
    /\ status = "triggering" =>
          \/ run.pc = "poll"
          \/ run.pc = "turn" /\ run.inbox # <<>>
          \/ run.pc = "over" /\ run.finish # "completed"

(* What StreamsAreCurrent says of an open stream holds whoever has the     *)
(* mutex, because a stream that connects was sent the current snapshot.    *)
Current(str, display, v) ==
    /\ \A i \in 1 .. Len(str.queue) : str.queue[i] <= v
    /\ str.connecting => str.queue = <<v>>
    /\ str.open /\ str.queue # <<>> => str.queue[Len(str.queue)] = v
    /\ str.open /\ str.queue = <<>> =>
           str.last = v /\ (display.version = v \/ display.from = "reply")

StreamsFit == \A s \in Shells : Current(stream[s], shown[s], version)

UiInv ==
    /\ ListFits /\ DataTyped /\ ServerTyped /\ ShellsTyped
    /\ MutexFits /\ RunFits /\ DataFits /\ StreamsFit

LEMMA UiInvIsTyped == UiInv => UiTypeOK
BY DEF UiInv, ListFits, DataTyped, ServerTyped, ShellsTyped, UiTypeOK, Statuses, Runs, Streams

(***************************************************************************)
(* The list of todos                                                       *)
(***************************************************************************)
LEMMA ListOf == ASSUME NEW S, NEW n \in Nat, NEW f \in [1 .. n -> S] PROVE f \in Seq(S)
<1>1. Seq(S) = UNION {[1 .. k -> S] : k \in Nat} BY SeqDef
<1>2. QED BY <1>1, Zenon

LEMMA ListDomain ==
    ASSUME ListFits
    PROVE  /\ Len(todos) \in Nat /\ DOMAIN todos = 1 .. Len(todos)
           /\ \A i \in 1 .. Len(todos) : todos[i] \in Todo
BY LenProperties, ElementOfSeq DEF ListFits, Todos, Todo

(* A list that keeps some of the items, some of them changed, keeps their  *)
(* numbers apart.                                                          *)
LEMMA PartIsFit ==
    ASSUME ListFits, NEW n \in Nat, NEW at \in [1 .. n -> 1 .. Len(todos)],
           \A i, j \in 1 .. n : i # j => at[i] # at[j],
           DOMAIN todos' = 1 .. n, todos' \in Todos,
           \A i \in 1 .. n : todos'[i].id = todos[at[i]].id,
           UNCHANGED nextId
    PROVE  ListFits'
<1>1. DOMAIN todos = 1 .. Len(todos) BY ListDomain
<1>2. \A i \in 1 .. n : at[i] \in DOMAIN todos BY <1>1
<1>3. \A i, j \in DOMAIN todos' : i # j => todos'[i].id # todos'[j].id
  BY <1>2 DEF ListFits
<1>4. \A i \in DOMAIN todos' : todos'[i].id < nextId' BY <1>2 DEF ListFits
<1>5. nextId' \in Nat BY DEF ListFits
<1>6. QED BY <1>3, <1>4, <1>5 DEF ListFits

(* An action leaves the numbers of the items distinct and below the next.  *)
LEMMA ActionKeepsList ==
    ASSUME ListFits, NEW action, NEW arg, PerformNow(action, arg) PROVE ListFits'
<1> DEFINE n == Len(todos)
<1>1. /\ n \in Nat /\ DOMAIN todos = 1 .. n /\ nextId \in Nat
      /\ \A i \in 1 .. n : todos[i] \in Todo
  BY ListDomain DEF ListFits
<1>2. CASE Add(action)
  <2> DEFINE item == [id |-> nextId, completed |-> FALSE]
  <2>1. item \in Todo /\ item.id = nextId BY <1>1 DEF Todo
  <2>2. todos \in Seq(Todo) /\ todos' = Append(todos, item) /\ nextId' = nextId + 1
    BY <1>2 DEF Add, ListFits, Todos, Todo
  <2>3. /\ Append(todos, item) \in Seq(Todo) /\ Len(Append(todos, item)) = n + 1
        /\ \A i \in 1 .. n : Append(todos, item)[i] = todos[i]
        /\ Append(todos, item)[n + 1] = item
    BY <2>1, <2>2, AppendProperties
  <2>4. todos' \in Todos /\ Len(todos') = n + 1 BY <2>2, <2>3 DEF Todos, Todo
  <2>5. DOMAIN todos' = 1 .. n + 1 BY <2>4, LenProperties DEF Todos
  <2>6. \A i \in 1 .. n : todos'[i].id = todos[i].id /\ todos[i].id \in Nat
    BY <1>1, <2>2, <2>3 DEF Todo
  <2>7. todos'[n + 1].id = nextId BY <2>1, <2>2, <2>3
  <2>8. \A i \in 1 .. n : todos'[i].id < nextId BY <1>1, <2>6 DEF ListFits
  <2>9. \A i, j \in 1 .. n : i # j => todos'[i].id # todos'[j].id
    BY <1>1, <2>6 DEF ListFits
  <2>10. \A i \in 1 .. n + 1 : i \in 1 .. n \/ i = n + 1 BY <1>1
  <2>11. \A i, j \in DOMAIN todos' : i # j => todos'[i].id # todos'[j].id
    BY <1>1, <2>5, <2>6, <2>7, <2>8, <2>9, <2>10
  <2>12. \A i \in DOMAIN todos' : todos'[i].id < nextId'
    BY <1>1, <2>2, <2>5, <2>6, <2>7, <2>8, <2>10
  <2>13. QED BY <1>1, <2>2, <2>4, <2>11, <2>12 DEF ListFits
<1>3. CASE /\ todos' = [i \in DOMAIN todos |->
                           IF todos[i].id = arg
                           THEN [todos[i] EXCEPT !.completed = ~@] ELSE todos[i]]
           /\ UNCHANGED nextId
  <2>1. ASSUME NEW i \in 1 .. n
        PROVE  /\ [todos[i] EXCEPT !.completed = ~@] \in Todo
               /\ [todos[i] EXCEPT !.completed = ~@].id = todos[i].id
    <3>1. PICK t \in Todo : t = todos[i] BY <1>1
    <3>2. [t EXCEPT !.completed = ~@] \in Todo BY DEF Todo
    <3>3. [t EXCEPT !.completed = ~@].id = t.id BY DEF Todo
    <3>4. QED BY <3>1, <3>2, <3>3
  <2>2. DOMAIN todos' = 1 .. n /\ \A i \in 1 .. n : todos'[i] \in Todo
    BY <1>1, <1>3, <2>1
  <2>3. todos' \in Todos
    <3>1. todos' \in [1 .. n -> Todo] BY <1>1, <1>3, <2>2
    <3>2. QED BY <1>1, <3>1, ListOf DEF Todos, Todo
  <2>4. \A i \in 1 .. n : todos'[i].id = todos[i].id BY <1>1, <1>3, <2>1
  <2> DEFINE at == [i \in 1 .. n |-> i]
  <2>5. at \in [1 .. n -> 1 .. n] /\ \A i \in 1 .. n : at[i] = i OBVIOUS
  <2>6. QED BY <1>1, <1>3, <2>2, <2>3, <2>4, <2>5, PartIsFit
<1>4. CASE Retain({i \in DOMAIN todos : todos[i].id # arg}) /\ UNCHANGED nextId
  <2> DEFINE places == {i \in DOMAIN todos : todos[i].id # arg}
             m == Cardinality(places)
  <2>1. places \subseteq 1 .. n BY <1>1
  <2>2. m \in Nat
    <3>1. IsFiniteSet(1 .. n) BY <1>1, FS_Interval
    <3>2. IsFiniteSet(places) BY <2>1, <3>1, FS_Subset
    <3>3. QED BY <3>2, FS_CardinalityType
  <2>3. PICK at \in [1 .. m -> places] :
           /\ \A i, j \in DOMAIN at : i < j => at[i] < at[j]
           /\ todos' = [i \in DOMAIN at |-> todos[at[i]]]
    BY <1>4 DEF Retain
  <2> HIDE DEF places, m
  <2>4. DOMAIN at = 1 .. m /\ \A i \in 1 .. m : at[i] \in 1 .. n BY <2>1, <2>3
  <2>5. at \in [1 .. m -> 1 .. n] BY <2>3, <2>4
  <2>6. \A i, j \in 1 .. m : i # j => at[i] # at[j]
    <3>1. SUFFICES ASSUME NEW i \in 1 .. m, NEW j \in 1 .. m, i < j
                   PROVE  at[i] # at[j] BY <2>2
    <3>2. at[i] < at[j] BY <2>3, <2>4, <3>1
    <3>3. at[i] \in Int /\ at[j] \in Int BY <1>1, <2>4
    <3>4. QED BY <3>2, <3>3
  <2>7. /\ DOMAIN todos' = 1 .. m
        /\ \A i \in 1 .. m : todos'[i] = todos[at[i]] /\ todos'[i] \in Todo
    BY <1>1, <2>3, <2>4
  <2>8. todos' \in Todos
    <3>1. todos' \in [1 .. m -> Todo] BY <2>3, <2>4, <2>7
    <3>2. QED BY <2>2, <3>1, ListOf DEF Todos, Todo
  <2>9. QED BY <1>4, <2>2, <2>5, <2>6, <2>7, <2>8, PartIsFit
<1>5. QED BY <1>2, <1>3, <1>4 DEF PerformNow

(***************************************************************************)
(* The run for one event                                                   *)
(***************************************************************************)

(* What a step of a run keeps, and that it does not release the mutex. *)
Settling ==
    ListFits /\ DataTyped /\ run \in Runs /\ run.pc # "none" /\ RunFits /\ DataFits

LEMMA RunFields ==
    ASSUME run \in Runs
    PROVE  /\ run.cmd \in Commands /\ run.steps \in Nat /\ run.actions \in Nat
           /\ run.inbox \in Seq(Todos) /\ run.obs \in Todos
           /\ run.pc \in {"none", "turn", "poll", "over"} /\ run.finish \in Finishes
BY DEF Runs

LEMMA OverFields ==
    ASSUME run \in Runs, NEW f \in Finishes
    PROVE  /\ Over(f) \in Runs /\ Over(f).pc = "over" /\ Over(f).finish = f
           /\ Over(f).actions = run.actions
<1>1. \A n \in Nat : n + 1 \in Nat OBVIOUS
<1>2. <<>> \in Seq(Todos) BY EmptySeq
<1>3. Over(f) \in Runs BY <1>1, <1>2 DEF Over, Runs
<1>4. Over(f).pc = "over" /\ Over(f).finish = f /\ Over(f).actions = run.actions
  BY DEF Over, Runs
<1>5. QED BY <1>3, <1>4

LEMMA SyncedFields ==
    ASSUME DataTyped, run \in Runs
    PROVE  /\ Synced \in [todos : Todos, last : Todos, draft : Nat, selected : Nat]
           /\ Synced.todos = run.obs
BY RunFields DEF DataTyped, Synced

(* What a turn makes of the data model once it ends the run. *)
LEMMA RunEnds ==
    ASSUME UiInv, run.pc = "turn", DataTyped', UNCHANGED todos, data'.todos = todos,
           NEW f \in Finishes \ {"none"}, NEW a \in {0, 1},
           run' \in Runs, run'.pc = "over", run'.finish = f, run'.actions = a,
           f = "completed" => status' # "triggering"
    PROVE  run'.pc # "none" /\ RunFits' /\ DataFits'
<1>1. RunFits' BY DEF RunFits
<1>2. DataFits' BY DEF DataFits
<1>3. QED BY <1>1, <1>2

LEMMA ListStays == ASSUME ListFits, UNCHANGED envVars PROVE ListFits'
BY DEF ListFits, envVars

LEMMA TurnBegins ==
    ASSUME UiInv, run.pc = "turn"
    PROVE  /\ ListFits /\ DataTyped /\ run \in Runs /\ run.obs = todos /\ todos \in Todos
           /\ status \in Statuses /\ pending \in Seq({NoBinding, "todos", "last"})
           /\ run.actions \in {0, 1}
<1>1. ListFits /\ DataTyped /\ run \in Runs /\ RunFits BY DEF UiInv, ServerTyped
<1>2. run.actions \in Nat BY <1>1, RunFields
<1>3. run.actions <= 1 /\ run.obs = todos BY <1>1 DEF RunFits
<1>4. QED BY <1>1, <1>2, <1>3 DEF ListFits, DataTyped

LEMMA RenderIsKept == ASSUME UiInv, RenderTurn PROVE Settling'
<1>1. /\ run.pc = "turn" /\ run.inbox = <<>> /\ data' = Synced /\ run' = Over("completed")
      /\ UNCHANGED <<envVars, status, pending>> /\ UNCHANGED todos
  BY DEF RenderTurn, CommandTurn, HasAnswer, envVars
<1>2. /\ ListFits /\ DataTyped /\ run \in Runs /\ run.obs = todos
      /\ status \in Statuses /\ pending \in Seq({NoBinding, "todos", "last"})
      /\ run.actions \in {0, 1}
  BY <1>1, TurnBegins
<1>3. "completed" \in Finishes \ {"none"} BY DEF Finishes, Statuses
<1>4. /\ run' \in Runs /\ run'.pc = "over" /\ run'.finish = "completed"
      /\ run'.actions = run.actions
  BY <1>1, <1>2, <1>3, OverFields
<1>5. DataTyped' /\ data'.todos = todos BY <1>1, <1>2, SyncedFields DEF DataTyped
<1>6. status' # "triggering" BY <1>1 DEF UiInv, DataFits
<1>7. run'.pc # "none" /\ RunFits' /\ DataFits'
  BY <1>1, <1>2, <1>3, <1>4, <1>5, <1>6, RunEnds
<1>8. QED BY <1>1, <1>2, <1>4, <1>5, <1>7, ListStays DEF Settling

LEMMA SetIsKept == ASSUME UiInv, SetTurn PROVE Settling'
<1>1. /\ run.pc = "turn" /\ run.inbox = <<>> /\ run.cmd.kind = "set"
      /\ UNCHANGED <<envVars, pending>> /\ UNCHANGED todos
  BY DEF SetTurn, CommandTurn, HasAnswer, envVars
<1>2. /\ ListFits /\ DataTyped /\ run \in Runs /\ run.obs = todos
      /\ status \in Statuses /\ pending \in Seq({NoBinding, "todos", "last"})
      /\ run.actions \in {0, 1}
  BY <1>1, TurnBegins
<1>3. /\ "completed" \in Finishes \ {"none"} /\ "ParticipantError" \in Finishes \ {"none"}
      /\ "ready" \in Statuses
  BY DEF Finishes, Statuses
<1>4. /\ Synced \in [todos : Todos, last : Todos, draft : Nat, selected : Nat]
      /\ Synced.todos = todos
  BY <1>2, SyncedFields
<1>5. PICK d \in [todos : Todos, last : Todos, draft : Nat, selected : Nat] : d = Synced
  BY <1>4
<1>6. CASE run.cmd.node \in Fields
  <2>1. /\ data' = [d EXCEPT ![run.cmd.node] = run.cmd.value] /\ status' = "ready"
        /\ run' = Over("completed")
    BY <1>5, <1>6 DEF SetTurn
  <2>2. run.cmd.value \in Nat /\ run.cmd.node \in {"draft", "selected"}
    BY <1>1, <1>2, <1>6, RunFields DEF Commands, Render, Unsupported, Set, Click, Fields
  <2>3. /\ data' \in [todos : Todos, last : Todos, draft : Nat, selected : Nat]
        /\ data'.todos = todos
    <3>1. CASE run.cmd.node = "draft" BY <1>4, <1>5, <2>1, <2>2, <3>1
    <3>2. CASE run.cmd.node = "selected" BY <1>4, <1>5, <2>1, <2>2, <3>2
    <3>3. QED BY <2>2, <3>1, <3>2
  <2>4. DataTyped' BY <1>1, <1>2, <1>3, <2>1, <2>3 DEF DataTyped
  <2>5. /\ run' \in Runs /\ run'.pc = "over" /\ run'.finish = "completed"
        /\ run'.actions = run.actions
    BY <1>2, <1>3, <2>1, OverFields
  <2>6. run'.pc # "none" /\ RunFits' /\ DataFits'
    BY <1>1, <1>2, <1>3, <2>1, <2>3, <2>4, <2>5, RunEnds
  <2>7. QED BY <1>1, <1>2, <2>4, <2>5, <2>6, ListStays DEF Settling
<1>7. CASE run.cmd.node \notin Fields
  <2>1. data' = Synced /\ run' = Over("ParticipantError") /\ UNCHANGED status
    BY <1>7 DEF SetTurn
  <2>2. DataTyped' /\ data'.todos = todos BY <1>1, <1>2, <1>4, <2>1 DEF DataTyped
  <2>3. /\ run' \in Runs /\ run'.pc = "over" /\ run'.finish = "ParticipantError"
        /\ run'.actions = run.actions
    BY <1>2, <1>3, <2>1, OverFields
  <2>4. run'.pc # "none" /\ RunFits' /\ DataFits'
    BY <1>1, <1>2, <1>3, <2>2, <2>3, RunEnds
  <2>5. QED BY <1>1, <1>2, <2>2, <2>3, <2>4, ListStays DEF Settling
<1>8. QED BY <1>6, <1>7

LEMMA ClickIsKept == ASSUME UiInv, ClickTurn PROVE Settling'
<1> DEFINE b == run.cmd.node
<1>1. /\ run.pc = "turn" /\ run.inbox = <<>> /\ data' = Synced
  BY DEF ClickTurn, CommandTurn, HasAnswer
<1>2. /\ ListFits /\ DataTyped /\ run \in Runs /\ run.obs = todos
      /\ status \in Statuses /\ pending \in Seq({NoBinding, "todos", "last"})
  BY <1>1, TurnBegins
<1>3. run.actions = 0 /\ run.steps = 0 BY <1>1 DEF UiInv, RunFits
<1>4. /\ "ParticipantError" \in Finishes \ {"none"} /\ "EnvironmentError" \in Finishes \ {"none"}
      /\ "triggering" \in Statuses
  BY DEF Finishes, Statuses
<1>5. /\ data' \in [todos : Todos, last : Todos, draft : Nat, selected : Nat]
      /\ data'.todos = todos
  BY <1>1, <1>2, SyncedFields
<1>6. CASE b \notin Buttons \/ ~MapsAction(b)
  <2>1. run' = Over("ParticipantError") /\ UNCHANGED <<envVars, status, pending>>
    BY <1>6 DEF ClickTurn
  <2>2. DataTyped' /\ UNCHANGED todos BY <1>2, <1>5, <2>1 DEF DataTyped, envVars
  <2>3. /\ run' \in Runs /\ run'.pc = "over" /\ run'.finish = "ParticipantError"
        /\ run'.actions = 0
    BY <1>2, <1>3, <1>4, <2>1, OverFields
  <2>4. run'.pc # "none" /\ RunFits' /\ DataFits'
    BY <1>1, <1>4, <1>5, <2>2, <2>3, RunEnds
  <2>5. QED BY <1>2, <2>1, <2>2, <2>3, <2>4, ListStays DEF Settling
<1>7. CASE b \in Buttons /\ MapsAction(b)
  <2>1. pending' = Append(pending, ResultOf[b]) /\ status' = "triggering"
    BY <1>7 DEF ClickTurn
  <2>2. ResultOf[b] \in {NoBinding, "todos", "last"}
    BY <1>7, UiAssumption DEF UiAssumption
  <2>3. pending' \in Seq({NoBinding, "todos", "last"})
    BY <1>2, <2>1, <2>2, AppendProperties
  <2>4. DataTyped' BY <1>4, <1>5, <2>1, <2>3 DEF DataTyped
  <2>5. ~(run.actions + 1 > MaxRunActions) BY <1>3 DEF MaxRunActions
  <2>6. CASE Refuses(ActionOf[b], Argument(b))
    <3>1. run' = [Over("EnvironmentError") EXCEPT !.actions = @ + 1] /\ UNCHANGED envVars
      BY <1>7, <2>5, <2>6 DEF ClickTurn
    <3>2. PICK o \in Runs : /\ o = Over("EnvironmentError") /\ o.pc = "over"
                            /\ o.finish = "EnvironmentError" /\ o.actions = 0
      BY <1>2, <1>3, <1>4, OverFields
    <3>3. run' = [o EXCEPT !.actions = 1] BY <3>1, <3>2 DEF Runs
    <3>4. /\ run' \in Runs /\ run'.pc = "over" /\ run'.finish = "EnvironmentError"
          /\ run'.actions = 1
      BY <3>2, <3>3 DEF Runs
    <3>5. UNCHANGED todos BY <3>1 DEF envVars
    <3>6. run'.pc # "none" /\ RunFits' /\ DataFits'
      BY <1>1, <1>4, <1>5, <2>4, <3>4, <3>5, RunEnds
    <3>7. QED BY <1>2, <2>4, <3>1, <3>4, <3>6, ListStays DEF Settling
  <2>7. CASE ~Refuses(ActionOf[b], Argument(b))
    <3>1. /\ PerformNow(ActionOf[b], Argument(b))
          /\ run' = [run EXCEPT !.pc = "poll", !.steps = @ + 1, !.actions = @ + 1,
                                !.inbox = <<>>]
      BY <1>7, <2>5, <2>7 DEF ClickTurn
    <3>2. <<>> \in Seq(Todos) BY EmptySeq
    <3>3. run' \in Runs /\ run'.pc = "poll" /\ run'.steps = 1 /\ run'.actions = 1
      <4>1. run' = [run EXCEPT !.pc = "poll", !.steps = 1, !.actions = 1, !.inbox = <<>>]
        BY <1>2, <1>3, <3>1 DEF Runs
      <4>2. QED BY <1>2, <3>2, <4>1 DEF Runs
    <3>4. ListFits' BY <1>2, <3>1, ActionKeepsList
    <3>5. RunFits' BY <3>3 DEF RunFits
    <3>6. DataFits' BY <3>3 DEF DataFits
    <3>7. QED BY <2>4, <3>3, <3>4, <3>5, <3>6 DEF Settling
  <2>8. QED BY <2>6, <2>7
<1>8. QED BY <1>6, <1>7

LEMMA PollIsKept == ASSUME UiInv, Poll PROVE Settling'
<1>1. run.pc = "poll" /\ UNCHANGED <<envVars, uiVars>> BY DEF Poll
<1>2. ListFits /\ DataTyped /\ run \in Runs BY DEF UiInv, ServerTyped
<1>3. run.steps = 1 /\ run.actions <= 1 BY <1>1 DEF UiInv, RunFits
<1>4. run' = [run EXCEPT !.pc = "turn", !.inbox = <<todos>>, !.obs = todos]
  BY <1>3 DEF Poll, MaxRunSteps
<1>5. todos \in Todos /\ <<todos>> \in Seq(Todos) /\ <<todos>> # <<>> BY <1>2 DEF ListFits
<1>6. /\ run' \in Runs /\ run'.pc = "turn" /\ run'.inbox = <<todos>> /\ run'.obs = todos
      /\ run'.actions = run.actions
  BY <1>2, <1>4, <1>5 DEF Runs
<1>7. UNCHANGED <<todos, data, status, pending>> BY <1>1 DEF envVars, uiVars
<1>8. ListFits' BY <1>1, <1>2, ListStays
<1>9. DataTyped' BY <1>2, <1>7 DEF DataTyped
<1>10. RunFits' BY <1>3, <1>5, <1>6, <1>7 DEF RunFits
<1>11. DataFits' BY <1>5, <1>6 DEF DataFits
<1>12. QED BY <1>6, <1>8, <1>9, <1>10, <1>11 DEF Settling

LEMMA AnswerIsKept == ASSUME UiInv, AnswerTurn PROVE Settling'
<1> DEFINE path == IF pending = <<>> THEN NoBinding ELSE Head(pending)
<1>1. /\ run.pc = "turn" /\ run.inbox # <<>> /\ status' = "ready"
      /\ data' = IF path = NoBinding THEN Synced ELSE [Synced EXCEPT ![path] = Head(run.inbox)]
      /\ pending' = (IF pending = <<>> THEN <<>> ELSE Tail(pending))
      /\ run' = Over("completed") /\ UNCHANGED envVars /\ UNCHANGED todos
  BY DEF AnswerTurn, HasAnswer, envVars
<1>2. /\ ListFits /\ DataTyped /\ run \in Runs /\ run.obs = todos /\ todos \in Todos
      /\ pending \in Seq({NoBinding, "todos", "last"}) /\ run.actions \in {0, 1}
  BY <1>1, TurnBegins
<1>3. Head(run.inbox) = todos BY <1>1 DEF UiInv, RunFits
<1>4. "completed" \in Finishes \ {"none"} /\ "ready" \in Statuses BY DEF Finishes, Statuses
<1>5. /\ path \in {NoBinding, "todos", "last"}
      /\ pending' \in Seq({NoBinding, "todos", "last"})
  <2>1. CASE pending = <<>> BY <1>1, <2>1, EmptySeq
  <2>2. CASE pending # <<>>
    <3>1. Head(pending) \in {NoBinding, "todos", "last"}
          /\ Tail(pending) \in Seq({NoBinding, "todos", "last"})
      BY <1>2, <2>2, HeadTailProperties
    <3>2. QED BY <1>1, <2>2, <3>1
  <2>3. QED BY <2>1, <2>2
<1>6. PICK d \in [todos : Todos, last : Todos, draft : Nat, selected : Nat] :
         d = Synced /\ d.todos = todos
  BY <1>2, SyncedFields
<1>7. /\ data' \in [todos : Todos, last : Todos, draft : Nat, selected : Nat]
      /\ data'.todos = todos
  <2>1. CASE path = NoBinding BY <1>1, <1>6, <2>1
  <2>2. CASE path = "todos"
    <3>1. data' = [d EXCEPT !["todos"] = todos]
      BY <1>1, <1>3, <1>6, <2>2 DEF NoBinding
    <3>2. QED BY <1>2, <3>1
  <2>3. CASE path = "last"
    <3>1. data' = [d EXCEPT !["last"] = todos]
      BY <1>1, <1>3, <1>6, <2>3 DEF NoBinding
    <3>2. QED BY <1>2, <1>6, <3>1
  <2>4. QED BY <1>5, <2>1, <2>2, <2>3
<1>8. DataTyped' BY <1>1, <1>4, <1>5, <1>7 DEF DataTyped
<1>9. /\ run' \in Runs /\ run'.pc = "over" /\ run'.finish = "completed"
      /\ run'.actions = run.actions
  BY <1>1, <1>2, <1>4, OverFields
<1>10. run'.pc # "none" /\ RunFits' /\ DataFits'
  BY <1>1, <1>2, <1>4, <1>7, <1>8, <1>9, RunEnds
<1>11. QED BY <1>1, <1>2, <1>8, <1>9, <1>10, ListStays DEF Settling

(* A run changes nothing but the environment, the data model and itself.   *)
LEMMA RunStepIsKept == ASSUME UiInv, RunStep PROVE UiInv'
<1>1. Settling' BY RenderIsKept, SetIsKept, ClickIsKept, PollIsKept, AnswerIsKept DEF RunStep
<1>2. UNCHANGED <<stream, replies, shown, created, holder, posts, version, posted>>
  BY DEF RunStep, shellVars
<1>3. run.pc # "none"
  BY DEF RunStep, RenderTurn, SetTurn, ClickTurn, CommandTurn, Poll, AnswerTurn
<1>4. ServerTyped' BY <1>1, <1>2 DEF UiInv, ServerTyped, Settling
<1>5. ShellsTyped' BY <1>2 DEF UiInv, ShellsTyped
<1>6. MutexFits' BY <1>2, <1>3 DEF UiInv, MutexFits
<1>7. StreamsFit' BY <1>2 DEF UiInv, StreamsFit, Current
<1>8. QED BY <1>1, <1>4, <1>5, <1>6, <1>7 DEF UiInv, Settling

(***************************************************************************)
(* The server and its requests                                             *)
(***************************************************************************)
LEMMA RunRests ==
    ASSUME UiInv, UNCHANGED <<envVars, uiVars, created, run>>
    PROVE  ListFits' /\ DataTyped' /\ RunFits' /\ DataFits'
<1>1. UNCHANGED <<todos, nextId, data, status, pending, created, run>> BY DEF envVars, uiVars
<1>2. QED BY <1>1 DEF UiInv, ListFits, DataTyped, RunFits, DataFits

LEMMA CreateIsKept == ASSUME UiInv, CreateSession PROVE UiInv'
<1>1. /\ ~created /\ created' = TRUE /\ todos' = InitialTodos /\ nextId' = 3
      /\ UNCHANGED <<status, pending, stream, replies, shown, run, holder, posts, version, posted>>
  BY DEF CreateSession, shellVars
<1>2. run.pc = "none" /\ holder = Free BY <1>1 DEF UiInv, MutexFits
<1>3. /\ [id |-> 1, completed |-> FALSE] \in Todo /\ [id |-> 2, completed |-> TRUE] \in Todo
  BY DEF Todo
<1>4. /\ InitialTodos \in Seq(Todo) /\ DOMAIN InitialTodos = 1 .. 2
      /\ InitialTodos[1].id = 1 /\ InitialTodos[2].id = 2
  BY <1>3 DEF InitialTodos
<1>5. ListFits'
  <2>1. todos' \in Todos BY <1>1, <1>4 DEF Todos, Todo
  <2>2. \A i \in 1 .. 2 : i = 1 \/ i = 2 OBVIOUS
  <2>3. QED BY <1>1, <1>4, <2>1, <2>2 DEF ListFits
<1>6. PICK input \in {0, 1} :
         data' = [data EXCEPT !.todos = InitialTodos, !.draft = input, !.selected = input]
  BY DEF CreateSession
<1>7. DataTyped' /\ data'.todos = todos'
  <2>1. data \in [todos : Todos, last : Todos, draft : Nat, selected : Nat]
    BY DEF UiInv, DataTyped
  <2>2. InitialTodos \in Todos BY <1>4 DEF Todos, Todo
  <2>3. /\ data' \in [todos : Todos, last : Todos, draft : Nat, selected : Nat]
        /\ data'.todos = InitialTodos
    <3>1. PICK d \in [todos : Todos, last : Todos, draft : Nat, selected : Nat] : d = data
      BY <2>1
    <3>2. data' = [d EXCEPT !.todos = InitialTodos, !.draft = input, !.selected = input]
      BY <1>6, <3>1
    <3>3. input \in Nat OBVIOUS
    <3>4. QED BY <2>2, <3>2, <3>3
  <2>4. QED BY <1>1, <2>3 DEF UiInv, DataTyped
<1>8. ServerTyped' BY <1>1 DEF UiInv, ServerTyped
<1>9. ShellsTyped' /\ StreamsFit' BY <1>1 DEF UiInv, ShellsTyped, StreamsFit, Current
<1>10. MutexFits' BY <1>1, <1>2 DEF UiInv, MutexFits
<1>11. RunFits' BY <1>1, <1>2 DEF UiInv, RunFits
<1>12. DataFits' BY <1>1, <1>2, <1>7 DEF UiInv, DataFits
<1>13. QED BY <1>5, <1>7, <1>8, <1>9, <1>10, <1>11, <1>12 DEF UiInv

LEMMA PostIsKept ==
    ASSUME UiInv, NEW s \in Shells, NEW cmd \in Commands, Post(s, cmd) PROVE UiInv'
<1>1. /\ created /\ posted < MaxPosts /\ posted' = posted + 1
      /\ posts' = posts \cup {[id |-> posted', shell |-> s, cmd |-> cmd]}
      /\ UNCHANGED <<stream, replies, shown, created, run, holder, version>>
      /\ UNCHANGED <<envVars, uiVars, created, run>>
  BY DEF Post, shellVars
<1>2. ServerTyped'
  <2>1. posted \in 0 .. MaxPosts /\ MaxPosts \in Nat
    BY UiAssumption DEF UiInv, ServerTyped, UiAssumption
  <2>2. posted' \in 1 .. MaxPosts BY <1>1, <2>1
  <2>3. posted' \in 0 .. MaxPosts BY <2>1, <2>2
  <2>4. [id |-> posted', shell |-> s, cmd |-> cmd]
           \in [id : 1 .. MaxPosts, shell : Shells, cmd : Commands]
    BY <2>2
  <2>5. QED BY <1>1, <2>3, <2>4 DEF UiInv, ServerTyped
<1>3. ShellsTyped' /\ StreamsFit' BY <1>1 DEF UiInv, ShellsTyped, StreamsFit, Current
<1>4. MutexFits' BY <1>1 DEF UiInv, MutexFits
<1>5. QED BY <1>1, <1>2, <1>3, <1>4, RunRests DEF UiInv

(* A run starts with the mutex, at its first turn, from the environment as *)
(* it is.                                                                  *)
LEMMA HandleIsKept ==
    ASSUME UiInv, NEW p \in posts, HandleEvent(p) PROVE UiInv'
<1>1. /\ holder = Free /\ posts' = posts \ {p}
      /\ UNCHANGED <<stream, replies, shown, created, version, posted>>
      /\ UNCHANGED <<todos, nextId, data, status, pending>>
  BY DEF HandleEvent, shellVars, envVars, uiVars
<1>2. /\ p.shell \in Shells /\ p.cmd \in Commands /\ Free \notin Shells
      /\ todos \in Todos /\ run \in Runs
  BY UiAssumption DEF UiInv, ServerTyped, ListFits, UiAssumption
<1>3. run.pc = "none" /\ \A s \in Shells : ~stream[s].connecting
  BY <1>1, <1>2 DEF UiInv, MutexFits
<1>4. created BY DEF UiInv, MutexFits
<1>5. CASE p.cmd.kind = "unsupported"
  <2>1. UNCHANGED <<holder, run>> /\ UNCHANGED <<envVars, uiVars, created, run>>
    BY <1>5 DEF HandleEvent
  <2>2. ServerTyped' BY <1>1, <2>1 DEF UiInv, ServerTyped
  <2>3. ShellsTyped' /\ StreamsFit' BY <1>1 DEF UiInv, ShellsTyped, StreamsFit, Current
  <2>4. MutexFits' BY <1>1, <2>1 DEF UiInv, MutexFits
  <2>5. QED BY <2>1, <2>2, <2>3, <2>4, RunRests DEF UiInv
<1>6. CASE p.cmd.kind # "unsupported"
  <2>1. holder' = p.shell /\ run' = StartRun(p.cmd) BY <1>6 DEF HandleEvent
  <2>2. NoRun \in Runs /\ NoRun.steps = 0 /\ NoRun.actions = 0 /\ NoRun.inbox = <<>>
    <3>1. <<>> \in Seq(Todos) /\ <<>> \in Todos BY EmptySeq DEF Todos
    <3>2. Render \in Commands BY DEF Commands
    <3>3. QED BY <3>1, <3>2 DEF NoRun, Runs, Finishes
  <2>3. PICK r \in Runs : r = NoRun BY <2>2
  <2>4. run' = [r EXCEPT !.pc = "turn", !.cmd = p.cmd, !.obs = todos]
    BY <2>1, <2>3 DEF StartRun
  <2>5. /\ run' \in Runs /\ run'.pc = "turn" /\ run'.obs = todos
        /\ run'.steps = 0 /\ run'.actions = 0 /\ run'.inbox = <<>>
    BY <1>2, <2>2, <2>3, <2>4 DEF Runs
  <2>6. ListFits' /\ DataTyped' BY <1>1 DEF UiInv, ListFits, DataTyped
  <2>7. ServerTyped' BY <1>1, <1>2, <2>1, <2>5 DEF UiInv, ServerTyped
  <2>8. ShellsTyped' /\ StreamsFit' BY <1>1 DEF UiInv, ShellsTyped, StreamsFit, Current
  <2>9. MutexFits' BY <1>1, <1>2, <1>3, <1>4, <2>1 DEF MutexFits
  <2>10. RunFits' BY <1>1, <2>5 DEF RunFits
  <2>11. status # "triggering" BY <1>3 DEF UiInv, DataFits
  <2>12. DataFits' BY <1>1, <2>5, <2>11 DEF DataFits
  <2>13. QED BY <2>6, <2>7, <2>8, <2>9, <2>10, <2>12 DEF UiInv
<1>7. QED BY <1>5, <1>6

(* What a receiver gets ends with what was sent last.                      *)
LEMMA ReceivedEnds ==
    ASSUME NEW queue \in Seq(Nat), Len(queue) <= ChannelSize, NEW v \in Nat,
           \A i \in 1 .. Len(queue) : queue[i] <= v
    PROVE  /\ Received(queue, v + 1) \in Seq(Nat)
           /\ Len(Received(queue, v + 1)) <= ChannelSize
           /\ Received(queue, v + 1) # <<>>
           /\ Received(queue, v + 1)[Len(Received(queue, v + 1))] = v + 1
           /\ \A i \in 1 .. Len(Received(queue, v + 1)) : Received(queue, v + 1)[i] <= v + 1
<1>1. ChannelSize \in Nat \ {0} BY UiAssumption DEF UiAssumption
<1>2. Len(queue) \in Nat /\ v + 1 \in Nat BY LenProperties
<1>3. \A i \in 1 .. Len(queue) : queue[i] \in Nat BY ElementOfSeq
<1>4. ASSUME NEW kept \in Seq(Nat), Len(kept) < ChannelSize,
             \A i \in 1 .. Len(kept) : kept[i] <= v, Received(queue, v + 1) = Append(kept, v + 1)
      PROVE  /\ Received(queue, v + 1) \in Seq(Nat)
             /\ Len(Received(queue, v + 1)) <= ChannelSize
             /\ Received(queue, v + 1) # <<>>
             /\ Received(queue, v + 1)[Len(Received(queue, v + 1))] = v + 1
             /\ \A i \in 1 .. Len(Received(queue, v + 1)) : Received(queue, v + 1)[i] <= v + 1
  <2> DEFINE longer == Append(kept, v + 1)
  <2>1. Len(kept) \in Nat /\ \A i \in 1 .. Len(kept) : kept[i] \in Nat
    BY LenProperties, ElementOfSeq
  <2>2. /\ longer \in Seq(Nat) /\ longer # <<>> /\ Len(longer) = Len(kept) + 1
        /\ \A i \in 1 .. Len(kept) : longer[i] = kept[i]
        /\ longer[Len(kept) + 1] = v + 1
    <3>1. PICK w \in Nat : w = v + 1 BY <1>2
    <3>2. /\ Append(kept, w) \in Seq(Nat) /\ Len(Append(kept, w)) = Len(kept) + 1
          /\ \A i \in 1 .. Len(kept) : Append(kept, w)[i] = kept[i]
          /\ Append(kept, w)[Len(kept) + 1] = w
      BY AppendProperties
    <3>3. PICK l \in Seq(Nat) : l = Append(kept, w) BY <3>2
    <3>4. l # <<>>
      <4>1. Len(l) # 0 BY <2>1, <3>2, <3>3
      <4>2. QED BY <4>1, EmptySeq
    <3>5. longer = l BY <3>1, <3>3
    <3>6. QED BY <3>1, <3>2, <3>3, <3>4, <3>5
  <2> HIDE DEF longer
  <2>3. Len(longer) <= ChannelSize BY <1>1, <1>4, <2>1, <2>2
  <2>4. ASSUME NEW i \in 1 .. Len(longer) PROVE longer[i] <= v + 1
    <3>1. i \in 1 .. Len(kept) \/ i = Len(kept) + 1 BY <2>1, <2>2
    <3>2. CASE i \in 1 .. Len(kept)
      <4>1. kept[i] \in Nat /\ kept[i] <= v BY <1>4, <2>1, <3>2
      <4>2. longer[i] = kept[i] BY <2>2, <3>2
      <4>3. QED BY <4>1, <4>2
    <3>3. CASE i = Len(kept) + 1 BY <2>2, <3>3
    <3>4. QED BY <3>1, <3>2, <3>3
  <2>5. Received(queue, v + 1) = longer BY <1>4 DEF longer
  <2>6. QED BY <2>2, <2>3, <2>4, <2>5
<1>5. CASE Len(queue) < ChannelSize
  <2>1. Received(queue, v + 1) = Append(queue, v + 1) BY <1>5 DEF Received
  <2>2. QED BY <1>4, <1>5, <2>1
<1>6. CASE ~(Len(queue) < ChannelSize)
  <2>1. Received(queue, v + 1) = Append(Tail(queue), v + 1) BY <1>6 DEF Received
  <2>2. queue # <<>> BY <1>1, <1>6, EmptySeq
  <2>3. /\ Tail(queue) \in Seq(Nat) /\ Len(Tail(queue)) = Len(queue) - 1
        /\ \A i \in 1 .. Len(Tail(queue)) : Tail(queue)[i] = queue[i + 1]
    BY <2>2, HeadTailProperties
  <2>4. Len(Tail(queue)) < ChannelSize BY <1>1, <1>2, <2>3
  <2>5. \A i \in 1 .. Len(Tail(queue)) : i + 1 \in 1 .. Len(queue) BY <1>2, <2>3
  <2>6. \A i \in 1 .. Len(Tail(queue)) : Tail(queue)[i] <= v BY <2>3, <2>5
  <2>7. QED BY <1>4, <2>1, <2>3, <2>4, <2>6
<1>7. QED BY <1>5, <1>6

LEMMA ReplyIsKept == ASSUME UiInv, Reply PROVE UiInv'
<1>1. /\ run.pc = "over" /\ run' = NoRun /\ holder' = Free /\ version' = version + 1
      /\ status' = IF run.finish = "completed" THEN status ELSE run.finish
      /\ replies' = replies \cup {[shell |-> holder, version |-> version']}
      /\ UNCHANGED <<todos, nextId, data, pending, shown, created, posts, posted>>
  BY DEF Reply, envVars
<1>2. /\ run \in Runs /\ run.finish # "none" /\ version \in Nat
      /\ status \in Statuses /\ (status = "triggering" => run.finish # "completed")
  BY <1>1 DEF UiInv, ServerTyped, ShellsTyped, DataTyped, RunFits, DataFits
<1>3. /\ holder \in Shells /\ \A s \in Shells : ~stream[s].connecting
      /\ created /\ data.todos = todos
  BY <1>1 DEF UiInv, ServerTyped, MutexFits, DataFits
<1>4. run.finish \in Finishes BY <1>2, RunFields
<1>5. status' \in Statuses /\ status' # "triggering"
  BY <1>1, <1>2, <1>4 DEF Finishes, Statuses
<1>6. NoRun \in Runs /\ NoRun.pc = "none" /\ NoRun.actions = 0
  <2>1. <<>> \in Seq(Todos) /\ <<>> \in Todos BY EmptySeq DEF Todos
  <2>2. Render \in Commands BY DEF Commands
  <2>3. QED BY <2>1, <2>2 DEF NoRun, Runs, Finishes
<1>7. ListFits' /\ DataTyped' BY <1>1, <1>5 DEF UiInv, ListFits, DataTyped
<1>8. ServerTyped' BY <1>1, <1>6 DEF UiInv, ServerTyped
<1>9. RunFits' /\ DataFits' BY <1>1, <1>3, <1>5, <1>6 DEF RunFits, DataFits
<1>10. ASSUME NEW s \in Shells
       PROVE  /\ stream'[s] \in Streams /\ Len(stream'[s].queue) <= ChannelSize
              /\ ~stream'[s].connecting /\ Current(stream'[s], shown'[s], version')
  <2>1. PICK str \in Streams : str = stream[s] BY DEF UiInv, ShellsTyped
  <2>2. /\ str.queue \in Seq(Nat) /\ Len(str.queue) <= ChannelSize
        /\ \A i \in 1 .. Len(str.queue) : str.queue[i] <= version
        /\ ~str.connecting /\ Current(str, shown[s], version)
    BY <1>3, <2>1 DEF UiInv, ShellsTyped, StreamsFit, Current, Streams
  <2>3. CASE ~str.open
    <3>1. stream'[s] = str BY <2>1, <2>3 DEF Reply
    <3>2. \A i \in 1 .. Len(str.queue) : str.queue[i] <= version + 1
      <4>1. \A i \in 1 .. Len(str.queue) : str.queue[i] \in Nat BY <2>2, ElementOfSeq
      <4>2. QED BY <1>2, <2>2, <4>1
    <3>3. QED BY <1>1, <2>2, <2>3, <3>1, <3>2 DEF Current
  <2>4. CASE str.open
    <3>1. PICK queue : queue = Received(str.queue, version + 1) OBVIOUS
    <3>2. /\ queue \in Seq(Nat) /\ Len(queue) <= ChannelSize /\ queue # <<>>
          /\ queue[Len(queue)] = version + 1
          /\ \A i \in 1 .. Len(queue) : queue[i] <= version + 1
      BY <1>2, <2>2, <3>1, ReceivedEnds
    <3>3. stream'[s] = [str EXCEPT !.queue = queue]
      BY <1>1, <2>1, <2>4, <3>1 DEF Reply
    <3>4. /\ stream'[s] \in Streams /\ stream'[s].queue = queue
          /\ stream'[s].connecting = str.connecting
      BY <3>2, <3>3 DEF Streams
    <3>5. QED BY <1>1, <2>2, <3>2, <3>4 DEF Current
  <2>5. QED BY <2>3, <2>4
<1>11. StreamsFit' BY <1>10 DEF StreamsFit
<1>12. ShellsTyped'
  <2>1. version' \in Nat /\ 0 .. version \subseteq 0 .. version' /\ version' \in 0 .. version'
    BY <1>1, <1>2
  <2>2. stream' \in [Shells -> Streams]
    <3>1. stream' = [s \in Shells |->
                        IF stream[s].open
                        THEN [stream[s] EXCEPT !.queue = Received(@, version')] ELSE stream[s]]
      BY DEF Reply
    <3>2. QED BY <1>10, <3>1
  <2>3. replies' \subseteq [shell : Shells, version : 0 .. version']
    BY <1>1, <1>3, <2>1 DEF UiInv, ShellsTyped
  <2>4. shown' \in [Shells -> [version : 0 .. version', from : {"stream", "reply"}]]
    BY <1>1, <2>1 DEF UiInv, ShellsTyped
  <2>5. QED BY <1>10, <2>1, <2>2, <2>3, <2>4 DEF ShellsTyped
<1>13. MutexFits' BY <1>1, <1>3, <1>6, <1>10 DEF MutexFits
<1>14. QED BY <1>7, <1>8, <1>9, <1>11, <1>12, <1>13 DEF UiInv

(***************************************************************************)
(* Streams and displays                                                    *)
(***************************************************************************)

(* One shell's stream and display change.                                  *)
LEMMA ShellMoves ==
    ASSUME UiInv, NEW s \in Shells, NEW str \in Streams,
           NEW display \in [version : 0 .. version, from : {"stream", "reply"}],
           Len(str.queue) <= ChannelSize, Current(str, display, version),
           stream' = [stream EXCEPT ![s] = str], shown' = [shown EXCEPT ![s] = display],
           UNCHANGED version, replies' \subseteq replies
    PROVE  /\ ShellsTyped' /\ StreamsFit' /\ stream'[s] = str
           /\ \A q \in Shells : q # s => stream'[q] = stream[q]
<1>1. /\ stream \in [Shells -> Streams]
      /\ shown \in [Shells -> [version : 0 .. version, from : {"stream", "reply"}]]
      /\ replies \subseteq [shell : Shells, version : 0 .. version] /\ version \in Nat
  BY DEF UiInv, ShellsTyped
<1>2. /\ stream'[s] = str /\ shown'[s] = display
      /\ \A q \in Shells : q # s => stream'[q] = stream[q] /\ shown'[q] = shown[q]
  BY <1>1
<1>3. /\ stream' \in [Shells -> Streams]
      /\ shown' \in [Shells -> [version : 0 .. version, from : {"stream", "reply"}]]
  BY <1>1
<1>4. \A q \in Shells : Len(stream'[q].queue) <= ChannelSize
  BY <1>2 DEF UiInv, ShellsTyped
<1>5. ShellsTyped' BY <1>1, <1>3, <1>4 DEF ShellsTyped
<1>6. \A q \in Shells : Current(stream'[q], shown'[q], version)
  BY <1>2 DEF UiInv, StreamsFit
<1>7. StreamsFit' BY <1>6 DEF StreamsFit
<1>8. QED BY <1>2, <1>5, <1>7

LEMMA DisplayStays ==
    ASSUME UiInv, NEW s \in Shells
    PROVE  /\ shown = [shown EXCEPT ![s] = shown[s]]
           /\ shown[s] \in [version : 0 .. version, from : {"stream", "reply"}]
BY DEF UiInv, ShellsTyped

LEMMA StreamFields ==
    ASSUME UiInv, NEW s \in Shells
    PROVE  /\ stream[s] \in Streams /\ stream[s].queue \in Seq(Nat) /\ stream[s].last \in Nat
           /\ stream[s].open \in BOOLEAN /\ stream[s].connecting \in BOOLEAN
           /\ Len(stream[s].queue) <= ChannelSize /\ Current(stream[s], shown[s], version)
           /\ version \in Nat
BY DEF UiInv, ShellsTyped, StreamsFit, Streams

LEMMA ServerRests ==
    ASSUME UiInv, UNCHANGED <<created, run, posts, posted>>, holder' \in Shells \cup {Free}
    PROVE  ServerTyped'
BY DEF UiInv, ServerTyped

LEMMA FetchIsKept == ASSUME UiInv, NEW s \in Shells, Fetch(s) PROVE UiInv'
<1>1. /\ replies' = replies \cup {[shell |-> s, version |-> version]}
      /\ UNCHANGED <<stream, shown, created, run, holder, posts, version, posted>>
      /\ UNCHANGED <<envVars, uiVars, created, run>>
  BY DEF Fetch
<1>2. [shell |-> s, version |-> version] \in [shell : Shells, version : 0 .. version]
  BY DEF UiInv, ShellsTyped
<1>3. ShellsTyped' /\ StreamsFit' BY <1>1, <1>2 DEF UiInv, ShellsTyped, StreamsFit
<1>4. ServerTyped' /\ MutexFits' BY <1>1 DEF UiInv, ServerTyped, MutexFits
<1>5. QED BY <1>1, <1>3, <1>4, RunRests DEF UiInv

(* The stream that connects holds the mutex and the current snapshot.      *)
LEMMA ConnectIsKept == ASSUME UiInv, NEW s \in Shells, Connect(s) PROVE UiInv'
<1>1. /\ created /\ holder = Free /\ holder' = s
      /\ UNCHANGED <<replies, shown, created, run, posts, version, posted>>
      /\ UNCHANGED <<envVars, uiVars, created, run>>
  BY DEF Connect
<1>2. version \in Nat /\ ChannelSize \in Nat \ {0} /\ Free \notin Shells
  BY UiAssumption DEF UiInv, ShellsTyped, UiAssumption
<1>3. PICK sent \in Seq(Nat) : /\ sent = <<version>> /\ Len(sent) = 1 /\ sent[1] = version
                               /\ sent # <<>>
  <2>1. <<version>> \in Seq(Nat) BY <1>2
  <2>2. Len(<<version>>) = 1 /\ <<version>>[1] = version /\ <<version>> # <<>> OBVIOUS
  <2>3. QED BY <2>1, <2>2
<1>4. PICK closed \in Streams : closed = Closed /\ ~closed.open
  <2>1. <<>> \in Seq(Nat) BY EmptySeq
  <2>2. Closed \in Streams /\ ~Closed.open BY <2>1 DEF Closed, Streams
  <2>3. QED BY <2>2
<1>5. PICK str \in Streams : str = [closed EXCEPT !.connecting = TRUE, !.queue = sent]
  BY DEF Streams
<1>6. str.queue = sent /\ ~str.open /\ stream' = [stream EXCEPT ![s] = str]
      /\ Len(str.queue) <= ChannelSize /\ Current(str, shown[s], version)
  <2>1. str.queue = sent /\ ~str.open BY <1>4, <1>5 DEF Streams
  <2>2. stream' = [stream EXCEPT ![s] = str] BY <1>3, <1>4, <1>5 DEF Connect
  <2>3. Current(str, shown[s], version) BY <1>2, <1>3, <2>1 DEF Current
  <2>4. QED BY <1>2, <1>3, <2>1, <2>2, <2>3
<1>7. /\ ShellsTyped' /\ StreamsFit' /\ stream'[s] = str
      /\ \A q \in Shells : q # s => stream'[q] = stream[q]
  BY <1>1, <1>6, ShellMoves, DisplayStays
<1>8. ServerTyped' BY <1>1, ServerRests
<1>9. MutexFits'
  <2>1. run.pc = "none" /\ \A q \in Shells : ~stream[q].connecting
    BY <1>1, <1>2 DEF UiInv, MutexFits
  <2>2. ~stream'[s].open BY <1>6, <1>7
  <2>3. \A q \in Shells : stream'[q].connecting => q = s BY <1>7, <2>1
  <2>4. QED BY <1>1, <1>2, <2>1, <2>2, <2>3 DEF MutexFits
<1>10. QED BY <1>1, <1>7, <1>8, <1>9, RunRests DEF UiInv

(* ... and goes on from it when the mutex is released.                     *)
LEMMA SubscribeIsKept == ASSUME UiInv, NEW s \in Shells, Subscribe(s) PROVE UiInv'
<1>1. /\ stream[s].connecting
      /\ stream' = [stream EXCEPT ![s].connecting = FALSE, ![s].open = TRUE]
      /\ holder' = (IF run.pc = "none" THEN Free ELSE holder)
      /\ UNCHANGED <<replies, shown, created, run, posts, version, posted>>
      /\ UNCHANGED <<envVars, uiVars, created, run>>
  BY DEF Subscribe
<1>2. PICK old \in Streams : /\ old = stream[s] /\ old.queue = <<version>>
                             /\ Len(old.queue) <= ChannelSize
  BY <1>1, StreamFields DEF Current
<1>3. PICK str \in Streams : str = [old EXCEPT !.connecting = FALSE, !.open = TRUE]
  BY <1>2 DEF Streams
<1>4. str.queue = <<version>> /\ str.open /\ ~str.connecting BY <1>2, <1>3 DEF Streams
<1>5. stream' = [stream EXCEPT ![s] = str] BY <1>1, <1>2, <1>3 DEF UiInv, ShellsTyped
<1>6. Current(str, shown[s], version)
  <2>1. version \in Nat BY StreamFields
  <2>2. Len(<<version>>) = 1 /\ <<version>>[1] = version /\ <<version>> # <<>> OBVIOUS
  <2>3. QED BY <1>4, <2>1, <2>2 DEF Current
<1>7. /\ ShellsTyped' /\ StreamsFit' /\ stream'[s] = str
      /\ \A q \in Shells : q # s => stream'[q] = stream[q]
  BY <1>1, <1>2, <1>4, <1>5, <1>6, ShellMoves, DisplayStays
<1>8. run.pc = "none" /\ holder = s /\ created
  BY <1>1, UiAssumption DEF UiInv, MutexFits, UiAssumption
<1>9. ServerTyped' BY <1>1, <1>8, ServerRests
<1>10. MutexFits' BY <1>1, <1>4, <1>7, <1>8 DEF UiInv, MutexFits
<1>11. QED BY <1>1, <1>7, <1>9, <1>10, RunRests DEF UiInv

LEMMA DisconnectIsKept == ASSUME UiInv, NEW s \in Shells, Disconnect(s) PROVE UiInv'
<1>1. /\ stream' = [stream EXCEPT ![s] = Closed]
      /\ UNCHANGED <<replies, shown, created, run, holder, posts, version, posted>>
      /\ UNCHANGED <<envVars, uiVars, created, run>>
  BY DEF Disconnect
<1>2. <<>> \in Seq(Nat) /\ Len(<<>>) = 0 /\ ChannelSize \in Nat
  BY EmptySeq, UiAssumption DEF UiAssumption
<1>3. Closed \in Streams /\ Len(Closed.queue) <= ChannelSize /\ ~Closed.connecting
  BY <1>2 DEF Closed, Streams
<1>4. Current(Closed, shown[s], version) BY <1>2 DEF Closed, Current
<1>5. /\ ShellsTyped' /\ StreamsFit' /\ stream'[s] = Closed
      /\ \A q \in Shells : q # s => stream'[q] = stream[q]
  BY <1>1, <1>3, <1>4, ShellMoves, DisplayStays
<1>6. ServerTyped' BY <1>1 DEF UiInv, ServerTyped
<1>7. MutexFits' BY <1>1, <1>3, <1>5 DEF UiInv, MutexFits
<1>8. QED BY <1>1, <1>5, <1>6, <1>7, RunRests DEF UiInv

LEMMA StreamArrivalIsKept == ASSUME UiInv, NEW s \in Shells, StreamArrives(s) PROVE UiInv'
<1>1. PICK old \in Streams :
         /\ old = stream[s] /\ old.open /\ old.queue # <<>> /\ ~old.connecting
         /\ old.queue \in Seq(Nat) /\ Len(old.queue) <= ChannelSize
         /\ Current(old, shown[s], version)
  BY StreamFields DEF StreamArrives, UiInv, MutexFits
<1>2. PICK v : v = Head(old.queue) OBVIOUS
<1>3. PICK rest : rest = Tail(old.queue) OBVIOUS
<1>4. /\ stream' = [stream EXCEPT ![s].queue = rest, ![s].last = v]
      /\ shown' = [shown EXCEPT ![s] = [version |-> v, from |-> "stream"]]
      /\ UNCHANGED <<replies, created, run, holder, posts, version, posted>>
      /\ UNCHANGED <<envVars, uiVars, created, run>>
  BY <1>1, <1>2, <1>3 DEF StreamArrives, UiInv, ShellsTyped
<1>5. /\ v \in Nat /\ v = old.queue[1] /\ rest \in Seq(Nat)
      /\ Len(rest) = Len(old.queue) - 1 /\ Len(old.queue) \in Nat \ {0}
      /\ \A i \in 1 .. Len(rest) : rest[i] = old.queue[i + 1]
  BY <1>1, <1>2, <1>3, HeadTailProperties, EmptySeq
<1>6. PICK str \in Streams : str = [old EXCEPT !.queue = rest, !.last = v]
  BY <1>5 DEF Streams
<1>7. str.queue = rest /\ str.last = v /\ str.open /\ ~str.connecting
  BY <1>1, <1>6 DEF Streams
<1>8. stream' = [stream EXCEPT ![s] = str] BY <1>1, <1>4, <1>6 DEF UiInv, ShellsTyped
<1> DEFINE display == [version |-> v, from |-> "stream"]
<1>9. ChannelSize \in Nat /\ version \in Nat
  BY UiAssumption, StreamFields DEF UiAssumption
<1>10. display \in [version : 0 .. version, from : {"stream", "reply"}]
  <2>1. v <= version BY <1>1, <1>5 DEF Current
  <2>2. v \in 0 .. version BY <1>5, <1>9, <2>1
  <2>3. QED BY <2>2
<1>11. Len(str.queue) <= ChannelSize BY <1>1, <1>5, <1>7, <1>9
<1>12. Current(str, display, version)
  <2>1. \A i \in 1 .. Len(rest) : i + 1 \in 1 .. Len(old.queue) BY <1>5
  <2>2. \A i \in 1 .. Len(rest) : rest[i] <= version BY <1>1, <1>5, <2>1 DEF Current
  <2>3. old.queue[Len(old.queue)] = version BY <1>1 DEF Current
  <2>4. CASE rest = <<>>
    <3>1. Len(old.queue) = 1 BY <1>5, <2>4, EmptySeq
    <3>2. v = version BY <1>5, <2>3, <3>1
    <3>3. QED BY <1>7, <2>2, <2>4, <3>2 DEF Current
  <2>5. CASE rest # <<>>
    <3>1. Len(rest) \in 1 .. Len(rest) BY <1>5, <2>5, EmptySeq
    <3>2. rest[Len(rest)] = version BY <1>5, <2>3, <3>1
    <3>3. QED BY <1>7, <2>2, <2>5, <3>2 DEF Current
  <2>6. QED BY <2>4, <2>5
<1>13. /\ ShellsTyped' /\ StreamsFit' /\ stream'[s] = str
       /\ \A q \in Shells : q # s => stream'[q] = stream[q]
  BY <1>4, <1>8, <1>10, <1>11, <1>12, ShellMoves
<1>14. ServerTyped' BY <1>4 DEF UiInv, ServerTyped
<1>15. MutexFits'
  <2>1. MutexFits BY DEF UiInv
  <2>2. ~stream'[s].connecting BY <1>7, <1>13
  <2>3. \A q \in Shells : stream'[q].connecting => stream'[q] = stream[q] BY <1>13, <2>2
  <2>4. ASSUME NEW q \in Shells, stream'[q].connecting
        PROVE  holder' = q /\ run'.pc = "none" /\ ~stream'[q].open
    <3>1. stream[q].connecting /\ stream'[q].open = stream[q].open BY <2>3, <2>4
    <3>2. holder = q /\ run.pc = "none" /\ ~stream[q].open BY <2>1, <3>1 DEF MutexFits
    <3>3. QED BY <1>4, <3>1, <3>2
  <2>5. run'.pc # "none" => holder' # Free BY <1>4, <2>1 DEF MutexFits
  <2>6. ~created' => run'.pc = "none" /\ holder' = Free /\ posts' = {}
    BY <1>4, <2>1 DEF MutexFits
  <2>7. QED BY <2>4, <2>5, <2>6 DEF MutexFits
<1>16. QED BY <1>4, <1>13, <1>14, <1>15, RunRests DEF UiInv

LEMMA ReplyArrivalIsKept == ASSUME UiInv, NEW r \in replies, ReplyArrives(r) PROVE UiInv'
<1> DEFINE display == [version |-> r.version, from |-> "reply"]
<1>1. /\ replies' = replies \ {r} /\ shown' = [shown EXCEPT ![r.shell] = display]
      /\ UNCHANGED <<stream, created, run, holder, posts, version, posted>>
      /\ UNCHANGED <<envVars, uiVars, created, run>>
  BY DEF ReplyArrives
<1>2. r.shell \in Shells /\ r.version \in 0 .. version BY DEF UiInv, ShellsTyped
<1>3. PICK s \in Shells : s = r.shell BY <1>2
<1>4. display \in [version : 0 .. version, from : {"stream", "reply"}] BY <1>2
<1>5. /\ stream[s] \in Streams /\ Len(stream[s].queue) <= ChannelSize
      /\ Current(stream[s], display, version)
  BY StreamFields DEF Current
<1>6. stream' = [stream EXCEPT ![s] = stream[s]] BY <1>1 DEF UiInv, ShellsTyped
<1>7. ShellsTyped' /\ StreamsFit' BY <1>1, <1>3, <1>4, <1>5, <1>6, ShellMoves
<1>8. ServerTyped' /\ MutexFits' BY <1>1 DEF UiInv, ServerTyped, MutexFits
<1>9. QED BY <1>1, <1>7, <1>8, RunRests DEF UiInv

(***************************************************************************)
(* What is proved of the sessions                                          *)
(***************************************************************************)
LEMMA UiBegins == UiInit => UiInv
<1> SUFFICES ASSUME UiInit PROVE UiInv OBVIOUS
<1>1. /\ <<>> \in Seq(Todos) /\ <<>> \in Todos /\ <<>> \in Seq(Nat)
      /\ <<>> \in Seq({NoBinding, "todos", "last"}) /\ Len(<<>>) = 0
  BY EmptySeq DEF Todos
<1>2. MaxPosts \in Nat /\ ChannelSize \in Nat BY UiAssumption DEF UiAssumption
<1>3. NoRun \in Runs /\ NoRun.pc = "none" /\ NoRun.actions = 0
  <2>1. Render \in Commands BY DEF Commands
  <2>2. QED BY <1>1, <2>1 DEF NoRun, Runs, Finishes
<1>4. Closed \in Streams /\ Closed.queue = <<>> /\ ~Closed.connecting /\ ~Closed.open
  BY <1>1 DEF Closed, Streams
<1>5. ListFits
  <2>1. DOMAIN todos = 1 .. 0 BY <1>1 DEF UiInit
  <2>2. QED BY <1>1, <2>1 DEF UiInit, ListFits
<1>6. DataTyped BY <1>1 DEF UiInit, DataTyped, Statuses, NoText, NoSelection
<1>7. ServerTyped
  <2>1. run \in Runs /\ created \in BOOLEAN /\ holder = Free /\ posts = {}
    BY <1>3 DEF UiInit
  <2>2. posted \in 0 .. MaxPosts BY <1>2 DEF UiInit
  <2>3. QED BY <2>1, <2>2 DEF ServerTyped
<1>8. ShellsTyped
  <2>1. [version |-> 0, from |-> "reply"] \in [version : 0 .. 0, from : {"stream", "reply"}]
    OBVIOUS
  <2>2. QED BY <1>1, <1>2, <1>4, <2>1 DEF UiInit, ShellsTyped
<1>9. MutexFits /\ RunFits /\ DataFits
  BY <1>3, <1>4 DEF UiInit, MutexFits, RunFits, DataFits
<1>10. StreamsFit BY <1>1, <1>4 DEF UiInit, StreamsFit, Current
<1>11. QED BY <1>5, <1>6, <1>7, <1>8, <1>9, <1>10 DEF UiInv

LEMMA UiStep == ASSUME UiInv, [UiNext]_vars PROVE UiInv'
<1>1. CASE UNCHANGED vars
  <2>1. /\ UNCHANGED <<stream, replies, shown, created, run, holder, posts, version, posted>>
        /\ UNCHANGED <<envVars, uiVars, created, run>>
    BY <1>1 DEF vars, shellVars
  <2>2. ServerTyped' /\ MutexFits' BY <2>1 DEF UiInv, ServerTyped, MutexFits
  <2>3. ShellsTyped' /\ StreamsFit' BY <2>1 DEF UiInv, ShellsTyped, StreamsFit
  <2>4. QED BY <2>1, <2>2, <2>3, RunRests DEF UiInv
<1>2. QED
  BY <1>1, CreateIsKept, RunStepIsKept, ReplyIsKept, HandleIsKept, ReplyArrivalIsKept,
     PostIsKept, FetchIsKept, ConnectIsKept, SubscribeIsKept, DisconnectIsKept,
     StreamArrivalIsKept
  DEF UiNext

(* The mutex serializes runs and connections, a run is always at one of    *)
(* its two turns, and every open stream ends with the current snapshot.    *)
THEOREM UiInvariant == UiSpec => []UiInv
BY UiBegins, UiStep, PTL DEF UiSpec

(* The variables have their types, a receiver never holds more than the    *)
(* channel, and no two items of the list share their number, whatever was  *)
(* added and deleted before (perform_now in state/todo.rs).                *)
THEOREM UiIsTyped == UiSpec => []UiTypeOK
BY UiInvariant, UiInvIsTyped, PTL

(* Whenever the mutex is free, which is when snapshots are taken, the data *)
(* model shows the environment's list and no action is announced that is   *)
(* not under way (sync_from_observation and status_from_result in          *)
(* session.rs).                                                            *)
THEOREM SessionsSettle == UiSpec => []SettledBetweenRuns
<1>1. UiInv => SettledBetweenRuns
  BY DEF UiInv, MutexFits, DataFits, SettledBetweenRuns
<1>2. QED BY <1>1, UiInvariant, PTL

(* One click performs at most one action, although the loop that handles   *)
(* it has its work item in every turn (respond in session.rs).             *)
THEOREM ClicksActOnce == UiSpec => []ClickActsOnce
<1>1. UiInv => ClickActsOnce BY DEF UiInv, RunFits, ClickActsOnce
<1>2. QED BY <1>1, UiInvariant, PTL

(* A connected shell has been sent the current snapshot last, however      *)
(* connecting, events and lag interleave; once that arrived, it shows an   *)
(* older one only if a response arrived after it (subscribe and post_event *)
(* in state.rs, stream_session in api.rs, attachSnapshot in main.ts).      *)
THEOREM ShellsAreCurrent == UiSpec => []StreamsAreCurrent
<1>1. UiInv => StreamsAreCurrent
  BY DEF UiInv, StreamsFit, Current, StreamsAreCurrent, Last
<1>2. QED BY <1>1, UiInvariant, PTL
=============================================================================
