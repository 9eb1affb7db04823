---------------------------- MODULE AgentPrompt ----------------------------
(***************************************************************************)
(* What the agent shows its model (crates/agents/src/prompt.rs, llm.rs).   *)
(* A provider accepts a prompt only when each tool result answers a tool   *)
(* call of the same id, but the run's trajectory has no such ids: requests *)
(* carry none and actions get theirs later or never.  The builder makes up *)
(* ids by replaying the trajectory and then the inbox, leaving out the     *)
(* skills loaded for earlier work items.  The orchestrator's part is the   *)
(* agent's own: what its decisions and their answers add to both.          *)
(***************************************************************************)
EXTENDS Integers, SequencesExt, FiniteSetsExt

CONSTANTS MaxTurns, MaxTold   \* bounds: turns of the agent; what it is told

ASSUME PromptAssumption == MaxTurns \in Nat

VARIABLES
    trajectory,  \* the events of the run that a prompt may show
    inbox,       \* the agent's inbox, of its loop or waiting for the next
    loop,        \* Idle, Ready, or the action it is blocked on
    task,        \* whether the loop has a work item
    queued,      \* answers queued for the next poll
    prompt,      \* the messages of the agent's last turn
    turns, told

promptVars == <<trajectory, inbox, loop, task, queued, prompt, turns, told>>

None == -1
Idle == 0
Ready == -1
Actions == 1 .. MaxTurns
SkillActions == {"load", "unload"}

(* An event.  A request has no action id: the id it is given here serves    *)
(* the properties only.                                                     *)
Event(kind, id, what) == [kind |-> kind, id |-> id, what |-> what]
Message(who) == Event("Message", None, who)
Told == Event("Notification", None, "notice")

(* A message of the prompt; "of" is the action it is about.                 *)
Text(what) == [kind |-> "text", call |-> None, what |-> what, of |-> None]
Call(c, e) == [kind |-> "call", call |-> c, what |-> e.what, of |-> e.id]
Result(c, e) == [kind |-> "result", call |-> c, what |-> e.what, of |-> e.id]

(***************************************************************************)
(* The call ids (PromptHistoryState)                                       *)
(***************************************************************************)
NoHistory ==
    [messages |-> <<>>, next |-> 0, unassigned |-> <<>>,
     callOf |-> [a \in Actions |-> None], seen |-> {}]

AllocateCallId(h) == [h EXCEPT !.next = @ + 1, !.unassigned = Append(@, h.next)]

BindActionId(h, a) ==
    IF h.unassigned = <<>> THEN h
    ELSE [h EXCEPT !.unassigned = Tail(@), !.callOf[a] = Head(h.unassigned),
                   !.seen = @ \union {a}]

MarkSeen(h, a) == [h EXCEPT !.seen = @ \union {a}]
Show(h, m) == [h EXCEPT !.messages = Append(@, m)]

(* The id bound to the action, else the oldest unassigned, else a new one.  *)
ShowResult(h, e) ==
    LET seen == MarkSeen(h, e.id) IN
    IF h.callOf[e.id] # None THEN Show(seen, Result(h.callOf[e.id], e))
    ELSE IF h.unassigned # <<>>
    THEN Show([seen EXCEPT !.unassigned = Tail(@)], Result(Head(h.unassigned), e))
    ELSE Show([seen EXCEPT !.next = @ + 1], Result(h.next, e))

ShowCall(h, e) == Show(AllocateCallId(h), Call(h.next, e))

(***************************************************************************)
(* The transcript and the inbox (build_transcript, build_inbox)            *)
(***************************************************************************)
LoopStart == Max({0} \union {i \in DOMAIN trajectory : trajectory[i].kind = "LoopCompleted"})

(* Code is always shown, loading a skill only in the loop it was loaded in, *)
(* unloading it never.                                                      *)
Included(what, i) == what = "code" \/ (what = "load" /\ i > LoopStart)
IncludesAction(e, i) == Included(e.what, i)

(* A mutant: outcomes are shown whatever loop they are of.                  *)
IncludesOldOutcome(e, i) == e.what \in {"code", "load"}
IncludesOutcome(e, i) == Included(e.what, i)

AddEvent(h, i) ==
    LET e == trajectory[i] IN
    CASE e.kind \in {"Message", "Notification"} -> Show(h, Text(e.what))
      [] e.kind = "Requested" /\ IncludesAction(e, i) -> ShowCall(h, e)
      [] e.kind = "Scheduled" -> BindActionId(h, e.id)
      [] e.kind = "Completed" /\ IncludesOutcome(e, i) -> ShowResult(h, e)
      [] e.kind = "Failed" -> ShowResult(h, e)
      [] OTHER -> h

History ==
    LET after[n \in 0 .. Len(trajectory)] ==
            IF n = 0 THEN NoHistory ELSE AddEvent(after[n - 1], n)
    IN  after
Transcript == History[Len(trajectory)]

AddInboxEvent(h, e) ==
    IF e.kind \in {"Message", "Notification"} THEN Show(h, Text(e.what))
    ELSE IF e.id \in h.seen THEN h
    ELSE IF e.kind = "Scheduled"
    THEN [MarkSeen(ShowCall(h, e), e.id) EXCEPT !.callOf[e.id] = h.next]
    ELSE ShowResult(h, e)

InboxMessages(events) ==
    LET after[n \in 0 .. Len(events)] ==
            IF n = 0 THEN [Transcript EXCEPT !.messages = <<>>]
            ELSE AddInboxEvent(after[n - 1], events[n])
    IN  after[Len(events)].messages

(* What the transcript already ends with is not said again.                 *)
SuffixPrefixOverlap(said, new) ==
    Max({k \in 0 .. Len(new) : k <= Len(said)
            /\ SubSeq(new, 1, k) = SubSeq(said, Len(said) - k + 1, Len(said))})

PromptMessages(events, hasTask) ==
    LET said == (IF hasTask THEN <<Text("task")>> ELSE <<>>) \o Transcript.messages
        new == InboxMessages(events)
    IN said \o SubSeq(new, SuffixPrefixOverlap(said, new) + 1, Len(new))

(***************************************************************************)
(* The agent in its run                                                    *)
(***************************************************************************)
PromptInit ==
    /\ trajectory = <<>> /\ inbox = <<>> /\ queued = <<>> /\ prompt = <<>>
    /\ loop = Idle /\ task = FALSE /\ turns = 0 /\ told = 0

Startable == {i \in DOMAIN inbox : inbox[i].kind # "Scheduled"}
StartsWithMessage == Startable # {} /\ inbox[Min(Startable)].kind = "Message"

(* What the orchestrator hands the agent: a new loop's work item is taken   *)
(* from the inbox when a message starts it.                                 *)
Delivered ==
    IF loop = Idle /\ StartsWithMessage THEN RemoveAt(inbox, Min(Startable)) ELSE inbox

(* A turn of the agent (LlmAgentParticipant::respond), which ends with one  *)
(* decision; decisions that end the run are left out.                       *)
Respond(adds, delivers, queues, next) ==
    /\ queued = <<>> /\ turns < MaxTurns
    /\ loop = Ready \/ (loop = Idle /\ Startable # {})
    /\ task' = IF loop = Idle THEN StartsWithMessage ELSE task
    /\ prompt' = PromptMessages(Delivered, task')
    /\ trajectory' = trajectory \o adds /\ inbox' = delivers /\ queued' = queues
    /\ loop' = next /\ turns' = turns + 1 /\ UNCHANGED told

FinalMessage ==
    Respond(<<Message("agent"), Event("LoopCompleted", None, "agent")>>, <<>>, <<>>, Idle)

(* load_skill and unload_skill are performed at once.                       *)
Immediate ==
    \E what \in SkillActions : LET id == turns + 1 IN
        Respond(<<Event("Requested", id, what)>>, <<>>, <<Event("Completed", id, what)>>, Ready)

(* execute_code says what it is about to do and blocks the loop.            *)
ExecuteCode ==
    LET id == turns + 1 scheduled == Event("Scheduled", id, "code") IN
    Respond(<<Event("Notification", None, "handoff"), Event("Requested", id, "code"), scheduled>>,
            <<scheduled>>, <<>>, id)

ScheduleRefused ==
    LET id == turns + 1 IN
    Respond(<<Event("Notification", None, "handoff"), Event("Requested", id, "code")>>,
            <<>>, <<Event("Failed", id, "error")>>, Ready)

(* An answer is recorded and delivered, and releases the loop that awaits   *)
(* it.                                                                      *)
Apply(e) ==
    /\ trajectory' = Append(trajectory, e) /\ inbox' = Append(inbox, e)
    /\ loop' = IF loop = e.id THEN Ready ELSE loop
    /\ UNCHANGED <<task, prompt, turns, told>>

ApplyQueued == queued # <<>> /\ Apply(Head(queued)) /\ queued' = Tail(queued)

AnswerCode ==
    /\ loop \in Actions /\ UNCHANGED queued
    /\ \E e \in {Event("Completed", loop, "code"), Event("Failed", loop, "error")} : Apply(e)

(* The user speaks, or the environment sends a notice, which the trajectory *)
(* does not record.                                                         *)
IsTold ==
    /\ queued = <<>> /\ told < MaxTold /\ told' = told + 1
    /\ \/ /\ trajectory' = Append(trajectory, Message("user"))
          /\ inbox' = Append(inbox, Message("user"))
       \/ inbox' = Append(inbox, Told) /\ UNCHANGED trajectory
    /\ UNCHANGED <<loop, task, queued, prompt, turns>>

PromptNext ==
    \/ FinalMessage \/ Immediate \/ ExecuteCode \/ ScheduleRefused
    \/ ApplyQueued \/ AnswerCode \/ IsTold

PromptSpec == PromptInit /\ [][PromptNext]_promptVars

(***************************************************************************)
(* Properties                                                              *)
(***************************************************************************)
Calls == {i \in DOMAIN prompt : prompt[i].kind = "call"}
Results == {i \in DOMAIN prompt : prompt[i].kind = "result"}

(* The calls and the results of a prompt pair up: a call comes before its   *)
(* only result, which is the outcome of the very action called, and no two  *)
(* calls share an id.  The one result without a call is that of an          *)
(* unload_skill, which the transcript leaves out and the inbox then shows   *)
(* under an id of its own (prompt.rs:403-412, 369-378).                     *)
CallsAreAnswered ==
    /\ \A c \in Calls : \E r \in Results :
          c < r /\ prompt[c].call = prompt[r].call /\ prompt[c].of = prompt[r].of
    /\ \A r \in Results : prompt[r].what = "unload" \/
          \E c \in Calls : prompt[c].call = prompt[r].call
    /\ \A i, j \in Calls : prompt[i].call = prompt[j].call => i = j
    /\ \A i, j \in Results : prompt[i].call = prompt[j].call => i = j
=============================================================================
