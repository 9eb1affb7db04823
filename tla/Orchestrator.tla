---------------------------- MODULE Orchestrator ----------------------------
(***************************************************************************)
(* The run loop of crates/orchestrator/src/orchestrator.rs.                *)
(*                                                                         *)
(* One task drives all participants: it enforces the run limits, applies   *)
(* what the environment reports, picks the next runnable participant in    *)
(* round-robin order, asks it for a decision and applies that decision.    *)
(* pc names the phase of the loop; the environment takes its own steps     *)
(* between any two of them.  Message texts, observations and the           *)
(* trajectory are abstracted away, except for the set of participants that *)
(* completed a loop, which the termination conditions speak about.         *)
(***************************************************************************)
EXTENDS Environment, Integers, FiniteSets

CONSTANTS
    MaxSteps,           \* RunLimits.max_steps
    MaxStepsPerLoop,    \* RunLimits.max_steps_per_agent_loop
    MaxMessages,        \* RunLimits.max_messages
    MaxFailed,          \* RunLimits.max_failed_actions, or NoLimit
    MaxConsecutive,     \* RunLimits.max_consecutive_failed_actions, or NoLimit
    DurationLimited,    \* whether RunLimits.max_duration is given
    WaitLimited,        \* whether RunLimits.max_blocked_action_wait is given
    Condition,          \* the kind of RunRequest.termination_condition ...
    Listed,             \* ... and the participants it lists
    Decisions,          \* the decisions participants may take
    Faults              \* the collaborators that may answer with an error

NoLimit == -1

Conditions == {"AllParticipantsFinished", "AnyParticipantFinished",
               "AnyOfParticipantsFinished", "AnyParticipantCompletedLoop",
               "AnyOfParticipantsCompletedLoop"}

ASSUME OrchestratorAssumption ==
    /\ MaxSteps \in Nat /\ MaxStepsPerLoop \in Nat /\ MaxMessages \in Nat
    /\ MaxFailed \in Nat \cup {NoLimit} /\ MaxConsecutive \in Nat \cup {NoLimit}
    /\ DurationLimited \in BOOLEAN /\ WaitLimited \in BOOLEAN
    /\ Condition \in Conditions /\ Listed \subseteq Participant

VARIABLES
    pc,             \* phase of run_with_output; "idle" when no run is in progress
    roster,         \* Orchestrator.participants, moved into the run while one is on
    nextIndex,      \* next_participant_index, which survives runs
    result,         \* finish reason of the run that is ending or has ended
    current,        \* the participant whose turn it is
    \* RunCounters
    steps, actions, messages, failed, consecutive,
    \* ParticipantRuntimeState and ActiveLoop, per participant
    loop,           \* "Idle", or the LoopExecutionState of the active loop
    awaiting,       \* the action id of WaitingForActionCompletion
    loopSteps,      \* ActiveLoop.step_count
    pendingInbox,   \* inbox of an idle participant
    loopInbox,      \* inbox of the active loop
    finished,       \* participants that are finished for good
    loopsCompleted, \* participants with a ParticipantLoopCompleted in the trajectory
    \* RunState and the locals of the loop
    pending,        \* pending_actions
    submitted,      \* submitted_actions: who asked for an action not yet reported
    queued,         \* queued_environment_events
    batch,          \* the events of the current poll still to be applied
    waitClock,      \* blocked_action_wait_started_at: off, running or past its limit
    deadline        \* whether max_duration has elapsed

counters == <<steps, actions, messages, failed, consecutive>>
loops == <<loop, awaiting, loopSteps, pendingInbox, loopInbox, finished, loopsCompleted>>
book == <<pending, submitted>>
clocks == <<waitClock, deadline>>
control == <<pc, roster, nextIndex, result, current>>
vars == <<control, counters, loops, book, queued, batch, clocks, envVars>>

(* ParticipantInboxEvent, without payloads. *)
InboxKinds == {"Message", "ActionScheduled", "ActionCompleted", "ActionFailed", "Notification"}
InboxEvent == [kind : InboxKinds, id : ActionId \cup {NoAction}]
Item(k, a) == [kind |-> k, id |-> a]

LoopStates == {"Idle", "ReadyForTurn", "WaitingForInput", "WaitingForActionCompletion"}

Startable(item) == item.kind # "ActionScheduled"
HasStartable(inbox) == \E i \in 1 .. Len(inbox) : Startable(inbox[i])

(* take_startable_work_item: only a message leaves the inbox as a work item. *)
FirstStartable(inbox) ==
    CHOOSE i \in 1 .. Len(inbox) :
        Startable(inbox[i]) /\ \A j \in 1 .. i - 1 : ~Startable(inbox[j])
WithoutWorkItem(inbox) ==
    LET i == FirstStartable(inbox)
    IN  IF inbox[i].kind = "Message"
        THEN SubSeq(inbox, 1, i - 1) \o SubSeq(inbox, i + 1, Len(inbox))
        ELSE inbox

(***************************************************************************)
(* Delivery                                                                *)
(***************************************************************************)

(* Slips in Wakes: a failed action releases nobody, an answer releases      *)
(* whoever is blocked, and a waiting loop wakes up for messages only.       *)
WakesOnCompletion(p, item) ==
    \/ loop[p] = "WaitingForInput"
    \/ loop[p] = "WaitingForActionCompletion"
       /\ item.kind = "ActionCompleted" /\ item.id = awaiting[p]
WakesOnAnyAnswer(p, item) ==
    \/ loop[p] = "WaitingForInput"
    \/ loop[p] = "WaitingForActionCompletion" /\ item.kind \in AnswerKinds
WakesOnMessage(p, item) ==
    \/ loop[p] = "WaitingForInput" /\ item.kind = "Message"
    \/ loop[p] = "WaitingForActionCompletion"
       /\ item.kind \in AnswerKinds /\ item.id = awaiting[p]

(* handle_inbox_event: does this item make the loop of p ready again? *)
Wakes(p, item) ==
    \/ loop[p] = "WaitingForInput"
    \/ /\ loop[p] = "WaitingForActionCompletion"
       /\ item.kind \in AnswerKinds
       /\ item.id = awaiting[p]

(* ParticipantRuntimeState.deliver, for every participant of S at once: the *)
(* item goes to the active loop if there is one, else to the pending inbox. *)
LoopAfter(S, item) ==
    [p \in Participant |-> IF p \in S /\ Wakes(p, item) THEN "ReadyForTurn" ELSE loop[p]]
AwaitingAfter(S, item) ==
    [p \in Participant |-> IF p \in S /\ Wakes(p, item) THEN NoAction ELSE awaiting[p]]
(* A slip: the inbox of the active loop is set, not extended. *)
LoopInboxReplaced(S, item) ==
    [p \in Participant |-> IF p \in S /\ loop[p] # "Idle" THEN <<item>> ELSE loopInbox[p]]
LoopInboxAfter(S, item) ==
    [p \in Participant |-> IF p \in S /\ loop[p] # "Idle"
                           THEN Append(loopInbox[p], item) ELSE loopInbox[p]]
PendingInboxAfter(S, item) ==
    [p \in Participant |-> IF p \in S /\ loop[p] = "Idle"
                           THEN Append(pendingInbox[p], item) ELSE pendingInbox[p]]

Deliver(S, item) ==
    /\ loop' = LoopAfter(S, item)
    /\ awaiting' = AwaitingAfter(S, item)
    /\ loopInbox' = LoopInboxAfter(S, item)
    /\ pendingInbox' = PendingInboxAfter(S, item)

(* route_participant_message: everyone else who has not finished. *)
Audience(p) == (roster \ finished) \ {p}

(***************************************************************************)
(* Verdicts                                                                *)
(***************************************************************************)
NoVerdict == [reason |-> "none", who |-> Nobody]
Verdict(r, p) == [reason |-> r, who |-> p]

Continue == pc' = "limits" /\ UNCHANGED <<roster, result>>
Stop(verdict) == pc' = "ended" /\ result' = verdict /\ UNCHANGED roster

(* A slip: the limit itself is still below the limit. *)
BeyondLimit(count, limit) == limit # NoLimit /\ count > limit

AtLimit(count, limit) == limit # NoLimit /\ count >= limit

(* enforce_run_limits, over given counters. *)
LimitReason(st, fl, cs) ==
    IF st >= MaxSteps THEN "StepLimitExceeded"
    ELSE IF AtLimit(fl, MaxFailed) \/ AtLimit(cs, MaxConsecutive)
         THEN "FailedActionLimitExceeded"
    ELSE IF deadline THEN "TimeLimitExceeded" ELSE "none"

(* Slips: the participants the condition lists are not looked at. *)
EndsByAnyFinish(p) ==
    \/ Condition = "AllParticipantsFinished" /\ finished \cup {p} = roster
    \/ Condition \in {"AnyParticipantFinished", "AnyOfParticipantsFinished"}
EndsByAnyLoopCompletion(p) ==
    Condition \in {"AnyParticipantCompletedLoop", "AnyOfParticipantsCompletedLoop"}

(* termination_condition_met, right after p finished ... *)
EndsByFinish(p) ==
    \/ Condition = "AllParticipantsFinished" /\ finished \cup {p} = roster
    \/ Condition = "AnyParticipantFinished"
    \/ Condition = "AnyOfParticipantsFinished" /\ p \in Listed
FinishVerdict(p) ==
    IF Condition = "AllParticipantsFinished"
    THEN Verdict("ParticipantsFinished", Nobody) ELSE Verdict("ParticipantFinished", p)

(* The same check at the top of the loop (656-664) has no action here: there *)
(* nobody has just finished, and only Finish, which checks at once, changes  *)
(* the finished participants.  EndsOnCondition below shows it cannot fire.   *)

(* loop_termination_condition_met *)
EndsByLoopCompletion(p) ==
    \/ Condition = "AnyParticipantCompletedLoop"
    \/ Condition = "AnyOfParticipantsCompletedLoop" /\ p \in Listed

(***************************************************************************)
(* Scheduling                                                              *)
(***************************************************************************)
(* A slip: a finished participant that is sent something runs again. *)
RunnableWhenFinished(p) ==
    /\ p \in roster
    /\ \/ loop[p] = "ReadyForTurn"
       \/ loop[p] = "Idle" /\ HasStartable(pendingInbox[p])

Runnable(p) ==
    /\ p \in roster \ finished
    /\ \/ loop[p] = "ReadyForTurn"
       \/ loop[p] = "Idle" /\ HasStartable(pendingInbox[p])

(* How many participants the round-robin scan looks at before p. *)
Distance(i, p) == (p + NumParticipants - i) % NumParticipants

(* A slip: the scan starts at the first participant every time. *)
IsFirst(p) == Runnable(p) /\ \A q \in Participant : Runnable(q) => p <= q

IsNext(p) ==
    /\ Runnable(p)
    /\ \A q \in Participant :
          Runnable(q) => Distance(nextIndex, p) <= Distance(nextIndex, q)

NobodyRunnable == \A p \in Participant : ~Runnable(p)

(***************************************************************************)
(* Starting and ending a run                                               *)
(***************************************************************************)
Init ==
    /\ pc = "idle" /\ roster = Participant /\ nextIndex = 0
    /\ result = NoVerdict /\ current = 0
    /\ steps = 0 /\ actions = 0 /\ messages = 0 /\ failed = 0 /\ consecutive = 0
    /\ loop = [p \in Participant |-> "Idle"]
    /\ awaiting = [p \in Participant |-> NoAction]
    /\ loopSteps = [p \in Participant |-> 0]
    /\ pendingInbox = [p \in Participant |-> <<>>]
    /\ loopInbox = [p \in Participant |-> <<>>]
    /\ finished = {} /\ loopsCompleted = {}
    /\ pending = {} /\ submitted = [a \in ActionId |-> Nobody]
    /\ queued = <<>> /\ batch = <<>>
    /\ waitClock = "off" /\ deadline = FALSE
    /\ EnvInit

(* run_with_output up to the loop: the environment is reset and a fresh     *)
(* RunState delivers the initial messages.                                  *)
StartRun ==
    /\ pc = "idle"
    /\ pc' = "limits" /\ result' = NoVerdict
    /\ steps' = 0 /\ actions' = 0 /\ messages' = 0 /\ failed' = 0 /\ consecutive' = 0
    /\ loop' = [p \in Participant |-> "Idle"]
    /\ awaiting' = [p \in Participant |-> NoAction]
    /\ loopSteps' = [p \in Participant |-> 0]
    /\ \E to \in SUBSET roster :
         pendingInbox' = [p \in Participant |->
             IF p \in to THEN <<Item("Message", NoAction)>> ELSE <<>>]
    /\ loopInbox' = [p \in Participant |-> <<>>]
    /\ finished' = {} /\ loopsCompleted' = {}
    /\ pending' = {} /\ submitted' = [a \in ActionId |-> Nobody]
    /\ queued' = <<>> /\ batch' = <<>>
    /\ waitClock' = "off" /\ deadline' = FALSE
    /\ Reset
    /\ UNCHANGED <<roster, nextIndex, current>>

(* reset refuses: the run is over before it takes the participants. *)
ResetFails ==
    /\ pc = "idle" /\ "reset" \in Faults
    /\ result' = Verdict("EnvironmentError", Nobody)
    /\ UNCHANGED <<pc, roster, nextIndex, current, counters, loops, book, queued, batch,
                   clocks, envVars>>

(* The loop is left: the evaluator runs and the participants are handed back. *)
EndRun ==
    /\ pc = "ended"
    /\ pc' = "idle"
    /\ UNCHANGED <<roster, nextIndex, result, current, counters, loops, book, queued,
                   batch, clocks, envVars>>

(* A collaborator's error leaves the function through `?`, and the RunState *)
(* that holds the participants is dropped with it.                          *)
FailurePoints ==
    CASE pc = "poll"  -> {"environment"}
      [] pc = "apply" -> (IF Len(batch) = 1 THEN {"environment"} ELSE {})
                         \cup (IF Head(batch).id # NoAction THEN {"output"} ELSE {})
      [] pc = "turn"  -> {"environment", "output"}
      [] pc = "ended" -> {"evaluator"}
      [] OTHER        -> {}

Abort ==
    /\ FailurePoints \cap Faults # {}
    /\ pc' = "idle" /\ roster' = {}
    /\ result' = Verdict("EvaluatorError", Nobody)
    /\ UNCHANGED <<nextIndex, current, counters, loops, book, queued, batch, clocks, envVars>>

(***************************************************************************)
(* The phases of the loop                                                  *)
(***************************************************************************)
loopLocals == <<counters, loops, book, queued, batch, waitClock>>

CheckLimits ==
    /\ pc = "limits"
    /\ LET reason == LimitReason(steps, failed, consecutive)
       IN  IF reason = "none"
           THEN pc' = "poll" /\ UNCHANGED <<roster, result>>
           ELSE Stop(Verdict(reason, Nobody))
    /\ UNCHANGED <<nextIndex, current, loopLocals, deadline, envVars>>

(* Slips in PollEnvironment: the queued events stay queued, or the events   *)
(* of the environment are taken and forgotten.                              *)
PollKeepsQueue ==
    /\ pc = "poll"
    /\ batch' = queued \o events
    /\ Poll
    /\ pc' = IF batch' = <<>> THEN "pick" ELSE "apply"
    /\ UNCHANGED <<roster, nextIndex, result, current, counters, loops, book, queued, clocks>>
PollForgetsEvents ==
    /\ pc = "poll"
    /\ batch' = queued
    /\ queued' = <<>>
    /\ Poll
    /\ pc' = IF batch' = <<>> THEN "pick" ELSE "apply"
    /\ UNCHANGED <<roster, nextIndex, result, current, counters, loops, book, clocks>>

(* poll_environment_phase: queued events come before what the environment says. *)
PollEnvironment ==
    /\ pc = "poll"
    /\ batch' = queued \o events
    /\ queued' = <<>>
    /\ Poll
    /\ pc' = IF batch' = <<>> THEN "pick" ELSE "apply"
    /\ UNCHANGED <<roster, nextIndex, result, current, counters, loops, book, clocks>>

EnvironmentTerminates ==
    /\ pc = "poll" /\ "terminated" \in Faults
    /\ Stop(Verdict("EnvironmentTerminated", Nobody))
    /\ UNCHANGED <<nextIndex, current, loopLocals, deadline, envVars>>

(* One iteration over the polled events: count, unbook, deliver, and check  *)
(* the limits; the rest of the batch is dropped when one is reached.        *)
ApplyEvent ==
    /\ pc = "apply"
    /\ LET e == Head(batch)
           to == {e.participant} \cap roster
           answered == e.kind \in AnswerKinds
           reason == LimitReason(steps, failed', consecutive')
       IN  /\ failed' = IF e.kind = "ActionFailed" THEN failed + 1 ELSE failed
           /\ consecutive' = CASE e.kind = "ActionFailed" -> consecutive + 1
                               [] e.kind = "ActionCompleted" -> 0
                               [] OTHER -> consecutive
           /\ pending' = IF answered THEN pending \ {e.id} ELSE pending
           /\ submitted' = IF answered THEN [submitted EXCEPT ![e.id] = Nobody]
                                       ELSE submitted
           /\ IF e.kind = "ActionRunStatus"
              THEN UNCHANGED <<loop, awaiting, loopInbox, pendingInbox>>
              ELSE Deliver(to, Item(e.kind, e.id))
           /\ IF reason = "none"
              THEN /\ batch' = Tail(batch)
                   /\ pc' = IF Tail(batch) = <<>> THEN "pick" ELSE "apply"
                   /\ UNCHANGED <<roster, result>>
              ELSE /\ batch' = <<>>
                   /\ Stop(Verdict(reason, Nobody))
    /\ UNCHANGED <<nextIndex, current, steps, actions, messages, loopSteps, finished,
                   loopsCompleted, queued, clocks, envVars>>

(* pick_next_participant, active_loop_or_start and the hand-over of the     *)
(* inbox that ends in Participant::respond.                                 *)
PickParticipant(p) ==
    /\ pc = "pick" /\ IsNext(p)
    /\ nextIndex' = (p + 1) % NumParticipants
    /\ waitClock' = "off"
    /\ current' = p
    /\ LET starting == loop[p] = "Idle"
           taken == IF starting THEN 0 ELSE loopSteps[p]
       IN  /\ loop' = [loop EXCEPT ![p] = "ReadyForTurn"]
           /\ loopSteps' = [loopSteps EXCEPT ![p] = taken]
           /\ pendingInbox' = [pendingInbox EXCEPT ![p] = IF starting THEN <<>> ELSE @]
           /\ IF taken >= MaxStepsPerLoop
              THEN /\ Stop(Verdict("AgentLoopStepLimitExceeded", p))
                   /\ loopInbox' = [loopInbox EXCEPT ![p] =
                                       IF starting THEN WithoutWorkItem(pendingInbox[p]) ELSE @]
              ELSE /\ pc' = "turn" /\ UNCHANGED <<roster, result>>
                   /\ loopInbox' = [loopInbox EXCEPT ![p] = <<>>]
    /\ UNCHANGED <<counters, awaiting, finished, loopsCompleted, book, queued, batch,
                   deadline, envVars>>

(* A slip: the wait for an outstanding action has no limit. *)
WaitForever ==
    /\ pc = "pick" /\ NobodyRunnable
    /\ IF pending = {} THEN Stop(Verdict("Deadlocked", Nobody)) /\ UNCHANGED waitClock
                       ELSE Continue /\ waitClock' = "running"
    /\ UNCHANGED <<nextIndex, current, counters, loops, book, queued, batch, deadline, envVars>>

(* Nobody can run: the run is deadlocked unless an action is outstanding,   *)
(* and then the loop sleeps and polls again.                                *)
NobodyToRun ==
    /\ pc = "pick" /\ NobodyRunnable
    /\ CASE pending = {} ->
               Stop(Verdict("Deadlocked", Nobody)) /\ UNCHANGED waitClock
         [] pending # {} /\ waitClock = "expired" ->
               Stop(Verdict("BlockedActionWaitExceeded", Nobody)) /\ UNCHANGED waitClock
         [] OTHER ->
               Continue /\ waitClock' = "running"
    /\ UNCHANGED <<nextIndex, current, counters, loops, book, queued, batch, deadline, envVars>>

(* Wall-clock time passes. *)
WaitExpires ==
    /\ WaitLimited /\ waitClock = "running" /\ pc # "idle"
    /\ waitClock' = "expired"
    /\ UNCHANGED <<control, counters, loops, book, queued, batch, deadline, envVars>>

DurationElapses ==
    /\ DurationLimited /\ ~deadline /\ pc # "idle"
    /\ deadline' = TRUE
    /\ UNCHANGED <<control, counters, loops, book, queued, batch, waitClock, envVars>>

(***************************************************************************)
(* Decisions: apply_decision, for the participant p whose turn it is       *)
(***************************************************************************)
Turn(p, decision) == pc = "turn" /\ current = p /\ decision \in Decisions

CountTurn(p) ==
    /\ steps' = steps + 1
    /\ loopSteps' = [loopSteps EXCEPT ![p] = @ + 1]

MessageVerdict(count) ==
    IF count > MaxMessages THEN Stop(Verdict("MessageLimitExceeded", Nobody)) ELSE Continue

Notification(p) ==
    /\ Turn(p, "Notification")
    /\ CountTurn(p)
    /\ messages' = messages + 1
    /\ MessageVerdict(messages')
    /\ UNCHANGED <<nextIndex, current, actions, failed, consecutive, loop, awaiting,
                   pendingInbox, loopInbox, finished, loopsCompleted, book, queued,
                   batch, clocks, envVars>>

Message(p) ==
    /\ Turn(p, "Message")
    /\ CountTurn(p)
    /\ messages' = messages + 1
    /\ Deliver(Audience(p), Item("Message", NoAction))
    /\ MessageVerdict(messages')
    /\ UNCHANGED <<nextIndex, current, actions, failed, consecutive, finished,
                   loopsCompleted, book, queued, batch, clocks, envVars>>

(* The loop completes: p becomes idle, and what its inbox still holds moves *)
(* to the pending inbox, before the message is routed to the others.        *)
FinalMessage(p) ==
    /\ Turn(p, "FinalMessage")
    /\ steps' = steps + 1
    /\ messages' = messages + 1
    /\ LET to == Audience(p)
           item == Item("Message", NoAction)
       IN  /\ loop' = [LoopAfter(to, item) EXCEPT ![p] = "Idle"]
           /\ awaiting' = AwaitingAfter(to, item)
           /\ pendingInbox' = [PendingInboxAfter(to, item) EXCEPT ![p] = @ \o loopInbox[p]]
           /\ loopInbox' = [LoopInboxAfter(to, item) EXCEPT ![p] = <<>>]
    /\ loopSteps' = [loopSteps EXCEPT ![p] = 0]
    /\ loopsCompleted' = loopsCompleted \cup {p}
    /\ IF EndsByLoopCompletion(p)
       THEN Stop(Verdict("ParticipantCompletedLoop", p))
       ELSE MessageVerdict(messages')
    /\ UNCHANGED <<nextIndex, current, actions, failed, consecutive, finished, book,
                   queued, batch, clocks, envVars>>

(* A slip: one action more than the limit. *)
ActionRefusedLate(handoff) ==
    \/ handoff /\ messages + 1 > MaxMessages
    \/ actions > MaxActions

(* The common part of an action decision.  With a hand-off notification it  *)
(* counts as a message too; both limits are checked before anything is done *)
(* in the environment.                                                      *)
ActionRefused(handoff) ==
    \/ handoff /\ messages + 1 > MaxMessages
    \/ actions + 1 > MaxActions
CountAction(p, handoff) ==
    /\ CountTurn(p)
    /\ actions' = actions + 1
    /\ messages' = IF handoff THEN messages + 1 ELSE messages

Handoffs == IF "Handoff" \in Decisions THEN BOOLEAN ELSE {FALSE}

RefusedAction(p, handoff) ==
    /\ \E d \in {"Immediate", "DeferredBlocking", "DeferredNonBlocking"} : Turn(p, d)
    /\ ActionRefused(handoff)
    /\ CountAction(p, handoff)
    /\ Stop(Verdict(IF handoff /\ messages' > MaxMessages
                    THEN "MessageLimitExceeded" ELSE "ActionLimitExceeded", Nobody))
    /\ UNCHANGED <<nextIndex, current, failed, consecutive, loop, awaiting, pendingInbox,
                   loopInbox, finished, loopsCompleted, book, queued, batch, clocks, envVars>>

(* Immediate: performed now, reported by an event queued for the next poll. *)
ImmediateAction(p, handoff) ==
    /\ Turn(p, "Immediate") /\ ~ActionRefused(handoff)
    /\ CountAction(p, handoff)
    /\ \/ /\ submitted' = [submitted EXCEPT ![actions'] = p]
          /\ queued' = Append(queued, Event("ActionCompleted", p, actions'))
          /\ Continue
       \/ /\ "perform" \in Faults
          /\ Stop(Verdict("EnvironmentError", Nobody))
          /\ UNCHANGED <<submitted, queued>>
    /\ UNCHANGED <<nextIndex, current, failed, consecutive, loop, awaiting, pendingInbox,
                   loopInbox, finished, loopsCompleted, pending, batch, clocks, envVars>>

(* Deferred and accepted: p learns the id, and blocks on it if it asked to. *)
ScheduledAction(p, blocking, handoff) ==
    /\ Turn(p, IF blocking THEN "DeferredBlocking" ELSE "DeferredNonBlocking")
    /\ ~ActionRefused(handoff)
    /\ CountAction(p, handoff)
    /\ Accept(actions', p)
    /\ LET item == Item("ActionScheduled", actions')
       IN  IF blocking
           THEN /\ loop' = [loop EXCEPT ![p] = "WaitingForActionCompletion"]
                /\ awaiting' = [awaiting EXCEPT ![p] = actions']
                /\ loopInbox' = [loopInbox EXCEPT ![p] = Append(@, item)]
                /\ UNCHANGED pendingInbox
           ELSE Deliver({p}, item)
    /\ pending' = pending \cup {actions'}
    /\ submitted' = [submitted EXCEPT ![actions'] = p]
    /\ Continue
    /\ UNCHANGED <<nextIndex, current, failed, consecutive, finished, loopsCompleted,
                   queued, batch, clocks>>

(* Deferred and refused: the failure is queued under an id of its own, and  *)
(* the loop goes on even if it asked to block.                              *)
UnscheduledAction(p, handoff) ==
    /\ \E d \in {"DeferredBlocking", "DeferredNonBlocking"} : Turn(p, d)
    /\ "schedule" \in Faults /\ ~ActionRefused(handoff)
    /\ CountAction(p, handoff)
    /\ submitted' = [submitted EXCEPT ![actions'] = p]
    /\ queued' = Append(queued, Event("ActionFailed", p, actions'))
    /\ Continue
    /\ UNCHANGED <<nextIndex, current, failed, consecutive, loop, awaiting, pendingInbox,
                   loopInbox, finished, loopsCompleted, pending, batch, clocks, envVars>>

Yield(p) ==
    /\ Turn(p, "Yield")
    /\ CountTurn(p)
    /\ loop' = [loop EXCEPT ![p] = "WaitingForInput"]
    /\ Continue
    /\ UNCHANGED <<nextIndex, current, actions, messages, failed, consecutive, awaiting,
                   pendingInbox, loopInbox, finished, loopsCompleted, book, queued, batch,
                   clocks, envVars>>

(* Finish is not a step: the pending inbox is cleared, the loop given up.   *)
Finish(p) ==
    /\ Turn(p, "Finish")
    /\ finished' = finished \cup {p}
    /\ loop' = [loop EXCEPT ![p] = "Idle"]
    /\ loopSteps' = [loopSteps EXCEPT ![p] = 0]
    /\ pendingInbox' = [pendingInbox EXCEPT ![p] = loopInbox[p]]
    /\ loopInbox' = [loopInbox EXCEPT ![p] = <<>>]
    /\ IF EndsByFinish(p) THEN Stop(FinishVerdict(p)) ELSE Continue
    /\ UNCHANGED <<nextIndex, current, counters, awaiting, loopsCompleted, book, queued,
                   batch, clocks, envVars>>

ParticipantFails(p) ==
    /\ pc = "turn" /\ current = p /\ "participant" \in Faults
    /\ Stop(Verdict("ParticipantError", p))
    /\ UNCHANGED <<nextIndex, current, loopLocals, deadline, envVars>>

Decide(p) ==
    \/ Notification(p) \/ Message(p) \/ FinalMessage(p)
    \/ \E handoff \in Handoffs :
         \/ RefusedAction(p, handoff)
         \/ ImmediateAction(p, handoff)
         \/ \E blocking \in BOOLEAN : ScheduledAction(p, blocking, handoff)
         \/ UnscheduledAction(p, handoff)
    \/ Yield(p) \/ Finish(p)
    \/ ParticipantFails(p)

(***************************************************************************)
(* Specification                                                           *)
(***************************************************************************)

(* The steps of the task that runs the loop. *)
RunStep ==
    \/ CheckLimits
    \/ PollEnvironment \/ EnvironmentTerminates
    \/ ApplyEvent
    \/ NobodyToRun
    \/ \E p \in Participant : PickParticipant(p) \/ Decide(p)
    \/ EndRun \/ Abort

EnvStep ==
    /\ EnvNext
    /\ UNCHANGED <<control, counters, loops, book, queued, batch, clocks>>

Next ==
    \/ StartRun \/ ResetFails
    \/ RunStep
    \/ EnvStep
    \/ WaitExpires \/ DurationElapses

Spec == Init /\ [][Next]_vars

(* The loop's task is always scheduled again.  An environment that works    *)
(* answers what it accepted; a clock reaches its limit.                     *)
AnswerStep(a) ==
    Answer(a) /\ UNCHANGED <<control, counters, loops, book, queued, batch, clocks>>
LoopFairness == WF_vars(RunStep)
EnvFairness == \A a \in ActionId : WF_vars(AnswerStep(a))
ClockFairness == WF_vars(WaitExpires) /\ WF_vars(DurationElapses)

FairLoopSpec == Spec /\ LoopFairness

(***************************************************************************)
(* Properties                                                              *)
(***************************************************************************)
Phases == {"idle", "limits", "poll", "apply", "pick", "turn", "ended"}
Reasons == {"none", "ParticipantsFinished", "ParticipantFinished",
            "ParticipantCompletedLoop", "StepLimitExceeded",
            "AgentLoopStepLimitExceeded", "ActionLimitExceeded",
            "MessageLimitExceeded", "FailedActionLimitExceeded", "TimeLimitExceeded",
            "BlockedActionWaitExceeded", "EnvironmentTerminated", "EnvironmentError",
            "ParticipantError", "Deadlocked", "EvaluatorError"}

(* The state of a run is well formed; in particular nobody but a known      *)
(* participant owns an action, and the turn belongs to a participant.       *)
TypeOK ==
    /\ pc \in Phases
    /\ roster \in {{}, Participant}
    /\ nextIndex \in Participant /\ current \in Participant
    /\ result \in [reason : Reasons, who : Participant \cup {Nobody}]
    /\ steps \in Nat /\ actions \in Nat /\ messages \in Nat
    /\ failed \in Nat /\ consecutive \in Nat
    /\ loop \in [Participant -> LoopStates]
    /\ awaiting \in [Participant -> ActionId \cup {NoAction}]
    /\ loopSteps \in [Participant -> Nat]
    /\ pendingInbox \in [Participant -> Seq(InboxEvent)]
    /\ loopInbox \in [Participant -> Seq(InboxEvent)]
    /\ finished \subseteq Participant /\ loopsCompleted \subseteq Participant
    /\ pending \subseteq ActionId
    /\ submitted \in [ActionId -> Participant \cup {Nobody}]
    /\ queued \in Seq(EnvEvent) /\ batch \in Seq(EnvEvent)
    /\ waitClock \in {"off", "running", "expired"} /\ deadline \in BOOLEAN
    /\ running \in [ActionId -> Participant \cup {Nobody}]
    /\ events \in Seq(EnvEvent) /\ chatter \in Nat

Active == pc \notin {"idle", "ended"}

(* A loop blocked on an action waits for something that can still happen:   *)
(* the action is outstanding in the books, and the environment either works *)
(* on it for that participant or has an answer to that participant under    *)
(* way.  Otherwise the run would wait for ever (orchestrator.rs:1070-1083   *)
(* against 472-504).                                                        *)
BlockedIsAnswerable ==
    Active =>
      \A p \in Participant : loop[p] = "WaitingForActionCompletion" =>
        LET a == awaiting[p]
        IN  /\ a \in pending
            /\ submitted[a] = p
            /\ \/ running[a] = p
               \/ \E e \in Range(batch) \cup Range(events) :
                     e.kind \in AnswerKinds /\ e.id = a /\ e.participant = p

(* No wakeup is lost: a loop that waits for input has nothing unread, and   *)
(* no item lies in an inbox nobody will look at, the pending inbox of a     *)
(* participant with a loop or the loop inbox of an idle one                 *)
(* (orchestrator.rs:115-135, 225-252, 294-300).                             *)
NoLostWakeup ==
    \A p \in Participant :
        /\ loop[p] = "WaitingForInput" => loopInbox[p] = <<>>
        /\ loop[p] = "Idle" => loopInbox[p] = <<>>
        /\ loop[p] # "Idle" => pendingInbox[p] = <<>>

(* Every requested action is reported exactly once: while it is booked as   *)
(* submitted it is in exactly one place - with the environment or as one    *)
(* answer under way - and once reported it is nowhere, so that no second    *)
(* report can follow (orchestrator.rs:477-504, 801-865, 1021-1100).         *)
ReportedOnce ==
    Active =>
      \A a \in ActionId :
        Cardinality(AnswersIn(queued \o batch \o events, a))
            + (IF running[a] = Nobody THEN 0 ELSE 1)
          = (IF submitted[a] = Nobody THEN 0 ELSE 1)

(* The limits mean what they say: a turn is given only below every limit,   *)
(* and the run is stopped by the first message, which has been routed by    *)
(* then, or action beyond its limit (orchestrator.rs:687, 754-785, 942-1002). *)
LimitsHold ==
    /\ steps <= MaxSteps
    /\ \A p \in Participant : loopSteps[p] <= MaxStepsPerLoop
    /\ messages <= MaxMessages + 1 /\ actions <= MaxActions + 1
    /\ Active => messages <= MaxMessages /\ actions <= MaxActions
    /\ pc = "turn" =>
         /\ steps < MaxSteps /\ loopSteps[current] < MaxStepsPerLoop
         /\ MaxFailed # NoLimit => failed < MaxFailed
         /\ MaxConsecutive # NoLimit => consecutive < MaxConsecutive

(* A run that ends as deadlocked could not have gone on: nobody is blocked  *)
(* on an action, the environment owes nothing, and no answer is under way   *)
(* (orchestrator.rs:666-669).                                               *)
DeadlockIsReal ==
    (pc = "ended" /\ result.reason = "Deadlocked") =>
        /\ NobodyRunnable
        /\ \A p \in roster \ finished : loop[p] # "WaitingForActionCompletion"
        /\ \A a \in ActionId : running[a] = Nobody
        /\ \A a \in ActionId : AnswersIn(queued \o batch \o events, a) = {}

(* The run ends on its termination condition, no sooner and no later        *)
(* (types.rs:23-34): it goes on only while the condition is not met, and it *)
(* gives the condition as its reason only when it is.                       *)
ConditionMet ==
    CASE Condition = "AllParticipantsFinished" -> finished = roster /\ roster # {}
      [] Condition = "AnyParticipantFinished" -> finished # {}
      [] Condition = "AnyOfParticipantsFinished" -> finished \cap Listed # {}
      [] Condition = "AnyParticipantCompletedLoop" -> loopsCompleted # {}
      [] Condition = "AnyOfParticipantsCompletedLoop" -> loopsCompleted \cap Listed # {}

EndsOnCondition ==
    /\ Active => ~ConditionMet
    /\ result.reason \in {"ParticipantsFinished", "ParticipantFinished",
                          "ParticipantCompletedLoop"} => ConditionMet

(* What was delivered stays delivered: until its participant finishes, an   *)
(* item leaves the inboxes only by being handed to that participant at the  *)
(* start of its turn (orchestrator.rs:157-186, 243-252, 294-300).           *)
Inboxes(p) == pendingInbox[p] \o loopInbox[p]
NoItemDropped ==
    [][(Active /\ pc' # "idle") =>
         \A p \in roster \ finished' :
            \/ Len(Inboxes(p)') >= Len(Inboxes(p))
                 /\ SubSeq(Inboxes(p)', 1, Len(Inboxes(p))) = Inboxes(p)
            \/ pc = "pick" /\ current' = p
                 /\ (pc' = "turn" \/ Len(Inboxes(p)') = Len(Inboxes(p)) - 1)]_vars

(* "Schedule the action and pause the current loop until the action         *)
(* completes or fails" (types.rs:16): whatever else is delivered meanwhile, *)
(* a blocked loop is released only by the answer to its own action.         *)
ReleasedByOwnAnswer ==
    [][\A p \in Participant :
         (loop[p] = "WaitingForActionCompletion" /\ loop'[p] # loop[p] /\ pc # "idle") =>
             /\ loop'[p] = "ReadyForTurn"
             /\ loopInbox'[p] # <<>>
             /\ LET last == loopInbox'[p][Len(loopInbox'[p])]
                IN  last.kind \in AnswerKinds /\ last.id = awaiting[p]]_vars

(* Round robin: a participant that can run is passed over only by one that  *)
(* comes before it in the cyclic order, so every turn of another brings it  *)
(* closer, and it stays runnable until its turn comes                       *)
(* (orchestrator.rs:879-898).                                               *)
RoundRobin ==
    [][\A p \in Participant :
         (Active /\ pc' # "idle" /\ Runnable(p)) =>
           /\ Runnable(p)' \/ (pc = "turn" /\ current = p)
           /\ (pc = "pick" /\ pc' \in {"turn", "ended"} /\ ~NobodyRunnable /\ current' # p) =>
                Distance(nextIndex', p) < Distance(nextIndex, p)]_vars

(* Every run ends: by itself when the environment answers what it accepted, *)
(* and by its clocks when it does not (orchestrator.rs:644-729).            *)
RunEnds == (EnvFairness \/ ClockFairness) => ((pc # "idle") ~> (pc = "idle"))

(***************************************************************************)
(* The inductive strengthening the proofs of OrchestratorProofs.tla use    *)
(***************************************************************************)

(* Where an answer can be on its way to the run loop. *)
InFlight == Range(queued) \cup Range(batch) \cup Range(events)

(* A turn is taken by a live participant whose inbox was just handed over.  *)
TurnInv ==
    pc = "turn" =>
        /\ current \in roster \ finished
        /\ loop[current] = "ReadyForTurn"
        /\ loopInbox[current] = <<>>

(* Only "apply" has polled events to apply, only participants of the run    *)
(* have loops, and below the limits the run has got past "limits".          *)
PhaseInv ==
    Active =>
        /\ (pc = "apply") <=> (batch # <<>>)
        /\ \A p \in Participant : loop[p] # "Idle" => p \in roster

(* Ids above the action counter are unused; every answer in flight is       *)
(* addressed to the participant that is on record for its action, and comes *)
(* after the environment stopped working on it.                             *)
AddressInv ==
    Active =>
        /\ \A a \in ActionId : a > actions =>
               /\ a \notin pending /\ running[a] = Nobody
               /\ \A e \in InFlight : e.kind \in AnswerKinds => e.id # a
        /\ \A e \in InFlight : e.kind \in AnswerKinds =>
               /\ e.id \in ActionId
               /\ submitted[e.id] \in {Nobody, e.participant}
               /\ running[e.id] = Nobody
        /\ \A a \in ActionId : running[a] # Nobody => submitted[a] = running[a]

(* The inductive invariant behind BlockedIsAnswerable and NoLostWakeup.     *)
IInv == TypeOK /\ TurnInv /\ PhaseInv /\ AddressInv /\ NoLostWakeup /\ BlockedIsAnswerable
=============================================================================
