---------------------------- MODULE Environment ----------------------------
(***************************************************************************)
(* What the run loop relies on from an environment: the Environment trait  *)
(* (crates/orchestrator/src/traits.rs) at the grain the loop can observe.  *)
(* An environment accepts deferred actions, works on them in its own time, *)
(* and hands out everything it has to say when it is polled.               *)
(*                                                                         *)
(* The promise stated here is that an accepted action is answered (it      *)
(* completes or fails) at most once, to the participant that scheduled it, *)
(* and that a reset forgets every accepted action.  Orchestrator.tla is    *)
(* checked against this promise.                                           *)
(***************************************************************************)
EXTENDS Naturals, Sequences, Functions

CONSTANTS
    NumParticipants,  \* participants are numbered as in Orchestrator.participants
    MaxActions,       \* RunLimits.max_actions, which also bounds the ids in play
    ChatterKinds,     \* events an environment may send besides answers
    MaxChatter        \* bound on the unsolicited events of one run

ASSUME EnvironmentAssumption ==
    /\ NumParticipants \in Nat \ {0}
    /\ MaxActions \in Nat
    /\ MaxChatter \in Nat
    /\ ChatterKinds \subseteq {"ActionScheduled", "ActionRunStatus", "Notification"}

Participant == 0 .. NumParticipants - 1

(* No participant: the absent case of an Option<ParticipantId>. *)
Nobody == NumParticipants

(* The k-th action of a run is known by k: ids are fresh, nothing else matters. *)
ActionId == 1 .. MaxActions
NoAction == 0

AnswerKinds == {"ActionCompleted", "ActionFailed"}
EventKinds == AnswerKinds \cup {"ActionScheduled", "ActionRunStatus", "Notification"}

(* EnvironmentEvent, without payloads. *)
EnvEvent == [kind : EventKinds, participant : Participant, id : ActionId \cup {NoAction}]

Event(k, p, a) == [kind |-> k, participant |-> p, id |-> a]

VARIABLES
    running,   \* running[a]: the participant whose accepted action a is not answered yet
    events,    \* what the next poll_events returns
    chatter    \* unsolicited events sent in this run, for the bound only

envVars == <<running, events, chatter>>

(* The places of a queue that answer action a. *)
AnswersIn(queue, a) ==
    {i \in 1 .. Len(queue) : queue[i].kind \in AnswerKinds /\ queue[i].id = a}

EnvInit ==
    /\ running = [a \in ActionId |-> Nobody]
    /\ events = <<>>
    /\ chatter = 0

(* reset: a new task starts from a clean environment. *)
Reset ==
    /\ running' = [a \in ActionId |-> Nobody]
    /\ events' = <<>>
    /\ chatter' = 0

(* schedule accepted: the environment owes participant p an answer for a. *)
Accept(a, p) ==
    /\ running' = [running EXCEPT ![a] = p]
    /\ UNCHANGED <<events, chatter>>

(* poll_events: everything that is waiting is handed over. *)
Poll ==
    /\ events' = <<>>
    /\ UNCHANGED <<running, chatter>>

(* The environment's own steps, concurrent with the run loop. *)
Answer(a) ==
    /\ running[a] # Nobody
    /\ \E k \in AnswerKinds : events' = Append(events, Event(k, running[a], a))
    /\ running' = [running EXCEPT ![a] = Nobody]
    /\ UNCHANGED chatter

(* Something other than an answer: a notice, or news of an action under way. *)
Notice ==
    /\ \E k \in ChatterKinds, p \in Participant :
         \/ /\ k = "Notification"
            /\ events' = Append(events, Event(k, p, NoAction))
         \/ \E a \in ActionId :
              /\ k # "Notification"
              /\ running[a] = p
              /\ events' = Append(events, Event(k, p, a))
    /\ UNCHANGED running

Chatter ==
    /\ chatter < MaxChatter
    /\ chatter' = chatter + 1
    /\ Notice

EnvNext == Chatter \/ \E a \in ActionId : Answer(a)

(* What an implementation has to refine: the calls of the run loop and the  *)
(* environment's own steps, without the bound on unsolicited events.        *)
PromiseNext ==
    \/ Reset \/ Poll \/ Notice
    \/ \E a \in ActionId : Answer(a)
    \/ \E a \in ActionId, p \in Participant : running[a] = Nobody /\ Accept(a, p)

Promise == EnvInit /\ [][PromiseNext]_<<running, events>>

=============================================================================
