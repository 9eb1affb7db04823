---------------------------- MODULE RunLifecycle ----------------------------
(***************************************************************************)
(* What the subscribers of the execution engine may rely on: the order in  *)
(* which the events of a run are published (core/src/event.rs), one event  *)
(* per step.  A run is submitted and started, then external calls go one   *)
(* at a time through queued, claimed and answered, and the last event says *)
(* how the run ended.  Once the engine was restarted events may be missing, *)
(* and an action may be claimed again, but nothing follows the last event  *)
(* all the same.  Once a write has failed nothing is promised any more.    *)
(***************************************************************************)
CONSTANT Runs

VARIABLES
    stage,      \* the last event of each run
    restarted,  \* whether the engine was ever restarted
    faulty      \* whether a write has failed

Before == [RunSubmitted    |-> {"None"},
           RunStarted      |-> {"RunSubmitted"},
           ActionEnqueued  |-> {"RunStarted", "RunResumed"},
           ActionClaimed   |-> {"ActionEnqueued"},
           ActionCompleted |-> {"ActionClaimed"},
           RunResumed      |-> {"ActionCompleted"},
           RunCompleted    |-> {"RunStarted", "RunResumed"},
           ActionFailed    |-> {"ActionClaimed"},
           RunFailed       |-> {"ActionFailed"}]

Over == {"RunCompleted", "RunFailed"}

Init == stage = [r \in Runs |-> "None"] /\ restarted = FALSE /\ faulty = FALSE

Publish(r, kind) ==
    /\ stage[r] \in Before[kind]
    /\ stage' = [stage EXCEPT ![r] = kind]
    /\ UNCHANGED <<restarted, faulty>>

Restart == restarted' = TRUE /\ UNCHANGED <<stage, faulty>>

(* After a restart the next thing heard of a run is the action it waits for. *)
Reclaim(r) ==
    /\ restarted /\ stage[r] \notin Over
    /\ stage' = [stage EXCEPT ![r] = "ActionClaimed"]
    /\ UNCHANGED <<restarted, faulty>>

Next ==
    \/ faulty' = TRUE
    \/ Restart
    \/ \E r \in Runs : Reclaim(r) \/ \E kind \in DOMAIN Before : Publish(r, kind)

Spec == Init /\ [][Next]_<<stage, restarted, faulty>>
=============================================================================
