--------------------------- MODULE MCOrchestrator ---------------------------
(* Values for the model checker: the constants of Orchestrator that a .cfg  *)
(* cannot spell.                                                            *)
EXTENDS Orchestrator

Unlimited == NoLimit
AllDecisions == {"Notification", "Message", "FinalMessage", "Handoff", "Immediate",
                 "DeferredBlocking", "DeferredNonBlocking", "Yield", "Finish"}

(* Talking, waiting and working participants: enough to interleave loops.   *)
LiveDecisions == {"Message", "FinalMessage", "Immediate", "DeferredBlocking",
                  "DeferredNonBlocking", "Yield"}
WorkDecisions == {"FinalMessage", "Immediate", "DeferredBlocking", "DeferredNonBlocking",
                  "Yield", "Finish"}

AllFaults == {"reset", "terminated", "environment", "output", "perform", "schedule",
              "participant", "evaluator"}
Notices == {"Notification"}
AllChatter == {"ActionScheduled", "ActionRunStatus", "Notification"}
=============================================================================
