----------------------------- MODULE Evaluation -----------------------------
(***************************************************************************)
(* One evaluation (crates/evals/src).  A user, scripted or simulated by a  *)
(* model, and the agent talk through the run loop; when it has ended the   *)
(* trajectory is compared with the actions the specification expects, then *)
(* the rest of the criteria are looked at and a model judges the others.   *)
(*                                                                         *)
(* The run loop is reduced to what an evaluation starts it with: the user  *)
(* speaks first, an action is answered before the agent's next turn, and a *)
(* limit or a failure may stop it at any turn.  The criteria are not read  *)
(* before the end and are chosen there.                                    *)
(***************************************************************************)
EXTENDS Integers, SequencesExt, FiniteSetsExt

CONSTANTS
    AgentActions,    \* the actions the agent may request, with arguments
    CriteriaLists,   \* the criteria of the specifications evaluated
    JudgeReplies,    \* what a judge may write, or "unreachable"
    MaxRequested,    \* bound: actions in a run
    MaxRounds        \* bound: messages of the user

(* The criteria of a specification are a list of the five kinds.           *)
CriterionKinds ==
    {"ActionSequence", "ActionCount", "FinalMessageRequired", "ForbidFinishReason", "LlmJudge"}
ASSUME EvaluationAssumption ==
    \A cs \in CriteriaLists :
        /\ cs \in Seq(ToSet(cs))
        /\ \A i \in DOMAIN cs :
              /\ cs[i].kind \in CriterionKinds
              /\ cs[i].kind = "ActionSequence" =>
                    /\ cs[i].actions \in Seq(ToSet(cs[i].actions))
                    /\ cs[i].ordered \in BOOLEAN /\ cs[i].extra \in BOOLEAN
              /\ cs[i].kind = "ActionCount" => cs[i].min \in Nat

VARIABLES
    user,        \* "scripted" or "simulated"
    events,      \* the trajectory
    turn,        \* who speaks next; "over"; "done"; "panicked"
    reason,      \* why the run ended
    criteria,    \* the criteria of the specification
    passed,      \* the verdict so far
    requests,    \* the criteria put to the judge, each with its evidence
    replies      \* what the judge wrote, one reply for each request

evaluationVars == <<user, events, turn, reason, criteria, passed, requests, replies>>

(***************************************************************************)
(* The trajectory                                                          *)
(***************************************************************************)
Said(who, content) == [kind |-> "ParticipantMessage", participant |-> who, content |-> content]
Requested(action) == [kind |-> "ActionRequested", participant |-> "agent", action |-> action]
Answered(kind) == [kind |-> kind, participant |-> "agent"]

IsMessageOf(event, who) == event.kind = "ParticipantMessage" /\ event.participant = who

(* The actions the agent requested, in order.                              *)
EventsOf(log, kinds) ==
    LET kept[n \in 0 .. Len(log)] ==
            IF n = 0 THEN <<>>
            ELSE IF log[n].kind \in kinds THEN Append(kept[n - 1], log[n]) ELSE kept[n - 1]
    IN  kept[Len(log)]
RequestsIn(log) == EventsOf(log, {"ActionRequested"})
RequestedActions == [i \in DOMAIN RequestsIn(events) |-> RequestsIn(events)[i].action]

FinalAgentMessages == {i \in DOMAIN events : IsMessageOf(events[i], "agent")}

(* What a judge is shown: the trace, and the trajectory with its sequence  *)
(* numbers; texts are left out.                                            *)
TraceKinds == {"ParticipantMessage", "ActionRequested", "ActionCompleted", "ActionFailed"}
TraceEvents == EventsOf(events, TraceKinds)
SerializedEvents == [i \in DOMAIN events |-> <<i - 1, events[i].kind, events[i].participant>>]

(***************************************************************************)
(* Comparing actions                                                       *)
(***************************************************************************)
ArgumentsMatch(expected, actual) ==
    \/ expected.shape = "absent"
    \/ expected.shape = "mapping" /\ expected.pairs \subseteq actual

ActionMatches(expected, actual) ==
    /\ expected.action = actual.action
    /\ ArgumentsMatch(expected, actual.arguments)

(* In order, others allowed between: from the action after the last match. *)
MatchAfter(cursor, e, actual) ==
    LET found == {j \in DOMAIN actual : j > cursor /\ ActionMatches(e, actual[j])}
    IN  IF found = {} THEN Len(actual) + 1 ELSE Min(found)
MatchesInOrder(expected, actual) ==
    LET cursor[n \in 0 .. Len(expected)] ==
            IF n = 0 THEN 0 ELSE MatchAfter(cursor[n - 1], expected[n], actual)
    IN  cursor[Len(expected)] <= Len(actual)

MatchesPairwise(expected, actual) ==
    /\ Len(expected) = Len(actual)
    /\ \A i \in DOMAIN expected : ActionMatches(expected[i], actual[i])

(* A mutant: an action may stand for several expectations.                 *)
MatchesActionSetReusing(expected, actual, extra) ==
    /\ extra \/ Len(expected) = Len(actual)
    /\ \A i \in DOMAIN expected : \E j \in DOMAIN actual : ActionMatches(expected[i], actual[j])

(* In any order: each expectation takes the first action still unused; 0    *)
(* stands for one that finds none.                                          *)
Take(used, e, actual) ==
    LET free == {j \in DOMAIN actual : j \notin used /\ ActionMatches(e, actual[j])}
    IN  IF 0 \in used \/ free = {} THEN {0} ELSE used \union {Min(free)}
MatchesActionSet(expected, actual, extra) ==
    LET taken[n \in 0 .. Len(expected)] ==
            IF n = 0 THEN {} ELSE Take(taken[n - 1], expected[n], actual)
    IN  /\ extra \/ Len(expected) = Len(actual)
        /\ 0 \notin taken[Len(expected)]
        /\ extra \/ taken[Len(expected)] = DOMAIN actual

MatchesActionSequence(c, actual) ==
    IF ~ c.ordered THEN MatchesActionSet(c.actions, actual, c.extra)
    ELSE IF c.extra THEN MatchesInOrder(c.actions, actual)
    ELSE MatchesPairwise(c.actions, actual)

(***************************************************************************)
(* The verdict, in the order in which it is made                           *)
(***************************************************************************)
CountOf(action, actual) == Cardinality({j \in DOMAIN actual : actual[j].action = action})

(* SpecEvaluator::evaluate, called by the run loop on the trajectory.      *)
EvaluatePasses(cs, actual) ==
    \A i \in DOMAIN cs :
        /\ cs[i].kind = "ActionSequence" => MatchesActionSequence(cs[i], actual)
        /\ cs[i].kind = "ActionCount" => CountOf(cs[i].action, actual) >= cs[i].min

(* The finish reasons of these runs, as a specification writes them.       *)
FinishReasonName ==
    [ParticipantFinished |-> "participant_finished",
     ParticipantCompletedLoop |-> "participant_completed_loop",
     TimeLimitExceeded |-> "time_limit_exceeded",
     ParticipantError |-> "participant_error"]

RunCriteriaPass ==
    \A i \in DOMAIN criteria :
        /\ criteria[i].kind = "FinalMessageRequired" => FinalAgentMessages # {}
        /\ criteria[i].kind = "ForbidFinishReason" => FinishReasonName[reason] # criteria[i].reason

Judged ==
    LET listed[n \in 0 .. Len(criteria)] ==
            IF n = 0 THEN <<>>
            ELSE IF criteria[n].kind = "LlmJudge" THEN Append(listed[n - 1], n)
                 ELSE listed[n - 1]
    IN  listed[Len(criteria)]
JudgeRequests ==
    [n \in DOMAIN Judged |->
        [criterion |-> Judged[n], trace |-> TraceEvents, trajectory |-> SerializedEvents]]

(* A reply is a sequence of braces, truth values (the verdict in an object) *)
(* and other words.  One that is no object is cut from its first opening to *)
(* its last closing brace; if these are in the wrong order, slicing panics. *)
IsVerdict(reply) == Len(reply) = 3 /\ reply[1] = "{" /\ reply[2] \in {"yes", "no"} /\ reply[3] = "}"
FirstOpening(reply) ==
    LET at == {i \in DOMAIN reply : reply[i] = "{"} IN IF at = {} THEN 1 ELSE Min(at)
LastClosing(reply) ==
    LET at == {i \in DOMAIN reply : reply[i] = "}"} IN IF at = {} THEN Len(reply) ELSE Max(at)
ParseJudgeVerdict(reply) ==
    LET cut == SubSeq(reply, FirstOpening(reply), LastClosing(reply))
    IN  IF FirstOpening(reply) > LastClosing(reply) + 1 THEN "panic"
        ELSE IF ~ IsVerdict(cut) THEN "invalid"
        ELSE cut[2]

(* What becomes of a request: one that the judge did not answer with a      *)
(* verdict has failed, and so has every request when there is no judge.     *)
JudgeResult(reply) == IF reply = <<"unreachable">> THEN "invalid" ELSE ParseJudgeVerdict(reply)

(***************************************************************************)
(* The run                                                                 *)
(***************************************************************************)
EvaluationInit ==
    /\ user \in {"scripted", "simulated"}
    /\ events = <<>> /\ turn = "user" /\ reason = "none"
    /\ criteria = <<>> /\ passed = TRUE /\ requests = <<>> /\ replies = <<>>

(* The run loop records the end, evaluates, and records the evaluation.    *)
EndRun(log, why) ==
    /\ reason' = why /\ turn' = "over"
    /\ criteria' \in CriteriaLists
    /\ events' = log \o <<[kind |-> "SessionFinished", participant |-> "none"],
                          [kind |-> "EvaluationCompleted", participant |-> "none"]>>
    /\ passed' = EvaluatePasses(criteria', RequestedActions)
    /\ UNCHANGED <<user, requests, replies>>

GoOn(log, next) ==
    /\ events' = log /\ turn' = next
    /\ UNCHANGED <<user, reason, criteria, passed, requests, replies>>

(* A scripted user speaks once and then finishes.  A simulated one says    *)
(* what its model writes, and finishes when that is FINISH or nothing; its *)
(* work item is always a message of another, so that it never yields.      *)
Spoken == \E i \in DOMAIN events : IsMessageOf(events[i], "user")
Finishes(reply) == IF user = "scripted" THEN Spoken ELSE reply \in {"FINISH", ""}

UserTurn ==
    /\ turn = "user"
    /\ \E reply \in {"text", "FINISH", ""} :
          IF Finishes(reply)
          THEN EndRun(Append(events, [kind |-> "ParticipantFinished", participant |-> "user"]),
                      "ParticipantFinished")
          ELSE /\ Cardinality({i \in DOMAIN events : IsMessageOf(events[i], "user")}) < MaxRounds
               /\ GoOn(events \o <<Said("user", "text"),
                                   [kind |-> "ParticipantLoopCompleted", participant |-> "user"]>>,
                       "agent")

AgentActs ==
    /\ turn = "agent" /\ Len(RequestedActions) < MaxRequested
    /\ \E action \in AgentActions, answer \in {"ActionCompleted", "ActionFailed"} :
          GoOn(events \o <<Requested(action), Answered(answer)>>, "agent")

(* The agent's message ends its loop, and with a scripted user the run.    *)
AgentSpeaks ==
    LET log == events \o <<Said("agent", "text"),
                           [kind |-> "ParticipantLoopCompleted", participant |-> "agent"]>>
    IN  /\ turn = "agent"
        /\ IF user = "scripted" THEN EndRun(log, "ParticipantCompletedLoop") ELSE GoOn(log, "user")

(* The clock of 90 seconds runs out, or a model cannot be reached.         *)
Stops ==
    /\ turn \in {"user", "agent"}
    /\ \E why \in {"TimeLimitExceeded", "ParticipantError"} : EndRun(events, why)

(* The criteria of the run as a whole, and the judge, who answers every    *)
(* request, whatever became of the ones before; what failed in the run and *)
(* what the judge refused is added to what the evaluator found.            *)
Conclude ==
    /\ turn = "over"
    /\ requests' = JudgeRequests
    /\ replies' \in [DOMAIN JudgeRequests -> JudgeReplies]
    /\ IF \E n \in DOMAIN replies' : JudgeResult(replies'[n]) = "panic"
       THEN turn' = "panicked" /\ UNCHANGED passed
       ELSE /\ turn' = "done"
            /\ passed' = (/\ passed /\ RunCriteriaPass
                          /\ \A n \in DOMAIN replies' : JudgeResult(replies'[n]) = "yes")
    /\ UNCHANGED <<user, events, reason, criteria>>

EvaluationNext == UserTurn \/ AgentActs \/ AgentSpeaks \/ Stops \/ Conclude

EvaluationSpec == EvaluationInit /\ [][EvaluationNext]_evaluationVars

(***************************************************************************)
(* Properties                                                              *)
(***************************************************************************)
(* The ways to assign actions to expectations, all different.              *)
Assignments(expected, actual) ==
    {f \in [DOMAIN expected -> DOMAIN actual] :
        /\ IsInjective(f)
        /\ \A i \in DOMAIN expected : ActionMatches(expected[i], actual[f[i]])}
Increasing(f) == \A i, j \in DOMAIN f : i < j => f[i] < f[j]
Expected(c, actual) ==
    /\ c.extra \/ Len(c.actions) = Len(actual)
    /\ \E f \in Assignments(c.actions, actual) : c.ordered => Increasing(f)

(* An expectation that precedes one it overlaps takes the first action that *)
(* is left, even if the later one has no other; then a run that did what    *)
(* was expected may be refused (evaluator.rs:663).                          *)
Taking(e, actual) == {j \in DOMAIN actual : ActionMatches(e, actual[j])}
Misordered(c, actual) ==
    /\ ~ c.ordered
    /\ \E i, j \in DOMAIN c.actions :
         /\ i < j /\ Taking(c.actions[i], actual) \cap Taking(c.actions[j], actual) # {}
         /\ ~ Taking(c.actions[i], actual) \subseteq Taking(c.actions[j], actual)

Satisfied(i) ==
    LET c == criteria[i] IN
    CASE c.kind = "ActionSequence" -> Expected(c, RequestedActions)
      [] c.kind = "ActionCount" ->
            \E js \in SUBSET DOMAIN RequestedActions :
                /\ Cardinality(js) = c.min
                /\ \A j \in js : RequestedActions[j].action = c.action
      [] c.kind = "FinalMessageRequired" -> \E n \in DOMAIN events : IsMessageOf(events[n], "agent")
      [] c.kind = "ForbidFinishReason" -> FinishReasonName[reason] # c.reason
      [] c.kind = "LlmJudge" ->
            \E n \in DOMAIN requests :
                requests[n].criterion = i /\ JudgeResult(replies[n]) = "yes"

(* A finished evaluation has passed exactly if every criterion holds of the *)
(* run, be it decided by the run loop's evaluator, after the run or by the  *)
(* judge: no later step forgives what an earlier one found, and no answer   *)
(* of the judge counts for another criterion.  It may only refuse too much, *)
(* and only where expectations without an order are misordered.  The judge  *)
(* is shown the actions the evaluator compared, and the end of the run.     *)
VerdictIsSound ==
    turn = "done" =>
        /\ \A n \in DOMAIN requests :
              /\ RequestsIn(requests[n].trace) = RequestsIn(events)
              /\ requests[n].trajectory[Len(events) - 1] =
                    <<Len(events) - 2, "SessionFinished", "none">>
        /\ passed => \A i \in DOMAIN criteria : Satisfied(i)
        /\ (\A i \in DOMAIN criteria : Satisfied(i)) =>
              \/ passed
              \/ \E i \in DOMAIN criteria :
                    criteria[i].kind = "ActionSequence" /\ Misordered(criteria[i], RequestedActions)
=============================================================================
