---------------------------- MODULE MCComponents ----------------------------
(***************************************************************************)
(* Values for the model checker of the components that share no state with *)
(* the others: the agent's prompt, the model's answer to it, the           *)
(* provisioning of a skill, the names of a catalog, the conversion of a    *)
(* call's values and an evaluation.  They are checked by one run: a        *)
(* behaviour is one of one of them, the subject, with the others in a      *)
(* state they begin in.                                                    *)
(***************************************************************************)
EXTENDS AgentPrompt, SkillProvisioning, SkillCatalog, Evaluation, ResponseStream

VARIABLES
    subject,
    type, results, object, shape, stage, data

(* Two skills whose namespaces collide, two versions of one, and a function *)
(* that three skills have.                                                  *)
Entry(s, v, fs) == [skill |-> s, version |-> v, profile |-> "default", exports |-> fs]
EntryOrder ==
    <<Entry("my-mail", 1, <<"send">>), Entry("my.mail", 1, <<"send", "add">>),
      Entry("notes", 1, <<"add", "list">>), Entry("notes", 2, <<"add">>),
      Entry("todo", 1, <<"add", "list">>)>>
Namespaces ==
    [s \in {"my-mail", "my.mail", "notes", "todo"} |->
        IF s \in {"notes", "todo"} THEN s ELSE "my_mail"]

(* The named types of a skill, and types to depth two.                      *)
TypeDefs ==
    [point |-> <<"record", <<<<"y", <<"option", <<"u32">>>>>>, <<"x", <<"s32">>>>>>>>,
     color |-> <<"enum", {"red", "green"}>>,
     names |-> <<"alias", <<"list", <<"string">>>>>>,
     choice |-> <<"variant", {}>>]
Scalars ==
    {<<"bool">>, <<"s8">>, <<"s32">>, <<"s64">>, <<"u8">>, <<"u32">>, <<"u64">>, <<"char">>,
     <<"string">>, <<"float64">>} \union {<<"named", n>> : n \in DOMAIN TypeDefs}
Types ==
    Scalars
    \union {<<kind, t>> : kind \in {"option", "list"}, t \in Scalars}
    \union {<<"tuple", <<t, <<"string">>>>>> : t \in Scalars}
    \union {<<"option", <<"option", <<"s32">>>>>>, <<"list", <<"option", <<"named", "point">>>>>>,
            <<"result", <<"s32">>>>}

(* Objects at the bounds of each width, records with a field less or more.  *)
Fields(x, y) == [f \in {"x", "y"} |-> IF f = "x" THEN <<"Int", x>> ELSE y]
Simple ==
    {<<"None">>, <<"Bool", FALSE>>, <<"Str", "red">>, <<"Str", "blue">>, <<"Float">>}
    \union {<<"Int", n>> : n \in {-16, -5, -4, -1, 0, 3, 4, 7, 8, 15}}
Points ==
    {<<kind, "P", Fields(x, y)>> :
        kind \in {"NamedTuple", "Dataclass"}, x \in {3, 4}, y \in {<<"None">>, <<"Int", 7>>}}
Objects ==
    Simple \union Points
    \union {<<"Dataclass", "Q", [x |-> <<"Int", 1>>]>>,
            <<"Dataclass", "Q", [x |-> <<"Int", 1>>, y |-> <<"None">>, z |-> <<"Int", 1>>]>>,
            <<"Dataclass", "Q", [x |-> <<"Int", 1>>, y |-> <<"None">>, z |-> <<"Float">>]>>,
            <<"Dict", <<<<<<"Str", "x">>, <<"Int", 1>>>>>>>>,
            <<"List", <<>>>>, <<"List", <<<<"None">>, <<"Int", 1>>, <<"Str", "red">>>>>>}
    \union {<<"List", <<o>>>> : o \in Simple \union Points}
    \union {<<"Tuple", <<o, <<"Str", "red">>>>>> : o \in Simple \union Points}

(* Each argument given once, or one missing, twice, unknown or too many.    *)
Shapes ==
    {[positional |-> 2, named |-> {}], [positional |-> 1, named |-> {"flag"}],
     [positional |-> 0, named |-> {"value", "flag"}], [positional |-> 1, named |-> {}],
     [positional |-> 1, named |-> {"value", "flag"}],
     [positional |-> 1, named |-> {"other", "flag"}], [positional |-> 3, named |-> {}]}

(* Texts, calls begun and finished under names of their own or not.         *)
ServerEvent(kind, item, name, ok) == [kind |-> kind, item |-> item, name |-> name, ok |-> ok]
ItemIds == {1, 2}
EventsOfServer ==
    {ServerEvent(kind, 1, "", TRUE) : kind \in {"text", "blank", "other", "delta", "done"}}
    \union {ServerEvent("added", 1, name, TRUE) : name \in {"run", "load"}}
    \union {ServerEvent("done", 1, "load", TRUE), ServerEvent("done", 2, "", TRUE),
            ServerEvent("done", 1, "run", FALSE)}

(* Actions whose arguments two expectations may both match, and lists of    *)
(* criteria with every way to compare one or two expectations.              *)
AgentAction(action, arguments) == [action |-> action, arguments |-> arguments]
ActionsRequested ==
    {AgentAction("load", {}), AgentAction("run", {<<"x", 1>>}),
     AgentAction("run", {<<"x", 1>>, <<"y", 1>>})}
Expects(action, form, pairs) == [action |-> action, shape |-> form, pairs |-> pairs]
Expectations ==
    {Expects("load", "absent", {}), Expects("run", "mapping", {<<"x", 1>>}),
     Expects("run", "mapping", {<<"y", 1>>})}
Judge == [kind |-> "LlmJudge"]
Final == [kind |-> "FinalMessageRequired"]
Forbid(why) == [kind |-> "ForbidFinishReason", reason |-> why]
AtLeast(n, action) == [kind |-> "ActionCount", action |-> action, min |-> n]
Specifications ==
    {<<[kind |-> "ActionSequence", actions |-> actions, ordered |-> o, extra |-> x]>> :
        actions \in UNION {[1 .. n -> Expectations] : n \in 1 .. 2}, o, x \in BOOLEAN}
    \union {<<Judge, AtLeast(2, "run"), Judge>>, <<Final, Judge>>,
            <<Forbid("time_limit_exceeded"), Final>>,
            <<Forbid("participant_finished"), AtLeast(1, "load")>>}

(* A judge that cannot be reached, verdicts, one within other words, and    *)
(* texts that are no verdict.                                               *)
RepliesOfJudge ==
    {<<"unreachable">>, <<"{", "yes", "}">>, <<"{", "no", "}">>, <<"word">>,
     <<"word", "{", "yes", "}", "word">>, <<"}", "word", "{">>}

valueVars == <<type, results, object, shape, stage, data>>
vars ==
    <<subject, promptVars, provisioningVars, catalogVars, valueVars, streamVars, evaluationVars>>

Values == INSTANCE ValueConversion

valuesIdle ==
    /\ type = <<"bool">> /\ results = "none" /\ object = <<"None">>
    /\ shape = [positional |-> 2, named |-> {}] /\ stage = "idle" /\ data = <<>>

streamIdle ==
    /\ reply = <<>> /\ missing = 0 /\ arrived = 0 /\ buffer = <<>>
    /\ names = [i \in Items |-> ""] /\ content = <<>> /\ call = NoCall
    /\ status = "open"

Init ==
    /\ subject \in {"prompt", "provisioning", "catalog", "values", "stream", "evaluation"}
    /\ PromptInit /\ ProvisioningInit /\ CatalogInit
    /\ IF subject = "values" THEN Values!Init ELSE valuesIdle
    /\ IF subject = "stream" THEN StreamInit ELSE streamIdle
    /\ EvaluationInit /\ (subject # "evaluation" => user = "scripted")

Next ==
    \/ /\ subject = "prompt" /\ PromptNext
       /\ UNCHANGED <<subject, provisioningVars, catalogVars, valueVars, streamVars, evaluationVars>>
    \/ /\ subject = "provisioning" /\ ProvisioningNext
       /\ UNCHANGED <<subject, promptVars, catalogVars, valueVars, streamVars, evaluationVars>>
    \/ /\ subject = "catalog" /\ CatalogNext
       /\ UNCHANGED <<subject, promptVars, provisioningVars, valueVars, streamVars, evaluationVars>>
    \/ /\ subject = "values" /\ Values!Next
       /\ UNCHANGED <<subject, promptVars, provisioningVars, catalogVars, streamVars, evaluationVars>>
    \/ /\ subject = "stream" /\ StreamNext
       /\ UNCHANGED <<subject, promptVars, provisioningVars, catalogVars, valueVars, evaluationVars>>
    \/ /\ subject = "evaluation" /\ EvaluationNext
       /\ UNCHANGED <<subject, promptVars, provisioningVars, catalogVars, valueVars, streamVars>>

Spec == Init /\ [][Next]_vars

(* A value passed to a skill and back is the same value, or refused         *)
(* (ValueConversion).                                                       *)
EchoReturns == subject = "values" => Values!EchoReturns
=============================================================================
