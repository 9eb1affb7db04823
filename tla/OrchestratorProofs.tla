------------------------- MODULE OrchestratorProofs -------------------------
(***************************************************************************)
(* Proofs about the run loop, for every number of participants, every      *)
(* limit and every environment that keeps the promise of Environment.tla.  *)
(***************************************************************************)
EXTENDS Orchestrator, FiniteSetTheorems, SequenceTheorems, WellFoundedInduction, TLAPS

(***************************************************************************)
(* Facts about queues                                                      *)
(***************************************************************************)

(* The elements of a queue after an event is appended to it. *)
LEMMA RangeAppend ==
    ASSUME NEW S, NEW s \in Seq(S), NEW e \in S
    PROVE  Range(Append(s, e)) = Range(s) \cup {e}
<1>1. /\ Append(s, e) \in Seq(S) /\ Len(Append(s, e)) = Len(s) + 1
      /\ \A i \in 1 .. Len(s) : Append(s, e)[i] = s[i]
      /\ Append(s, e)[Len(s) + 1] = e
  BY AppendProperties
<1>2. /\ Range(s) = {s[i] : i \in 1 .. Len(s)}
      /\ Range(Append(s, e)) = {Append(s, e)[i] : i \in 1 .. Len(s) + 1}
      /\ Len(s) \in Nat
  BY <1>1, RangeEquality, LenProperties
<1>3. QED BY <1>1, <1>2

(* A queue is its head and its tail. *)
LEMMA RangeHeadTail ==
    ASSUME NEW S, NEW s \in Seq(S), s # <<>>
    PROVE  Range(s) = {Head(s)} \cup Range(Tail(s))
<1>1. /\ Tail(s) \in Seq(S) /\ Len(Tail(s)) = Len(s) - 1
      /\ \A i \in 1 .. Len(Tail(s)) : Tail(s)[i] = s[i + 1]
  BY HeadTailProperties
<1>2. /\ Range(s) = {s[i] : i \in 1 .. Len(s)}
      /\ Range(Tail(s)) = {Tail(s)[i] : i \in 1 .. Len(s) - 1}
      /\ Len(s) \in Nat \ {0} /\ Head(s) = s[1]
  <2>1. Range(s) = {s[i] : i \in 1 .. Len(s)} BY RangeEquality
  <2>2. Range(Tail(s)) = {Tail(s)[i] : i \in 1 .. Len(s) - 1} BY <1>1, RangeEquality
  <2>3. Len(s) \in Nat \ {0} /\ Head(s) = s[1] OBVIOUS
  <2>4. QED BY <2>1, <2>2, <2>3
<1>3. Range(s) \subseteq {Head(s)} \cup Range(Tail(s))
  <2>1. SUFFICES ASSUME NEW i \in 1 .. Len(s)
                 PROVE  s[i] \in {Head(s)} \cup Range(Tail(s))
    BY <1>2
  <2>2. CASE i = 1 BY <2>2, <1>2
  <2>3. CASE i # 1
    <3>1. i - 1 \in 1 .. Len(s) - 1 /\ Tail(s)[i - 1] = s[i] BY <2>3, <1>1, <1>2
    <3>2. QED BY <3>1, <1>2
  <2>4. QED BY <2>2, <2>3
<1>4. {Head(s)} \cup Range(Tail(s)) \subseteq Range(s)
  <2>1. SUFFICES ASSUME NEW i \in 1 .. Len(s) - 1
                 PROVE  Tail(s)[i] \in Range(s)
    BY <1>2
  <2>2. i + 1 \in 1 .. Len(s) /\ Tail(s)[i] = s[i + 1] BY <1>1, <1>2
  <2>3. QED BY <2>2, <1>2
<1>5. QED BY <1>3, <1>4

(***************************************************************************)
(* Type correctness                                                        *)
(***************************************************************************)

(* Delivery keeps the loops and the inboxes well typed. *)
LEMMA DeliveryType ==
    ASSUME TypeOK, NEW S, NEW item \in InboxEvent
    PROVE  /\ LoopAfter(S, item) \in [Participant -> LoopStates]
           /\ AwaitingAfter(S, item) \in [Participant -> ActionId \cup {NoAction}]
           /\ LoopInboxAfter(S, item) \in [Participant -> Seq(InboxEvent)]
           /\ PendingInboxAfter(S, item) \in [Participant -> Seq(InboxEvent)]
BY DEF TypeOK, LoopAfter, AwaitingAfter, LoopInboxAfter, PendingInboxAfter, LoopStates

(* The same for the primed variables of Deliver. *)
LEMMA DeliverType ==
    ASSUME TypeOK, NEW S, NEW item \in InboxEvent, Deliver(S, item)
    PROVE  /\ loop' \in [Participant -> LoopStates]
           /\ awaiting' \in [Participant -> ActionId \cup {NoAction}]
           /\ loopInbox' \in [Participant -> Seq(InboxEvent)]
           /\ pendingInbox' \in [Participant -> Seq(InboxEvent)]
BY DeliveryType DEF Deliver

(* The first startable item of an inbox is one of its items. *)
LEMMA FirstStartableExists ==
    ASSUME NEW inbox \in Seq(InboxEvent), HasStartable(inbox)
    PROVE  FirstStartable(inbox) \in 1 .. Len(inbox)
<1> DEFINE T == {k \in 1 .. Len(inbox) : Startable(inbox[k])}
<1>1. T \subseteq Nat /\ T # {} BY LenProperties DEF HasStartable
<1>2. PICK k \in T : \A j \in T : ~(<<j, k>> \in OpToRel(<, Nat))
  BY <1>1, NatLessThanWellFounded, WFMin, Zenon
<1>3. \A j \in 1 .. k - 1 : ~Startable(inbox[j])
  <2>1. SUFFICES ASSUME NEW j \in 1 .. k - 1, Startable(inbox[j]) PROVE FALSE
    OBVIOUS
  <2>2. j \in T /\ k \in Nat /\ j \in Nat /\ j < k BY <2>1, LenProperties
  <2>3. QED BY <1>2, <2>2 DEF OpToRel
<1>4. QED BY <1>3 DEF FirstStartable

(* Taking the work item out of an inbox leaves an inbox. *)
LEMMA WorkItemType ==
    ASSUME NEW inbox \in Seq(InboxEvent), HasStartable(inbox)
    PROVE  WithoutWorkItem(inbox) \in Seq(InboxEvent)
<1> DEFINE i == FirstStartable(inbox)
<1>1. i \in 1 .. Len(inbox) BY FirstStartableExists
<1>2. /\ SubSeq(inbox, 1, i - 1) \in Seq(InboxEvent)
      /\ SubSeq(inbox, i + 1, Len(inbox)) \in Seq(InboxEvent)
  BY <1>1, SubSeqProperties, LenProperties, ElementOfSeq
<1>3. QED BY <1>2 DEF WithoutWorkItem

(* A verdict of any kind is a well-formed result. *)
LEMMA StopType ==
    ASSUME TypeOK, NEW r \in Reasons, NEW p \in Participant \cup {Nobody}, Stop(Verdict(r, p))
    PROVE  /\ pc' \in Phases /\ roster' \in {{}, Participant}
           /\ result' \in [reason : Reasons, who : Participant \cup {Nobody}]
BY DEF Stop, Verdict, TypeOK, Phases

(* The verdict of enforce_run_limits is one of the reasons a run can end with. *)
LEMMA LimitReasonType ==
    ASSUME NEW st, NEW fl, NEW cs
    PROVE  LimitReason(st, fl, cs) \in Reasons
BY DEF LimitReason, Reasons

(* Going on, or stopping for the message limit. *)
LEMMA MessageVerdictType ==
    ASSUME TypeOK, NEW count, MessageVerdict(count)
    PROVE  /\ pc' \in Phases /\ roster' \in {{}, Participant}
           /\ result' \in [reason : Reasons, who : Participant \cup {Nobody}]
<1>1. CASE count > MaxMessages
  BY <1>1, StopType DEF MessageVerdict, Reasons
<1>2. CASE ~(count > MaxMessages)
  BY <1>2 DEF MessageVerdict, Continue, TypeOK, Phases
<1>3. QED BY <1>1, <1>2

(* A counted turn keeps the counters of steps natural (CountTurn). *)
LEMMA CountTurnType ==
    ASSUME TypeOK, NEW p \in Participant, CountTurn(p)
    PROVE  steps' \in Nat /\ loopSteps' \in [Participant -> Nat]
<1>1. steps \in Nat /\ loopSteps \in [Participant -> Nat]
  BY DEF TypeOK
<1>2. loopSteps[p] + 1 \in Nat
  BY <1>1
<1>3. steps' = steps + 1 /\ loopSteps' = [loopSteps EXCEPT ![p] = loopSteps[p] + 1]
  BY DEF CountTurn
<1>4. QED BY <1>1, <1>2, <1>3

(* Each step keeps the variables of the loop and of the environment typed. *)
LEMMA TypeStep ==
    ASSUME TypeOK, PhaseInv, [Next]_vars
    PROVE  TypeOK'
<1> USE EnvironmentAssumption, OrchestratorAssumption
<1>1. CASE StartRun
  <2>1. pendingInbox' \in [Participant -> Seq(InboxEvent)]
    <3>1. <<Item("Message", NoAction)>> \in Seq(InboxEvent) /\ <<>> \in Seq(InboxEvent)
      BY DEF Item, InboxEvent, InboxKinds
    <3>2. QED BY <1>1, <3>1 DEF StartRun
  <2>2. result' \in [reason : Reasons, who : Participant \cup {Nobody}] /\ pc' \in Phases
    BY <1>1 DEF StartRun, NoVerdict, Reasons, Phases
  <2>3. /\ loop' \in [Participant -> LoopStates] /\ loopSteps' \in [Participant -> Nat]
        /\ awaiting' \in [Participant -> ActionId \cup {NoAction}]
        /\ loopInbox' \in [Participant -> Seq(InboxEvent)]
        /\ submitted' \in [ActionId -> Participant \cup {Nobody}]
        /\ running' \in [ActionId -> Participant \cup {Nobody}]
    BY <1>1 DEF StartRun, Reset, LoopStates
  <2>4. events' \in Seq(EnvEvent) /\ queued' \in Seq(EnvEvent) /\ batch' \in Seq(EnvEvent)
    BY <1>1 DEF StartRun, Reset
  <2>5. QED BY <1>1, <2>1, <2>2, <2>3, <2>4 DEF StartRun, Reset, TypeOK
<1>2. CASE ResetFails
  BY <1>2 DEF ResetFails, TypeOK, Verdict, Reasons, counters, loops, book, clocks, envVars
<1>3. CASE CheckLimits
  <2>1. /\ pc' \in Phases /\ roster' \in {{}, Participant}
        /\ result' \in [reason : Reasons, who : Participant \cup {Nobody}]
    BY <1>3, StopType, LimitReasonType DEF CheckLimits, TypeOK, Phases
  <2>2. QED BY <1>3, <2>1 DEF CheckLimits, TypeOK, loopLocals, counters, loops, book, envVars
<1>4. CASE PollEnvironment
  <2>1. batch' \in Seq(EnvEvent) /\ queued' \in Seq(EnvEvent) /\ events' \in Seq(EnvEvent)
    <3>1. queued \in Seq(EnvEvent) /\ events \in Seq(EnvEvent)
      BY DEF TypeOK
    <3>2. batch' = queued \o events /\ queued' = <<>> /\ events' = <<>>
      BY <1>4 DEF PollEnvironment, Poll
    <3>3. queued \o events \in Seq(EnvEvent)
      BY <3>1, ConcatProperties
    <3>4. QED BY <3>2, <3>3
  <2>2. pc' \in Phases /\ UNCHANGED <<running, chatter>>
    BY <1>4 DEF PollEnvironment, Poll, Phases
  <2>3. UNCHANGED <<roster, nextIndex, result, current, counters, loops, book, clocks>>
    BY <1>4 DEF PollEnvironment
  <2>4. QED
    BY <2>1, <2>2, <2>3 DEF TypeOK, counters, loops, book, clocks
<1>5. CASE EnvironmentTerminates
  BY <1>5 DEF EnvironmentTerminates, Stop, Verdict, TypeOK, Phases, Reasons, loopLocals,
              counters, loops, book, envVars
<1>6. CASE ApplyEvent
  <2> DEFINE e == Head(batch)
  <2>1. batch \in Seq(EnvEvent) /\ batch # <<>>
    BY <1>6 DEF ApplyEvent, PhaseInv, Active, TypeOK
  <2>2. e \in EnvEvent /\ Tail(batch) \in Seq(EnvEvent)
    BY <2>1, HeadTailProperties
  <2>3. e.kind # "ActionRunStatus" => Item(e.kind, e.id) \in InboxEvent
    BY <2>2 DEF EnvEvent, EventKinds, AnswerKinds, Item, InboxEvent, InboxKinds
  <2>4. /\ loop' \in [Participant -> LoopStates]
        /\ awaiting' \in [Participant -> ActionId \cup {NoAction}]
        /\ loopInbox' \in [Participant -> Seq(InboxEvent)]
        /\ pendingInbox' \in [Participant -> Seq(InboxEvent)]
    <3>1. CASE e.kind = "ActionRunStatus"
      BY <1>6, <3>1 DEF ApplyEvent, TypeOK
    <3>2. CASE e.kind # "ActionRunStatus"
      <4>1. Deliver({e.participant} \cap roster, Item(e.kind, e.id))
        BY <1>6, <3>2 DEF ApplyEvent
      <4>2. QED BY <4>1, <3>2, <2>3, DeliverType
    <3>3. QED BY <3>1, <3>2
  <2>5. failed' \in Nat /\ consecutive' \in Nat /\ pending' \subseteq ActionId
        /\ submitted' \in [ActionId -> Participant \cup {Nobody}]
    <3>1. failed' \in Nat /\ consecutive' \in Nat /\ pending' \subseteq ActionId
      <4>1. /\ failed' = failed \/ failed' = failed + 1
            /\ consecutive' = consecutive \/ consecutive' = consecutive + 1 \/ consecutive' = 0
            /\ pending' = pending \/ pending' = pending \ {e.id}
        BY <1>6 DEF ApplyEvent
      <4>2. failed' \in Nat /\ consecutive' \in Nat BY <4>1 DEF TypeOK
      <4>3. pending' \subseteq ActionId BY <4>1 DEF TypeOK
      <4>4. QED BY <4>2, <4>3
    <3>2. submitted' \in [ActionId -> Participant \cup {Nobody}]
      <4>1. submitted' = submitted \/ submitted' = [submitted EXCEPT ![e.id] = Nobody]
        BY <1>6 DEF ApplyEvent
      <4>2. QED BY <4>1 DEF TypeOK
    <3>3. QED BY <3>1, <3>2
  <2>6. batch' \in Seq(EnvEvent) /\ pc' \in Phases /\ roster' \in {{}, Participant}
        /\ result' \in [reason : Reasons, who : Participant \cup {Nobody}]
    <3> DEFINE reason == LimitReason(steps, failed', consecutive')
    <3>1. reason \in Reasons BY LimitReasonType
    <3>2. CASE reason = "none"
      BY <1>6, <2>2, <3>2 DEF ApplyEvent, TypeOK, Phases
    <3>3. CASE reason # "none"
      <4>1. batch' = <<>> /\ Stop(Verdict(reason, Nobody)) BY <1>6, <3>3 DEF ApplyEvent
      <4>2. QED BY <4>1, <3>1, StopType
    <3>4. QED BY <3>2, <3>3
  <2>7. QED
    BY <1>6, <2>4, <2>5, <2>6 DEF ApplyEvent, TypeOK, clocks, envVars
<1>7. CASE NobodyToRun
  <2>1. \/ \E r \in Reasons : Stop(Verdict(r, Nobody)) /\ UNCHANGED waitClock
        \/ Continue /\ waitClock' = "running"
    BY <1>7 DEF NobodyToRun, Reasons
  <2>2. /\ pc' \in Phases /\ roster' \in {{}, Participant}
        /\ result' \in [reason : Reasons, who : Participant \cup {Nobody}]
        /\ waitClock' \in {"off", "running", "expired"}
    BY <2>1, StopType DEF Continue, TypeOK, Phases
  <2>3. QED BY <1>7, <2>2 DEF NobodyToRun, TypeOK, counters, loops, book, envVars
<1>8. ASSUME NEW p \in Participant, PickParticipant(p) PROVE TypeOK'
  <2>1. (p + 1) % NumParticipants \in Participant
    BY DEF Participant
  <2>2. loop[p] = "Idle" => WithoutWorkItem(pendingInbox[p]) \in Seq(InboxEvent)
    BY <1>8, WorkItemType DEF PickParticipant, IsNext, Runnable, TypeOK
  <2>3. loopInbox' \in [Participant -> Seq(InboxEvent)]
    <3>1. \/ loopInbox' = [loopInbox EXCEPT ![p] = <<>>]
          \/ loopInbox' = loopInbox
          \/ /\ loop[p] = "Idle"
             /\ loopInbox' = [loopInbox EXCEPT ![p] = WithoutWorkItem(pendingInbox[p])]
      <4>1. CASE loop[p] = "Idle" BY <1>8, <4>1 DEF PickParticipant
      <4>2. CASE loop[p] # "Idle" BY <1>8, <4>2 DEF PickParticipant, TypeOK
      <4>3. QED BY <4>1, <4>2
    <3>2. loopInbox \in [Participant -> Seq(InboxEvent)] BY DEF TypeOK
    <3>3. <<>> \in Seq(InboxEvent) OBVIOUS
    <3>4. QED BY <3>1, <3>2, <3>3, <2>2
  <2>4. pc' \in Phases /\ roster' \in {{}, Participant}
        /\ result' \in [reason : Reasons, who : Participant \cup {Nobody}]
    <3>1. \/ Stop(Verdict("AgentLoopStepLimitExceeded", p))
          \/ pc' = "turn" /\ UNCHANGED <<roster, result>>
      BY <1>8 DEF PickParticipant
    <3>2. QED BY <3>1, StopType DEF Reasons, TypeOK, Phases
  <2>5. loop' \in [Participant -> LoopStates] /\ loopSteps' \in [Participant -> Nat]
        /\ pendingInbox' \in [Participant -> Seq(InboxEvent)]
    BY <1>8 DEF PickParticipant, TypeOK, LoopStates
  <2>6. QED
    BY <1>8, <2>1, <2>3, <2>4, <2>5 DEF PickParticipant, TypeOK, counters, book, envVars
<1>9. ASSUME NEW p \in Participant, Decide(p) PROVE TypeOK'
  <2>1. Item("Message", NoAction) \in InboxEvent
    BY DEF Item, InboxEvent, InboxKinds
  <2>2. CASE Notification(p)
    <3>1. /\ pc' \in Phases /\ roster' \in {{}, Participant}
          /\ result' \in [reason : Reasons, who : Participant \cup {Nobody}]
      BY <2>2, MessageVerdictType DEF Notification
    <3>2. loopSteps' \in [Participant -> Nat] /\ steps' \in Nat /\ messages' \in Nat
      <4>1. CountTurn(p) /\ messages' = messages + 1
        BY <2>2 DEF Notification
      <4>2. messages' \in Nat BY <4>1 DEF TypeOK
      <4>3. QED BY <4>1, <4>2, CountTurnType
    <3>3. QED BY <2>2, <3>1, <3>2 DEF Notification, TypeOK, book, clocks, envVars
  <2>3. CASE Message(p)
    <3>1. Deliver(Audience(p), Item("Message", NoAction)) BY <2>3 DEF Message
    <3>2. /\ loop' \in [Participant -> LoopStates]
          /\ awaiting' \in [Participant -> ActionId \cup {NoAction}]
          /\ loopInbox' \in [Participant -> Seq(InboxEvent)]
          /\ pendingInbox' \in [Participant -> Seq(InboxEvent)]
      BY <3>1, <2>1, DeliverType
    <3>3. QED
      <4>1. /\ pc' \in Phases /\ roster' \in {{}, Participant}
            /\ result' \in [reason : Reasons, who : Participant \cup {Nobody}]
        BY <2>3, MessageVerdictType DEF Message
      <4>2. loopSteps' \in [Participant -> Nat] /\ steps' \in Nat /\ messages' \in Nat
        <5>1. CountTurn(p) /\ messages' = messages + 1
          BY <2>3 DEF Message
        <5>2. messages' \in Nat BY <5>1 DEF TypeOK
        <5>3. QED BY <5>1, <5>2, CountTurnType
      <4>3. QED BY <2>3, <3>2, <4>1, <4>2 DEF Message, TypeOK, book, clocks, envVars
  <2>4. CASE FinalMessage(p)
    <3> DEFINE to == Audience(p)
               item == Item("Message", NoAction)
    <3>1. /\ LoopAfter(to, item) \in [Participant -> LoopStates]
          /\ AwaitingAfter(to, item) \in [Participant -> ActionId \cup {NoAction}]
          /\ LoopInboxAfter(to, item) \in [Participant -> Seq(InboxEvent)]
          /\ PendingInboxAfter(to, item) \in [Participant -> Seq(InboxEvent)]
      BY <2>1, DeliveryType
    <3>2. /\ loop' \in [Participant -> LoopStates]
          /\ awaiting' \in [Participant -> ActionId \cup {NoAction}]
          /\ loopInbox' \in [Participant -> Seq(InboxEvent)]
          /\ pendingInbox' \in [Participant -> Seq(InboxEvent)]
      <4>1. PendingInboxAfter(to, item)[p] \o loopInbox[p] \in Seq(InboxEvent)
        BY <3>1, ConcatProperties DEF TypeOK
      <4> HIDE DEF to, item
      <4>2. QED BY <2>4, <3>1, <4>1 DEF FinalMessage, LoopStates, to, item
    <3>3. QED
      <4>1. /\ pc' \in Phases /\ roster' \in {{}, Participant}
            /\ result' \in [reason : Reasons, who : Participant \cup {Nobody}]
        BY <2>4, StopType, MessageVerdictType DEF FinalMessage, Reasons
      <4>2. loopSteps' \in [Participant -> Nat] /\ steps' \in Nat /\ messages' \in Nat
        BY <2>4 DEF FinalMessage, TypeOK
      <4>3. QED BY <2>4, <3>2, <4>1, <4>2 DEF FinalMessage, TypeOK, book, clocks, envVars
  <2>5. ASSUME NEW handoff \in BOOLEAN, RefusedAction(p, handoff) PROVE TypeOK'
    <3>1. /\ pc' \in Phases /\ roster' \in {{}, Participant}
          /\ result' \in [reason : Reasons, who : Participant \cup {Nobody}]
      BY <2>5, StopType DEF RefusedAction, Reasons
    <3>2. CountAction(p, handoff) BY <2>5 DEF RefusedAction
    <3>3. actions' \in Nat /\ messages' \in Nat
      BY <3>2 DEF CountAction, TypeOK
    <3>4. steps' \in Nat /\ loopSteps' \in [Participant -> Nat]
      BY <3>2, CountTurnType DEF CountAction
    <3>5. QED
      BY <2>5, <3>1, <3>3, <3>4 DEF RefusedAction, TypeOK, book, clocks, envVars
  <2>6. ASSUME NEW handoff \in BOOLEAN, ~ActionRefused(handoff), CountAction(p, handoff)
        PROVE  /\ actions' \in ActionId /\ messages' \in Nat /\ steps' \in Nat
               /\ loopSteps' \in [Participant -> Nat]
    <3>1. actions' = actions + 1 /\ ~(actions + 1 > MaxActions)
      BY <2>6 DEF ActionRefused, CountAction
    <3>2. actions' \in ActionId BY <3>1 DEF ActionId, TypeOK
    <3>3. messages' \in Nat BY <2>6 DEF CountAction, TypeOK
    <3>4. steps' \in Nat /\ loopSteps' \in [Participant -> Nat]
      BY <2>6, CountTurnType DEF CountAction
    <3>5. QED BY <3>2, <3>3, <3>4
  <2>7. ASSUME NEW handoff \in BOOLEAN, ImmediateAction(p, handoff) PROVE TypeOK'
    <3>1. actions' \in ActionId /\ messages' \in Nat /\ steps' \in Nat
          /\ loopSteps' \in [Participant -> Nat]
      BY <2>6, <2>7 DEF ImmediateAction
    <3>2. Event("ActionCompleted", p, actions') \in EnvEvent
      BY <3>1 DEF Event, EnvEvent, EventKinds, AnswerKinds
    <3>3. QED
      <4>1. /\ pc' \in Phases /\ roster' \in {{}, Participant}
            /\ result' \in [reason : Reasons, who : Participant \cup {Nobody}]
        <5>1. Continue \/ Stop(Verdict("EnvironmentError", Nobody))
          BY <2>7 DEF ImmediateAction
        <5>2. QED BY <5>1, StopType DEF Reasons, Continue, TypeOK, Phases
      <4>2. /\ submitted' \in [ActionId -> Participant \cup {Nobody}]
            /\ queued' \in Seq(EnvEvent)
        <5>1. \/ UNCHANGED <<submitted, queued>>
              \/ /\ submitted' = [submitted EXCEPT ![actions'] = p]
                 /\ queued' = Append(queued, Event("ActionCompleted", p, actions'))
          BY <2>7 DEF ImmediateAction
        <5>2. submitted' \in [ActionId -> Participant \cup {Nobody}]
          BY <5>1, <3>1 DEF TypeOK
        <5>3. Append(queued, Event("ActionCompleted", p, actions')) \in Seq(EnvEvent)
          BY <3>2, AppendProperties DEF TypeOK
        <5>4. QED BY <5>1, <5>2, <5>3 DEF TypeOK
      <4>3. actions' \in Nat BY <3>1 DEF ActionId
      <4>4. QED
        BY <2>7, <3>1, <4>1, <4>2, <4>3 DEF ImmediateAction, TypeOK, clocks, envVars
  <2>8. ASSUME NEW handoff \in BOOLEAN, NEW blocking \in BOOLEAN,
               ScheduledAction(p, blocking, handoff)
        PROVE  TypeOK'
    <3> DEFINE item == Item("ActionScheduled", actions')
    <3>1. actions' \in ActionId /\ actions' \in Nat /\ messages' \in Nat /\ steps' \in Nat
          /\ loopSteps' \in [Participant -> Nat]
      BY <2>6, <2>8 DEF ScheduledAction, ActionId
    <3>2. item \in InboxEvent
      BY <3>1 DEF Item, InboxEvent, InboxKinds
    <3>3. /\ loop' \in [Participant -> LoopStates]
          /\ awaiting' \in [Participant -> ActionId \cup {NoAction}]
          /\ loopInbox' \in [Participant -> Seq(InboxEvent)]
          /\ pendingInbox' \in [Participant -> Seq(InboxEvent)]
      <4>1. CASE blocking
        <5>1. /\ loop' = [loop EXCEPT ![p] = "WaitingForActionCompletion"]
              /\ awaiting' = [awaiting EXCEPT ![p] = actions']
              /\ loopInbox' = [loopInbox EXCEPT ![p] = Append(@, item)]
              /\ UNCHANGED pendingInbox
          BY <2>8, <4>1 DEF ScheduledAction
        <5>2. Append(loopInbox[p], item) \in Seq(InboxEvent)
          BY <3>2, AppendProperties DEF TypeOK
        <5> HIDE DEF item
        <5>3. QED BY <5>1, <5>2, <3>1 DEF TypeOK, LoopStates
      <4>2. CASE ~blocking
        <5>1. Deliver({p}, item) BY <2>8, <4>2 DEF ScheduledAction
        <5>2. QED BY <5>1, <3>2, DeliverType
      <4>3. QED BY <4>1, <4>2
    <3>4. QED
      BY <2>8, <3>1, <3>3 DEF ScheduledAction, Accept, Continue, TypeOK, Phases, clocks
  <2>9. ASSUME NEW handoff \in BOOLEAN, UnscheduledAction(p, handoff) PROVE TypeOK'
    <3>1. actions' \in ActionId /\ messages' \in Nat /\ steps' \in Nat
          /\ loopSteps' \in [Participant -> Nat]
      BY <2>6, <2>9 DEF UnscheduledAction
    <3>2. Event("ActionFailed", p, actions') \in EnvEvent
      BY <3>1 DEF Event, EnvEvent, EventKinds, AnswerKinds
    <3>3. QED
      <4>1. /\ submitted' \in [ActionId -> Participant \cup {Nobody}]
            /\ queued' \in Seq(EnvEvent)
        BY <2>9, <3>1, <3>2 DEF UnscheduledAction, TypeOK
      <4>2. actions' \in Nat BY <3>1 DEF ActionId
      <4>3. QED
        BY <2>9, <3>1, <4>1, <4>2 DEF UnscheduledAction, Continue, TypeOK, Phases, clocks,
                                      envVars
  <2>10. CASE Yield(p)
    <3>1. steps' \in Nat /\ loopSteps' \in [Participant -> Nat]
      BY <2>10, CountTurnType DEF Yield
    <3>2. loop' \in [Participant -> LoopStates]
      BY <2>10 DEF Yield, TypeOK, LoopStates
    <3>3. pc' \in Phases /\ UNCHANGED <<roster, result>>
      BY <2>10 DEF Yield, Continue, Phases
    <3>4. QED BY <2>10, <3>1, <3>2, <3>3 DEF Yield, TypeOK, book, clocks, envVars
  <2>11. CASE Finish(p)
    BY <2>11 DEF Finish, Turn, FinishVerdict, Stop, Continue, Verdict, TypeOK, Phases,
                 Reasons, LoopStates, counters, book, clocks, envVars
  <2>12. CASE ParticipantFails(p)
    BY <2>12 DEF ParticipantFails, Stop, Verdict, TypeOK, Phases, Reasons, loopLocals,
                 counters, loops, book, envVars
  <2>13. Handoffs \subseteq BOOLEAN BY DEF Handoffs
  <2>14. QED
    BY <1>9, <2>2, <2>3, <2>4, <2>5, <2>7, <2>8, <2>9, <2>10, <2>11, <2>12, <2>13 DEF Decide
<1>10. CASE EndRun
  BY <1>10 DEF EndRun, TypeOK, Phases, counters, loops, book, clocks, envVars
<1>11. CASE Abort
  BY <1>11 DEF Abort, Verdict, TypeOK, Phases, Reasons, counters, loops, book, clocks, envVars
<1>12. CASE EnvStep
  <2>1. chatter' \in Nat /\ running' \in [ActionId -> Participant \cup {Nobody}]
    <3>1. ASSUME NEW a \in ActionId, Answer(a)
          PROVE  chatter' \in Nat /\ running' \in [ActionId -> Participant \cup {Nobody}]
      BY <3>1 DEF Answer, TypeOK
    <3>2. ASSUME Chatter
          PROVE  chatter' \in Nat /\ running' \in [ActionId -> Participant \cup {Nobody}]
      BY <3>2 DEF Chatter, Notice, TypeOK
    <3>3. QED BY <1>12, <3>1, <3>2 DEF EnvStep, EnvNext
  <2>2. events' \in Seq(EnvEvent)
    <3>1. ASSUME NEW a \in ActionId, Answer(a) PROVE events' \in Seq(EnvEvent)
      BY <3>1 DEF Answer, TypeOK, EnvEvent, Event, EventKinds
    <3>2. ASSUME Chatter PROVE events' \in Seq(EnvEvent)
      <4>1. PICK k \in ChatterKinds, p \in Participant :
              \/ events' = Append(events, Event(k, p, NoAction))
              \/ \E a \in ActionId : events' = Append(events, Event(k, p, a))
        BY <3>2 DEF Chatter, Notice
      <4>2. \A a \in ActionId \cup {NoAction} : Event(k, p, a) \in EnvEvent
        BY DEF Event, EnvEvent, EventKinds
      <4>3. PICK x \in EnvEvent : events' = Append(events, x) BY <4>1, <4>2
      <4>4. QED BY <4>3, AppendProperties DEF TypeOK
    <3>3. QED BY <1>12, <3>1, <3>2 DEF EnvStep, EnvNext
  <2>3. QED
    BY <1>12, <2>1, <2>2 DEF EnvStep, TypeOK, control, counters, loops, book, clocks
<1>13. CASE WaitExpires
  BY <1>13 DEF WaitExpires, TypeOK, control, counters, loops, book, envVars
<1>14. CASE DurationElapses
  BY <1>14 DEF DurationElapses, TypeOK, control, counters, loops, book, envVars
<1>15. CASE UNCHANGED vars
  BY <1>15 DEF vars, TypeOK, control, counters, loops, book, clocks, envVars
<1>16. QED
  BY <1>1, <1>2, <1>3, <1>4, <1>5, <1>6, <1>7, <1>8, <1>9, <1>10, <1>11, <1>12, <1>13,
     <1>14, <1>15 DEF Next, RunStep

(* A fresh orchestrator is well typed. *)
LEMMA TypeInit ==
    ASSUME Init
    PROVE  TypeOK
<1> USE EnvironmentAssumption, OrchestratorAssumption
<1>1. 0 \in Participant BY DEF Participant
<1>2. <<>> \in Seq(EnvEvent) /\ <<>> \in Seq(InboxEvent) OBVIOUS
<1>3. /\ loop \in [Participant -> LoopStates] /\ loopSteps \in [Participant -> Nat]
      /\ awaiting \in [Participant -> ActionId \cup {NoAction}]
      /\ loopInbox \in [Participant -> Seq(InboxEvent)]
      /\ pendingInbox \in [Participant -> Seq(InboxEvent)]
      /\ submitted \in [ActionId -> Participant \cup {Nobody}]
      /\ running \in [ActionId -> Participant \cup {Nobody}]
  BY <1>2 DEF Init, EnvInit, LoopStates
<1>4. result \in [reason : Reasons, who : Participant \cup {Nobody}] /\ pc \in Phases
  BY DEF Init, NoVerdict, Reasons, Phases
<1>5. QED BY <1>1, <1>2, <1>3, <1>4 DEF Init, EnvInit, TypeOK

(***************************************************************************)
(* The inductive invariant, conjunct by conjunct                           *)
(***************************************************************************)

(* A loop is at turn only right after it was picked and handed its inbox.   *)
LEMMA TurnStep ==
    ASSUME TypeOK, TurnInv, [Next]_vars
    PROVE  TurnInv'
<1>1. ASSUME NEW p \in Participant, PickParticipant(p) PROVE TurnInv'
  BY <1>1 DEF PickParticipant, IsNext, Runnable, TurnInv, Stop, TypeOK
<1>2. CASE EnvStep \/ WaitExpires \/ DurationElapses \/ UNCHANGED vars
  BY <1>2 DEF EnvStep, WaitExpires, DurationElapses, vars, control, loops, TurnInv
<1>3. CASE StartRun \/ ResetFails \/ EndRun \/ Abort
  BY <1>3 DEF StartRun, ResetFails, EndRun, Abort, TurnInv
<1>4. CASE CheckLimits \/ PollEnvironment \/ EnvironmentTerminates \/ ApplyEvent \/ NobodyToRun
  BY <1>4 DEF CheckLimits, PollEnvironment, EnvironmentTerminates, ApplyEvent, NobodyToRun,
              Stop, Continue, TurnInv
<1>5. ASSUME NEW p \in Participant, Decide(p) PROVE TurnInv'
  BY <1>5 DEF Decide, Notification, Message, FinalMessage, RefusedAction, ImmediateAction,
              ScheduledAction, UnscheduledAction, Yield, Finish, ParticipantFails,
              MessageVerdict, Stop, Continue, TurnInv
<1>6. QED BY <1>1, <1>2, <1>3, <1>4, <1>5 DEF Next, RunStep

(* Delivery starts no loop and ends none. *)
LEMMA DeliveryIdle ==
    ASSUME TypeOK, NEW S, NEW item, NEW p \in Participant
    PROVE  LoopAfter(S, item)[p] = "Idle" <=> loop[p] = "Idle"
BY DEF LoopAfter, Wakes

(* Polled events are only there to be applied, and loops belong to the run. *)
LEMMA PhaseStep ==
    ASSUME TypeOK, TurnInv, PhaseInv, [Next]_vars
    PROVE  PhaseInv'
<1>1. CASE EnvStep \/ WaitExpires \/ DurationElapses \/ UNCHANGED vars
  BY <1>1 DEF EnvStep, WaitExpires, DurationElapses, vars, control, loops, PhaseInv, Active
<1>2. CASE StartRun
  BY <1>2 DEF StartRun, PhaseInv, Active
<1>3. CASE ResetFails \/ EndRun \/ Abort
  BY <1>3 DEF ResetFails, EndRun, Abort, PhaseInv, Active
<1>4. CASE CheckLimits
  BY <1>4 DEF CheckLimits, Stop, loopLocals, loops, PhaseInv, Active
<1>5. CASE PollEnvironment
  BY <1>5 DEF PollEnvironment, loops, PhaseInv, Active
<1>6. CASE EnvironmentTerminates \/ NobodyToRun
  BY <1>6 DEF EnvironmentTerminates, NobodyToRun, Stop, Continue, loops, PhaseInv, Active
<1>7. CASE ApplyEvent
  <2>1. \A p \in Participant : loop'[p] = "Idle" <=> loop[p] = "Idle"
    BY <1>7, DeliveryIdle DEF ApplyEvent, Deliver
  <2>2. \/ batch' # <<>> /\ pc' = "apply" /\ UNCHANGED roster
        \/ batch' = <<>> /\ pc' = "pick" /\ UNCHANGED roster
        \/ pc' = "ended"
    BY <1>7 DEF ApplyEvent, Stop
  <2>3. QED BY <1>7, <2>1, <2>2 DEF ApplyEvent, PhaseInv, Active
<1>8. ASSUME NEW p \in Participant, PickParticipant(p) PROVE PhaseInv'
  BY <1>8 DEF PickParticipant, IsNext, Runnable, Stop, PhaseInv, Active, TypeOK
<1>9. ASSUME NEW p \in Participant, Decide(p) PROVE PhaseInv'
  <2>1. /\ pc = "turn" /\ batch' = batch /\ roster' = roster /\ pc' \in {"limits", "ended"}
        /\ current = p
    BY <1>9 DEF Decide, Notification, Message, FinalMessage, RefusedAction, ImmediateAction,
                ScheduledAction, UnscheduledAction, Yield, Finish, ParticipantFails, Turn,
                MessageVerdict, Stop, Continue, loopLocals
  <2>2. p \in roster BY <2>1 DEF TurnInv
  <2>3. \A q \in Participant : loop'[q] # "Idle" => loop[q] # "Idle" \/ q = p
    <3>1. CASE Message(p)
      BY <3>1, DeliveryIdle DEF Message, Deliver
    <3>2. CASE FinalMessage(p)
      <4>1. loop' = [LoopAfter(Audience(p), Item("Message", NoAction)) EXCEPT ![p] = "Idle"]
        BY <3>2 DEF FinalMessage
      <4>2. \A q \in Participant \ {p} :
                loop'[q] = LoopAfter(Audience(p), Item("Message", NoAction))[q]
        BY <4>1 DEF LoopAfter
      <4>3. QED BY <4>2, DeliveryIdle
    <3>3. ASSUME NEW handoff \in BOOLEAN, NEW blocking \in BOOLEAN,
                 ScheduledAction(p, blocking, handoff)
          PROVE  \A q \in Participant : loop'[q] # "Idle" => loop[q] # "Idle" \/ q = p
      <4>1. CASE blocking BY <3>3, <4>1 DEF ScheduledAction, TypeOK
      <4>2. CASE ~blocking BY <3>3, <4>2, DeliveryIdle DEF ScheduledAction, Deliver
      <4>3. QED BY <4>1, <4>2
    <3>4. CASE UNCHANGED loop BY <3>4
    <3>5. CASE Yield(p) \/ Finish(p) BY <3>5 DEF Yield, Finish, TypeOK
    <3>6. QED
      BY <1>9, <3>1, <3>2, <3>3, <3>4, <3>5
      DEF Decide, Handoffs, Notification, RefusedAction, ImmediateAction, UnscheduledAction,
          ParticipantFails, loopLocals, loops
  <2>4. QED BY <2>1, <2>2, <2>3 DEF PhaseInv, Active
<1>10. QED
  BY <1>1, <1>2, <1>3, <1>4, <1>5, <1>6, <1>7, <1>8, <1>9 DEF Next, RunStep

(* What delivery does to one participant, when its inboxes are in order. *)
LEMMA DeliveryWakeup ==
    ASSUME TypeOK, NoLostWakeup, NEW S, NEW item \in InboxEvent, NEW p \in Participant
    PROVE  /\ LoopAfter(S, item)[p] = "WaitingForInput" => LoopInboxAfter(S, item)[p] = <<>>
           /\ LoopAfter(S, item)[p] = "Idle" => LoopInboxAfter(S, item)[p] = <<>>
           /\ LoopAfter(S, item)[p] # "Idle" => PendingInboxAfter(S, item)[p] = <<>>
<1>1. CASE loop[p] = "Idle"
  BY <1>1 DEF LoopAfter, LoopInboxAfter, Wakes, NoLostWakeup
<1>2. CASE loop[p] # "Idle" /\ p \in S
  BY <1>2 DEF LoopAfter, PendingInboxAfter, Wakes, NoLostWakeup
<1>3. CASE loop[p] # "Idle" /\ p \notin S
  BY <1>3 DEF LoopAfter, LoopInboxAfter, PendingInboxAfter, NoLostWakeup
<1>4. QED BY <1>1, <1>2, <1>3

(* No step leaves an unread item with a loop that waits for input, nor an   *)
(* item in an inbox nobody looks at.                                        *)
LEMMA WakeupStep ==
    ASSUME TypeOK, TurnInv, PhaseInv, NoLostWakeup, [Next]_vars
    PROVE  NoLostWakeup'
<1>1. CASE UNCHANGED <<loop, loopInbox, pendingInbox>>
  BY <1>1 DEF NoLostWakeup
<1>2. ASSUME NEW S, NEW item \in InboxEvent, Deliver(S, item) PROVE NoLostWakeup'
  BY <1>2, DeliveryWakeup DEF Deliver, NoLostWakeup
<1>3. CASE StartRun
  BY <1>3 DEF StartRun, NoLostWakeup
<1>4. CASE ApplyEvent
  <2> DEFINE e == Head(batch)
  <2>1. e \in EnvEvent
    BY <1>4 DEF ApplyEvent, PhaseInv, Active, TypeOK
  <2>2. CASE e.kind = "ActionRunStatus" BY <1>4, <2>2, <1>1 DEF ApplyEvent
  <2>3. CASE e.kind # "ActionRunStatus"
    <3>1. Item(e.kind, e.id) \in InboxEvent
      BY <2>1, <2>3 DEF EnvEvent, EventKinds, AnswerKinds, Item, InboxEvent, InboxKinds
    <3>2. QED BY <1>4, <2>3, <3>1, <1>2 DEF ApplyEvent
  <2>4. QED BY <2>2, <2>3
<1>5. ASSUME NEW p \in Participant, PickParticipant(p) PROVE NoLostWakeup'
  <2>1. /\ loop' = [loop EXCEPT ![p] = "ReadyForTurn"]
        /\ pendingInbox' = [pendingInbox EXCEPT ![p] = IF loop[p] = "Idle" THEN <<>> ELSE @]
        /\ \A q \in Participant \ {p} : loopInbox'[q] = loopInbox[q]
    <3>1. CASE loop[p] = "Idle" BY <1>5, <3>1 DEF PickParticipant, TypeOK
    <3>2. CASE loop[p] # "Idle" BY <1>5, <3>2 DEF PickParticipant, TypeOK
    <3>3. QED BY <3>1, <3>2
  <2>2. loop'[p] = "ReadyForTurn" /\ pendingInbox'[p] = <<>>
    BY <2>1 DEF TypeOK, NoLostWakeup
  <2>3. \A q \in Participant \ {p} : loop'[q] = loop[q] /\ pendingInbox'[q] = pendingInbox[q]
    BY <2>1 DEF TypeOK
  <2>4. QED BY <2>1, <2>2, <2>3 DEF NoLostWakeup
<1>6. ASSUME NEW p \in Participant, Decide(p) PROVE NoLostWakeup'
  <2>1. /\ current = p /\ loop[p] = "ReadyForTurn" /\ loopInbox[p] = <<>>
        /\ pendingInbox[p] = <<>>
    <3>1. pc = "turn" /\ current = p
      BY <1>6 DEF Decide, Notification, Message, FinalMessage, RefusedAction, ImmediateAction,
                  ScheduledAction, UnscheduledAction, Yield, Finish, ParticipantFails, Turn
    <3>2. QED BY <3>1 DEF TurnInv, NoLostWakeup
  <2>2. Item("Message", NoAction) \in InboxEvent
    BY DEF Item, InboxEvent, InboxKinds
  <2>3. CASE Message(p) BY <2>3, <2>2, <1>2 DEF Message
  <2>4. CASE FinalMessage(p)
    <3> DEFINE to == Audience(p)
               item == Item("Message", NoAction)
    <3>1. /\ loop' = [LoopAfter(to, item) EXCEPT ![p] = "Idle"]
          /\ pendingInbox' = [PendingInboxAfter(to, item) EXCEPT ![p] = @ \o loopInbox[p]]
          /\ loopInbox' = [LoopInboxAfter(to, item) EXCEPT ![p] = <<>>]
      BY <2>4 DEF FinalMessage
    <3>2. loop'[p] = "Idle" /\ loopInbox'[p] = <<>>
      BY <3>1 DEF LoopAfter, LoopInboxAfter
    <3>3. \A q \in Participant \ {p} :
             /\ loop'[q] = LoopAfter(to, item)[q]
             /\ loopInbox'[q] = LoopInboxAfter(to, item)[q]
             /\ pendingInbox'[q] = PendingInboxAfter(to, item)[q]
      <4> HIDE DEF to, item
      <4>1. QED BY <3>1 DEF LoopAfter, LoopInboxAfter, PendingInboxAfter
    <3> HIDE DEF to, item
    <3>4. item \in InboxEvent BY <2>2 DEF item
    <3>5. QED BY <3>2, <3>3, <3>4, DeliveryWakeup DEF NoLostWakeup
  <2>5. ASSUME NEW handoff \in BOOLEAN, NEW blocking \in BOOLEAN,
               ScheduledAction(p, blocking, handoff)
        PROVE  NoLostWakeup'
    <3>1. CASE blocking
      <4>1. /\ loop' = [loop EXCEPT ![p] = "WaitingForActionCompletion"]
            /\ loopInbox' = [loopInbox EXCEPT ![p] = Append(@, Item("ActionScheduled", actions'))]
            /\ UNCHANGED pendingInbox
        BY <2>5, <3>1 DEF ScheduledAction
      <4>2. loop'[p] = "WaitingForActionCompletion" BY <4>1 DEF TypeOK
      <4>3. \A q \in Participant \ {p} : loop'[q] = loop[q] /\ loopInbox'[q] = loopInbox[q]
        BY <4>1 DEF TypeOK
      <4>4. QED BY <4>1, <4>2, <4>3, <2>1 DEF NoLostWakeup
    <3>2. CASE ~blocking
      <4>1. Deliver({p}, Item("ActionScheduled", actions')) BY <2>5, <3>2 DEF ScheduledAction
      <4>2. actions' \in ActionId
        BY <2>5, EnvironmentAssumption
        DEF ScheduledAction, ActionRefused, CountAction, ActionId, TypeOK
      <4>3. Item("ActionScheduled", actions') \in InboxEvent
        BY <4>2 DEF Item, InboxEvent, InboxKinds
      <4>4. QED BY <4>1, <4>3, <1>2
    <3>3. QED BY <3>1, <3>2
  <2>6. CASE Yield(p)
    BY <2>6, <2>1 DEF Yield, NoLostWakeup, TypeOK
  <2>7. CASE Finish(p)
    BY <2>7, <2>1 DEF Finish, NoLostWakeup, TypeOK
  <2>8. QED
    BY <1>6, <1>1, <2>3, <2>4, <2>5, <2>6, <2>7
    DEF Decide, Handoffs, Notification, RefusedAction, ImmediateAction, UnscheduledAction,
        ParticipantFails, loopLocals, loops
<1>7. CASE ResetFails \/ CheckLimits \/ PollEnvironment \/ EnvironmentTerminates \/ NobodyToRun
           \/ EndRun \/ Abort \/ EnvStep \/ WaitExpires \/ DurationElapses \/ UNCHANGED vars
  BY <1>7, <1>1 DEF ResetFails, CheckLimits, PollEnvironment, EnvironmentTerminates, NobodyToRun,
                    EndRun, Abort, EnvStep, WaitExpires, DurationElapses, vars, loopLocals, loops
<1>8. QED
  BY <1>3, <1>4, <1>5, <1>6, <1>7 DEF Next, RunStep

(***************************************************************************)
(* Answers under way                                                       *)
(***************************************************************************)

(* The elements of two queues, one after the other. *)
LEMMA RangeConcat ==
    ASSUME NEW S, NEW s \in Seq(S), NEW t \in Seq(S)
    PROVE  Range(s \o t) = Range(s) \cup Range(t)
BY RangeConcatenation

(* Nothing is in an empty queue. *)
LEMMA RangeEmpty == Range(<<>>) = {}
BY DEF Range

(* Every answer in flight stays addressed to whoever asked for it. *)
LEMMA AddressStep ==
    ASSUME TypeOK, TurnInv, PhaseInv, AddressInv, [Next]_vars
    PROVE  AddressInv'
<1> USE EnvironmentAssumption
<1> DEFINE In(Q, run, sub, act, pend) ==
             /\ \A a \in ActionId : a > act =>
                    /\ a \notin pend /\ run[a] = Nobody
                    /\ \A e \in Q : e.kind \in AnswerKinds => e.id # a
             /\ \A e \in Q : e.kind \in AnswerKinds =>
                    /\ e.id \in ActionId
                    /\ sub[e.id] \in {Nobody, e.participant}
                    /\ run[e.id] = Nobody
             /\ \A a \in ActionId : run[a] # Nobody => sub[a] = run[a]
<1>1. /\ AddressInv <=> (Active => In(InFlight, running, submitted, actions, pending))
      /\ AddressInv' <=> (Active' => In(InFlight', running', submitted', actions', pending'))
  BY DEF AddressInv
<1>2. CASE ~Active' BY <1>2, <1>1
<1>3. CASE Active' /\ Active /\ InFlight' \subseteq InFlight
           /\ UNCHANGED <<running, submitted, actions, pending>>
  BY <1>3, <1>1
<1>4. CASE StartRun
  <2>1. InFlight' = {}
    BY <1>4, RangeEmpty DEF StartRun, Reset, InFlight
  <2>2. /\ \A a \in ActionId : running'[a] = Nobody
        /\ pending' = {}
    BY <1>4 DEF StartRun, Reset
  <2>3. QED BY <1>1, <2>1, <2>2
<1>5. CASE PollEnvironment
  <2>1. InFlight' \subseteq InFlight
    <3>1. Range(batch') = Range(queued) \cup Range(events) /\ Range(queued') = {}
          /\ Range(events') = {}
      BY <1>5, RangeConcat, RangeEmpty DEF PollEnvironment, Poll, TypeOK
    <3>2. QED BY <3>1 DEF InFlight
  <2>2. QED BY <1>5, <2>1, <1>3, <1>2 DEF PollEnvironment, Poll, book, counters, Active
<1>6. CASE ApplyEvent
  <2> DEFINE e == Head(batch)
  <2>1. batch \in Seq(EnvEvent) /\ batch # <<>> /\ Active
    BY <1>6 DEF ApplyEvent, PhaseInv, Active, TypeOK
  <2>2. e \in InFlight /\ InFlight' \subseteq InFlight
    <3>1. Range(batch) = {e} \cup Range(Tail(batch)) BY <2>1, RangeHeadTail
    <3>2. batch' = Tail(batch) \/ batch' = <<>> BY <1>6 DEF ApplyEvent
    <3>3. Range(batch') \subseteq Range(batch) BY <3>1, <3>2, RangeEmpty
    <3>4. queued' = queued /\ events' = events BY <1>6 DEF ApplyEvent, envVars
    <3> HIDE DEF e
    <3>5. QED BY <3>1, <3>3, <3>4 DEF InFlight
  <2>3. running' = running /\ actions' = actions
    BY <1>6 DEF ApplyEvent, envVars
  <2>4. \/ pending' = pending /\ submitted' = submitted
        \/ /\ e.kind \in AnswerKinds /\ pending' = pending \ {e.id}
           /\ submitted' = [submitted EXCEPT ![e.id] = Nobody]
    BY <1>6 DEF ApplyEvent
  <2> HIDE DEF e
  <2>5. CASE pending' = pending /\ submitted' = submitted
    BY <2>1, <2>2, <2>3, <2>5, <1>3, <1>2
  <2>6. CASE /\ e.kind \in AnswerKinds /\ pending' = pending \ {e.id}
             /\ submitted' = [submitted EXCEPT ![e.id] = Nobody]
    <3>1. In(InFlight, running, submitted, actions, pending) BY <1>1, <2>1
    <3>2. running[e.id] = Nobody /\ e.id \in ActionId BY <3>1, <2>2, <2>6
    <3>3. \A a \in ActionId : submitted'[a] = IF a = e.id THEN Nobody ELSE submitted[a]
      BY <2>6 DEF TypeOK
    <3>4. \A a \in ActionId : running[a] # Nobody => submitted'[a] = running[a]
      BY <3>1, <3>2, <3>3
    <3>5. \A x \in InFlight' : x.kind \in AnswerKinds =>
                    /\ x.id \in ActionId
                    /\ submitted'[x.id] \in {Nobody, x.participant}
                    /\ running[x.id] = Nobody
      BY <3>1, <3>3, <2>2
    <3>6. \A a \in ActionId : a > actions =>
                    /\ a \notin pending' /\ running[a] = Nobody
                    /\ \A x \in InFlight' : x.kind \in AnswerKinds => x.id # a
      BY <3>1, <2>2, <2>6
    <3>7. QED BY <3>4, <3>5, <3>6, <2>3, <1>1
  <2>7. QED BY <2>4, <2>5, <2>6
<1>7. CASE \E p \in Participant : PickParticipant(p)
  BY <1>7, <1>2, <1>3 DEF PickParticipant, counters, book, envVars, InFlight, Active
<1>8. CASE CheckLimits \/ EnvironmentTerminates \/ NobodyToRun
  BY <1>8, <1>2, <1>3 DEF CheckLimits, EnvironmentTerminates, NobodyToRun, Stop, Continue,
                          loopLocals, counters, book, envVars, InFlight, Active
<1>9. CASE ResetFails \/ EndRun \/ Abort
  BY <1>9, <1>2 DEF ResetFails, EndRun, Abort, Active
<1>10. CASE WaitExpires \/ DurationElapses \/ UNCHANGED vars
  BY <1>10, <1>2, <1>3 DEF WaitExpires, DurationElapses, vars, control, counters, book, envVars,
                           InFlight, Active
<1>11. ASSUME NEW p \in Participant, Decide(p) PROVE AddressInv'
  <2>1. pc = "turn" /\ Active /\ batch' = batch /\ events' = events
    BY <1>11 DEF Decide, Notification, Message, FinalMessage, RefusedAction, ImmediateAction,
                 ScheduledAction, UnscheduledAction, Yield, Finish, ParticipantFails, Turn,
                 Accept, Active, loopLocals, envVars
  <2>2. In(InFlight, running, submitted, actions, pending) BY <1>1, <2>1
  <2>3. CASE Notification(p) \/ Message(p) \/ FinalMessage(p) \/ Yield(p) \/ Finish(p)
             \/ ParticipantFails(p)
    <3>1. UNCHANGED <<running, events, submitted, actions, pending, queued, batch>>
      BY <2>3 DEF Notification, Message, FinalMessage, Yield, Finish, ParticipantFails,
                  loopLocals, counters, book, envVars
    <3>2. QED BY <3>1, <2>1, <1>2, <1>3 DEF InFlight
  <2>4. ASSUME NEW handoff \in BOOLEAN, RefusedAction(p, handoff) PROVE AddressInv'
    BY <2>4, <1>2 DEF RefusedAction, Stop, Active
  <2>5. ASSUME NEW handoff \in BOOLEAN, ~ActionRefused(handoff), CountAction(p, handoff)
        PROVE  actions' = actions + 1 /\ actions' \in ActionId
    BY <2>5 DEF ActionRefused, CountAction, ActionId, TypeOK
  <2>6. ASSUME actions' = actions + 1, actions' \in ActionId, NEW k \in AnswerKinds,
               submitted' = [submitted EXCEPT ![actions'] = p],
               queued' = Append(queued, Event(k, p, actions')),
               UNCHANGED <<running, pending>>
        PROVE  AddressInv'
    <3> DEFINE x == Event(k, p, actions')
    <3>1. x.kind = k /\ x.id = actions' /\ x.participant = p /\ x \in EnvEvent
      BY <2>6 DEF Event, EnvEvent, EventKinds
    <3>2. InFlight' = InFlight \cup {x}
      <4>1. Range(queued') = Range(queued) \cup {x} BY <2>6, <3>1, RangeAppend DEF TypeOK
      <4> HIDE DEF x
      <4>2. QED BY <4>1, <2>1 DEF InFlight
    <3> HIDE DEF x
    <3>3. actions \in Nat BY DEF TypeOK
    <3>4. \A a \in ActionId : submitted'[a] = IF a = actions' THEN p ELSE submitted[a]
      BY <2>6 DEF TypeOK
    <3>5. actions' > actions /\ \A a \in ActionId : a > actions' => a > actions
      BY <2>6, <3>3 DEF ActionId
    <3>6. running[actions'] = Nobody BY <2>2, <2>6, <3>5
    <3>7. \A a \in ActionId : a > actions' =>
                    /\ a \notin pending /\ running[a] = Nobody
                    /\ \A e \in InFlight' : e.kind \in AnswerKinds => e.id # a
      <4>1. \A a \in ActionId : a > actions' => a # actions' BY <2>6 DEF ActionId
      <4>2. QED BY <2>2, <3>1, <3>2, <3>5, <4>1
    <3>8. \A e \in InFlight' : e.kind \in AnswerKinds =>
                    /\ e.id \in ActionId
                    /\ submitted'[e.id] \in {Nobody, e.participant}
                    /\ running[e.id] = Nobody
      BY <2>2, <2>6, <3>1, <3>2, <3>4, <3>5, <3>6
    <3>9. \A a \in ActionId : running[a] # Nobody => submitted'[a] = running[a]
      BY <2>2, <3>4, <3>6
    <3>10. QED BY <2>6, <3>7, <3>8, <3>9, <1>1
  <2>7. ASSUME NEW handoff \in BOOLEAN, ImmediateAction(p, handoff) PROVE AddressInv'
    <3>1. CASE pc' = "ended" BY <3>1, <1>2 DEF Active
    <3>2. CASE pc' # "ended"
      <4>1. /\ submitted' = [submitted EXCEPT ![actions'] = p]
            /\ queued' = Append(queued, Event("ActionCompleted", p, actions'))
            /\ UNCHANGED <<running, pending>>
        BY <2>7, <3>2 DEF ImmediateAction, Stop, envVars
      <4>2. actions' = actions + 1 /\ actions' \in ActionId
        BY <2>5, <2>7 DEF ImmediateAction
      <4>3. QED BY <4>1, <4>2, <2>6 DEF AnswerKinds
    <3>3. QED BY <3>1, <3>2
  <2>8. ASSUME NEW handoff \in BOOLEAN, UnscheduledAction(p, handoff) PROVE AddressInv'
    <3>1. /\ submitted' = [submitted EXCEPT ![actions'] = p]
          /\ queued' = Append(queued, Event("ActionFailed", p, actions'))
          /\ UNCHANGED <<running, pending>>
      BY <2>8 DEF UnscheduledAction, envVars
    <3>2. actions' = actions + 1 /\ actions' \in ActionId
      BY <2>5, <2>8 DEF UnscheduledAction
    <3>3. QED BY <3>1, <3>2, <2>6 DEF AnswerKinds
  <2>9. ASSUME NEW handoff \in BOOLEAN, NEW blocking \in BOOLEAN,
               ScheduledAction(p, blocking, handoff)
        PROVE  AddressInv'
    <3>1. actions' = actions + 1 /\ actions' \in ActionId /\ actions \in Nat
      BY <2>5, <2>9 DEF ScheduledAction, TypeOK
    <3>2. InFlight' = InFlight /\ pending' = pending \cup {actions'}
      BY <2>9, <2>1 DEF ScheduledAction, InFlight
    <3>3. \A a \in ActionId : /\ submitted'[a] = IF a = actions' THEN p ELSE submitted[a]
                              /\ running'[a] = IF a = actions' THEN p ELSE running[a]
      BY <2>9 DEF ScheduledAction, Accept, TypeOK
    <3>4. actions' > actions /\ \A a \in ActionId : a > actions' => a > actions /\ a # actions'
      BY <3>1 DEF ActionId
    <3>5. \A a \in ActionId : a > actions' =>
                    /\ a \notin pending' /\ running'[a] = Nobody
                    /\ \A e \in InFlight' : e.kind \in AnswerKinds => e.id # a
      BY <2>2, <3>2, <3>3, <3>4
    <3>6. \A e \in InFlight : e.kind \in AnswerKinds => e.id # actions'
      BY <2>2, <3>1, <3>4
    <3>7. \A e \in InFlight' : e.kind \in AnswerKinds =>
                    /\ e.id \in ActionId
                    /\ submitted'[e.id] \in {Nobody, e.participant}
                    /\ running'[e.id] = Nobody
      BY <2>2, <3>2, <3>3, <3>6
    <3>8. \A a \in ActionId : running'[a] # Nobody => submitted'[a] = running'[a]
      BY <2>2, <3>3
    <3>9. QED BY <3>5, <3>7, <3>8, <1>1
  <2>10. QED
    BY <1>11, <2>3, <2>4, <2>7, <2>8, <2>9 DEF Decide, Handoffs
<1>12. CASE EnvStep
  <2>1. UNCHANGED <<submitted, actions, pending, queued, batch, pc>>
    BY <1>12 DEF EnvStep, control, counters, book
  <2>2. CASE ~Active BY <2>1, <2>2, <1>2 DEF Active
  <2>3. CASE Active
    <3>1. In(InFlight, running, submitted, actions, pending) BY <1>1, <2>3
    <3>2. ASSUME Chatter PROVE AddressInv'
      <4>1. PICK x \in EnvEvent : x.kind \notin AnswerKinds /\ events' = Append(events, x)
        <5>1. PICK k \in ChatterKinds, p \in Participant, a \in ActionId \cup {NoAction} :
                events' = Append(events, Event(k, p, a))
          BY <3>2 DEF Chatter, Notice
        <5>2. Event(k, p, a) \in EnvEvent /\ Event(k, p, a).kind \notin AnswerKinds
          BY DEF Event, EnvEvent, EventKinds, AnswerKinds
        <5>3. QED BY <5>1, <5>2
      <4>2. InFlight' = InFlight \cup {x}
        <5>1. Range(events') = Range(events) \cup {x} BY <4>1, RangeAppend DEF TypeOK
        <5>2. QED BY <5>1, <2>1 DEF InFlight
      <4>3. running' = running BY <3>2 DEF Chatter, Notice
      <4>4. QED BY <3>1, <4>1, <4>2, <4>3, <2>1, <1>1
    <3>3. ASSUME NEW a \in ActionId, Answer(a) PROVE AddressInv'
      <4>1. PICK k \in AnswerKinds : events' = Append(events, Event(k, running[a], a))
        BY <3>3 DEF Answer
      <4> DEFINE x == Event(k, running[a], a)
      <4>2. running[a] # Nobody /\ running[a] \in Participant
        BY <3>3 DEF Answer, TypeOK
      <4>3. x.kind = k /\ x.id = a /\ x.participant = running[a] /\ x \in EnvEvent
        BY <4>2 DEF Event, EnvEvent, EventKinds
      <4>4. InFlight' = InFlight \cup {x}
        <5>1. Range(events') = Range(events) \cup {x} BY <4>1, <4>3, RangeAppend DEF TypeOK
        <5> HIDE DEF x
        <5>2. QED BY <5>1, <2>1 DEF InFlight
      <4> HIDE DEF x
      <4>5. \A b \in ActionId : running'[b] = IF b = a THEN Nobody ELSE running[b]
        BY <3>3 DEF Answer, TypeOK
      <4>6. ~(a > actions) /\ submitted[a] = running[a] BY <3>1, <4>2
      <4>7. \A b \in ActionId : b > actions =>
                    /\ b \notin pending /\ running'[b] = Nobody
                    /\ \A e \in InFlight' : e.kind \in AnswerKinds => e.id # b
        BY <3>1, <4>3, <4>4, <4>5, <4>6
      <4>8. \A e \in InFlight' : e.kind \in AnswerKinds =>
                    /\ e.id \in ActionId
                    /\ submitted[e.id] \in {Nobody, e.participant}
                    /\ running'[e.id] = Nobody
        BY <3>1, <4>3, <4>4, <4>5, <4>6
      <4>9. \A b \in ActionId : running'[b] # Nobody => submitted[b] = running'[b]
        BY <3>1, <4>5
      <4>10. QED BY <4>7, <4>8, <4>9, <2>1, <1>1
    <3>4. QED BY <1>12, <3>2, <3>3 DEF EnvStep, EnvNext
  <2>4. QED BY <2>2, <2>3
<1>13. QED
  BY <1>4, <1>5, <1>6, <1>7, <1>8, <1>9, <1>10, <1>11, <1>12 DEF Next, RunStep

(* Delivery keeps a loop blocked only on an action it brings no answer to. *)
LEMMA DeliveryBlocked ==
    ASSUME TypeOK, NEW S, NEW item \in InboxEvent, NEW p \in Participant,
           LoopAfter(S, item)[p] = "WaitingForActionCompletion"
    PROVE  /\ loop[p] = "WaitingForActionCompletion"
           /\ AwaitingAfter(S, item)[p] = awaiting[p]
           /\ ~(p \in S /\ item.kind \in AnswerKinds /\ item.id = awaiting[p])
BY DEF LoopAfter, AwaitingAfter, Wakes

(* Whatever a loop is blocked on stays answerable. *)
LEMMA BlockedStep ==
    ASSUME TypeOK, TurnInv, PhaseInv, AddressInv, BlockedIsAnswerable, [Next]_vars
    PROVE  BlockedIsAnswerable'
<1> USE EnvironmentAssumption
<1> DEFINE Answers(Q, a, p) ==
             \E e \in Q : e.kind \in AnswerKinds /\ e.id = a /\ e.participant = p
           Ok(p, a, Q, run, sub, pend) ==
             a \in pend /\ sub[a] = p /\ (run[a] = p \/ Answers(Q, a, p))
           Polled == Range(batch) \cup Range(events)
           Blocked(p) == loop[p] = "WaitingForActionCompletion"
<1>1. /\ BlockedIsAnswerable <=>
            (Active => \A p \in Participant : Blocked(p) =>
                         Ok(p, awaiting[p], Polled, running, submitted, pending))
      /\ BlockedIsAnswerable' <=>
            (Active' => \A p \in Participant : Blocked(p)' =>
                         Ok(p, awaiting'[p], Polled', running', submitted', pending'))
  BY DEF BlockedIsAnswerable
<1>2. CASE ~Active' BY <1>2, <1>1
<1>3. CASE /\ Active /\ Polled \subseteq Polled'
           /\ \A p \in Participant : Blocked(p)' => Blocked(p) /\ awaiting'[p] = awaiting[p]
           /\ UNCHANGED <<running, submitted, pending>>
  BY <1>3, <1>1
<1>4. CASE StartRun
  BY <1>4, <1>1 DEF StartRun
<1>5. CASE PollEnvironment
  <2>1. Range(batch') = Range(queued) \cup Range(events)
    BY <1>5, RangeConcat DEF PollEnvironment, TypeOK
  <2>2. batch = <<>> /\ Active BY <1>5 DEF PollEnvironment, PhaseInv, Active
  <2>3. Polled \subseteq Polled' BY <2>1, <2>2, RangeEmpty
  <2>4. QED BY <1>5, <2>2, <2>3, <1>3 DEF PollEnvironment, Poll, book, loops
<1>6. CASE ApplyEvent
  <2> DEFINE e == Head(batch)
             to == {e.participant} \cap roster
  <2>1. batch \in Seq(EnvEvent) /\ batch # <<>> /\ Active /\ e \in EnvEvent
    BY <1>6 DEF ApplyEvent, PhaseInv, Active, TypeOK
  <2>2. Range(batch) = {e} \cup Range(Tail(batch)) BY <2>1, RangeHeadTail
  <2>3. running' = running /\ events' = events BY <1>6 DEF ApplyEvent, envVars
  <2>4. SUFFICES ASSUME Active' PROVE BlockedIsAnswerable'
    BY <1>2
  <2>5. batch' = Tail(batch) BY <1>6, <2>4 DEF ApplyEvent, Stop, Active
  <2>6. /\ \/ e.kind \notin AnswerKinds /\ UNCHANGED <<pending, submitted>>
           \/ /\ e.kind \in AnswerKinds /\ pending' = pending \ {e.id}
              /\ submitted' = [submitted EXCEPT ![e.id] = Nobody]
        /\ \/ e.kind \notin AnswerKinds /\ UNCHANGED <<loop, awaiting>>
           \/ Deliver(to, Item(e.kind, e.id))
    BY <1>6 DEF ApplyEvent, AnswerKinds
  <2>7. e.kind \in AnswerKinds =>
           /\ submitted[e.id] \in {Nobody, e.participant} /\ e.id \in ActionId
    <3>1. e \in InFlight BY <2>2 DEF InFlight
    <3> HIDE DEF e
    <3>2. QED BY <3>1, <2>1 DEF AddressInv
  <2>8. e.kind \in AnswerKinds => Item(e.kind, e.id) \in InboxEvent
    BY <2>1 DEF EnvEvent, AnswerKinds, Item, InboxEvent, InboxKinds
  <2>9. Item(e.kind, e.id).kind = e.kind /\ Item(e.kind, e.id).id = e.id BY DEF Item
  <2> HIDE DEF e
  <2>10. ASSUME NEW p \in Participant, Blocked(p)'
         PROVE  Ok(p, awaiting'[p], Polled', running', submitted', pending')
    <3>1. /\ Blocked(p) /\ awaiting'[p] = awaiting[p]
          /\ ~(e.kind \in AnswerKinds /\ p \in to /\ e.id = awaiting[p])
      <4>1. CASE e.kind \in AnswerKinds
        <5>1. Deliver(to, Item(e.kind, e.id)) BY <2>6, <4>1
        <5>2. LoopAfter(to, Item(e.kind, e.id))[p] = "WaitingForActionCompletion"
              /\ awaiting'[p] = AwaitingAfter(to, Item(e.kind, e.id))[p]
          BY <5>1, <2>10 DEF Deliver
        <5>3. QED BY <5>2, <4>1, <2>8, <2>9, DeliveryBlocked
      <4>2. CASE e.kind \notin AnswerKinds
        <5>1. CASE UNCHANGED <<loop, awaiting>> BY <5>1, <4>2, <2>10
        <5>2. CASE Deliver(to, Item(e.kind, e.id))
          BY <5>2, <4>2, <2>9, <2>10 DEF Deliver, LoopAfter, AwaitingAfter, Wakes
        <5>3. QED BY <5>1, <5>2, <2>6
      <4>3. QED BY <4>1, <4>2
    <3>2. Ok(p, awaiting[p], Polled, running, submitted, pending)
      BY <3>1, <2>1, <1>1
    <3>3. p \in roster BY <3>1, <2>1 DEF PhaseInv
    <3>4. CASE e.kind \notin AnswerKinds
      <4>1. \A x \in Polled : x.kind \in AnswerKinds => x \in Polled'
        BY <3>4, <2>2, <2>3, <2>5
      <4>2. QED BY <4>1, <3>1, <3>2, <3>4, <2>3, <2>6
    <3>5. CASE e.kind \in AnswerKinds
      <4>1. e.id # awaiting[p]
        <5>1. SUFFICES ASSUME e.id = awaiting[p] PROVE FALSE OBVIOUS
        <5>2. e.participant # p BY <3>1, <3>3, <3>5, <5>1
        <5>3. p # Nobody BY DEF Participant, Nobody
        <5>4. QED BY <5>1, <5>2, <5>3, <3>2, <3>5, <2>7
      <4>2. \A x \in Polled : x.id = awaiting[p] => x \in Polled'
        BY <4>1, <2>2, <2>3, <2>5
      <4>3. awaiting[p] \in pending' /\ submitted'[awaiting[p]] = submitted[awaiting[p]]
        BY <4>1, <3>2, <3>5, <2>6 DEF TypeOK
      <4>4. QED BY <4>2, <4>3, <3>1, <3>2, <2>3
    <3>6. QED BY <3>4, <3>5
  <2>11. QED BY <2>10, <1>1
<1>7. ASSUME NEW p \in Participant, PickParticipant(p) PROVE BlockedIsAnswerable'
  <2>1. \A q \in Participant : Blocked(q)' => Blocked(q) /\ awaiting'[q] = awaiting[q]
    BY <1>7 DEF PickParticipant, TypeOK
  <2>2. QED BY <1>7, <2>1, <1>3 DEF PickParticipant, book, envVars, Active
<1>8. CASE CheckLimits \/ EnvironmentTerminates \/ NobodyToRun
  <2>1. Polled' = Polled /\ UNCHANGED <<loop, awaiting, running, submitted, pending>> /\ Active
    BY <1>8 DEF CheckLimits, EnvironmentTerminates, NobodyToRun, loopLocals, loops, book,
                envVars, Active
  <2>2. QED BY <2>1, <1>3
<1>9. CASE ResetFails \/ EndRun \/ Abort
  BY <1>9, <1>2 DEF ResetFails, EndRun, Abort, Active
<1>10. CASE WaitExpires \/ DurationElapses \/ UNCHANGED vars
  <2>1. Polled' = Polled /\ UNCHANGED <<loop, awaiting, running, submitted, pending, pc>>
    BY <1>10 DEF WaitExpires, DurationElapses, vars, control, loops, book, envVars
  <2>2. QED BY <2>1, <1>2, <1>3 DEF Active
<1>11. ASSUME NEW p \in Participant, Decide(p) PROVE BlockedIsAnswerable'
  <2>1. pc = "turn" /\ current = p /\ Active /\ Polled' = Polled
    BY <1>11 DEF Decide, Notification, Message, FinalMessage, RefusedAction, ImmediateAction,
                 ScheduledAction, UnscheduledAction, Yield, Finish, ParticipantFails, Turn,
                 Accept, Active, loopLocals, envVars
  <2>2. Item("Message", NoAction) \in InboxEvent
    BY DEF Item, InboxEvent, InboxKinds
  <2>3. ASSUME NEW handoff \in BOOLEAN, ~ActionRefused(handoff), CountAction(p, handoff)
        PROVE  /\ actions' \in ActionId /\ actions' > actions /\ actions' \notin pending
    <3>1. actions' \in ActionId /\ actions' > actions
      BY <2>3 DEF ActionRefused, CountAction, ActionId, TypeOK
    <3>2. QED BY <3>1, <2>1 DEF AddressInv
  <2>4. CASE Notification(p) \/ ParticipantFails(p)
    BY <2>4, <2>1, <1>3 DEF Notification, ParticipantFails, loopLocals, loops, book, envVars
  <2>5. CASE Message(p)
    <3>1. \A q \in Participant : Blocked(q)' => Blocked(q) /\ awaiting'[q] = awaiting[q]
      BY <2>5, <2>2, DeliveryBlocked DEF Message, Deliver
    <3>2. QED BY <2>5, <3>1, <2>1, <1>3 DEF Message, book, envVars
  <2>6. CASE FinalMessage(p)
    <3> DEFINE to == Audience(p)
               item == Item("Message", NoAction)
    <3>1. /\ loop' = [LoopAfter(to, item) EXCEPT ![p] = "Idle"]
          /\ awaiting' = AwaitingAfter(to, item)
      BY <2>6 DEF FinalMessage
    <3>2. \A q \in Participant : Blocked(q)' => LoopAfter(to, item)[q] = loop'[q]
      <4> HIDE DEF to, item
      <4>1. QED BY <3>1 DEF LoopAfter
    <3> HIDE DEF to, item
    <3>3. \A q \in Participant : Blocked(q)' => Blocked(q) /\ awaiting'[q] = awaiting[q]
      <4>1. item \in InboxEvent BY <2>2 DEF item
      <4>2. QED BY <3>1, <3>2, <4>1, DeliveryBlocked
    <3>4. QED BY <2>6, <3>3, <2>1, <1>3 DEF FinalMessage, book, envVars
  <2>7. ASSUME NEW handoff \in BOOLEAN, RefusedAction(p, handoff) PROVE BlockedIsAnswerable'
    BY <2>7, <1>2 DEF RefusedAction, Stop, Active
  <2>8. ASSUME NEW handoff \in BOOLEAN,
               ImmediateAction(p, handoff) \/ UnscheduledAction(p, handoff)
        PROVE  BlockedIsAnswerable'
    <3>1. CASE ~Active' BY <3>1, <1>2
    <3>2. CASE Active'
      <4>1. /\ submitted' = [submitted EXCEPT ![actions'] = p]
            /\ UNCHANGED <<running, pending, loop, awaiting>>
        BY <2>8, <3>2 DEF ImmediateAction, UnscheduledAction, Stop, envVars, Active
      <4>2. actions' \notin pending
        BY <2>8, <2>3 DEF ImmediateAction, UnscheduledAction
      <4>3. \A a \in pending : submitted'[a] = submitted[a]
        BY <4>1, <4>2 DEF TypeOK
      <4>4. QED BY <4>1, <4>3, <2>1, <1>1
    <3>3. QED BY <3>1, <3>2
  <2>9. ASSUME NEW handoff \in BOOLEAN, NEW blocking \in BOOLEAN,
               ScheduledAction(p, blocking, handoff)
        PROVE  BlockedIsAnswerable'
    <3>1. actions' \in ActionId /\ actions' > actions /\ actions' \notin pending
      BY <2>9, <2>3 DEF ScheduledAction
    <3>2. pending' = pending \cup {actions'} BY <2>9 DEF ScheduledAction
    <3>3. \A a \in ActionId : /\ submitted'[a] = IF a = actions' THEN p ELSE submitted[a]
                              /\ running'[a] = IF a = actions' THEN p ELSE running[a]
      BY <2>9 DEF ScheduledAction, Accept, TypeOK
    <3>4. pending \subseteq ActionId BY DEF TypeOK
    <3>5. \A q \in Participant : Blocked(q)' =>
             \/ Blocked(q) /\ awaiting'[q] = awaiting[q]
             \/ q = p /\ awaiting'[q] = actions'
      <4>1. CASE blocking BY <2>9, <4>1 DEF ScheduledAction, TypeOK
      <4>2. CASE ~blocking
        <5>1. Deliver({p}, Item("ActionScheduled", actions')) BY <2>9, <4>2 DEF ScheduledAction
        <5>2. Item("ActionScheduled", actions') \in InboxEvent
          BY <3>1 DEF Item, InboxEvent, InboxKinds
        <5>3. QED BY <5>1, <5>2, DeliveryBlocked DEF Deliver
      <4>3. QED BY <4>1, <4>2
    <3>6. \A q \in Participant : Blocked(q) =>
             Ok(q, awaiting[q], Polled, running, submitted, pending)
      BY <2>1, <1>1
    <3>7. ASSUME NEW q \in Participant, Blocked(q)'
          PROVE  Ok(q, awaiting'[q], Polled', running', submitted', pending')
      <4>1. CASE q = p /\ awaiting'[q] = actions'
        BY <4>1, <3>1, <3>2, <3>3
      <4>2. CASE Blocked(q) /\ awaiting'[q] = awaiting[q]
        <5>1. Ok(q, awaiting[q], Polled, running, submitted, pending) BY <4>2, <3>6
        <5>2. awaiting[q] \in ActionId /\ awaiting[q] # actions' BY <5>1, <3>1, <3>4
        <5>3. QED BY <4>2, <5>1, <5>2, <3>2, <3>3, <2>1
      <4>3. QED BY <3>5, <3>7, <4>1, <4>2
    <3>8. QED BY <3>7, <1>1
  <2>10. CASE Yield(p) \/ Finish(p)
    <3>1. \A q \in Participant : Blocked(q)' => Blocked(q) /\ awaiting'[q] = awaiting[q]
      BY <2>10 DEF Yield, Finish, TypeOK
    <3>2. UNCHANGED <<running, submitted, pending>>
      BY <2>10 DEF Yield, Finish, book, envVars
    <3>3. QED BY <3>1, <3>2, <2>1, <1>3
  <2>11. QED
    BY <1>11, <2>4, <2>5, <2>6, <2>7, <2>8, <2>9, <2>10 DEF Decide, Handoffs
<1>12. CASE EnvStep
  <2>1. UNCHANGED <<submitted, pending, queued, batch, pc, loop, awaiting>>
    BY <1>12 DEF EnvStep, control, loops, book
  <2>2. CASE ~Active BY <2>1, <2>2, <1>2 DEF Active
  <2>3. CASE Active
    <3>1. ASSUME Chatter PROVE BlockedIsAnswerable'
      <4>1. PICK x \in EnvEvent : events' = Append(events, x)
        <5>1. PICK k \in ChatterKinds, p \in Participant, a \in ActionId \cup {NoAction} :
                events' = Append(events, Event(k, p, a))
          BY <3>1 DEF Chatter, Notice
        <5>2. Event(k, p, a) \in EnvEvent BY DEF Event, EnvEvent, EventKinds
        <5>3. QED BY <5>1, <5>2
      <4>2. Range(events) \subseteq Range(events') BY <4>1, RangeAppend DEF TypeOK
      <4>3. Polled \subseteq Polled' BY <4>2, <2>1
      <4>4. running' = running BY <3>1 DEF Chatter, Notice
      <4>5. QED BY <4>3, <4>4, <2>1, <2>3, <1>3
    <3>2. ASSUME NEW a \in ActionId, Answer(a) PROVE BlockedIsAnswerable'
      <4>1. PICK k \in AnswerKinds : events' = Append(events, Event(k, running[a], a))
        BY <3>2 DEF Answer
      <4> DEFINE x == Event(k, running[a], a)
      <4>2. running[a] # Nobody /\ running[a] \in Participant
        BY <3>2 DEF Answer, TypeOK
      <4>3. x.kind = k /\ x.id = a /\ x.participant = running[a] /\ x \in EnvEvent
        BY <4>2 DEF Event, EnvEvent, EventKinds
      <4>4. Polled' = Polled \cup {x}
        <5>1. Range(events') = Range(events) \cup {x} BY <4>1, <4>3, RangeAppend DEF TypeOK
        <5> HIDE DEF x
        <5>2. QED BY <5>1, <2>1
      <4> HIDE DEF x
      <4>5. \A b \in ActionId : running'[b] = IF b = a THEN Nobody ELSE running[b]
        BY <3>2 DEF Answer, TypeOK
      <4>6. ASSUME NEW p \in Participant, Blocked(p)'
            PROVE  Ok(p, awaiting'[p], Polled', running', submitted', pending')
        <5>1. Ok(p, awaiting[p], Polled, running, submitted, pending)
          BY <4>6, <2>1, <2>3, <1>1
        <5>2. awaiting[p] \in ActionId BY <5>1 DEF TypeOK
        <5>3. CASE awaiting[p] # a BY <5>1, <5>2, <5>3, <4>4, <4>5, <2>1
        <5>4. CASE awaiting[p] = a /\ running[a] = p
          BY <5>1, <5>4, <4>3, <4>4, <2>1
        <5>5. CASE awaiting[p] = a /\ running[a] # p
          BY <5>1, <5>5, <4>4, <2>1
        <5>6. QED BY <5>3, <5>4, <5>5
      <4>7. QED BY <4>6, <1>1
    <3>3. QED BY <1>12, <3>1, <3>2 DEF EnvStep, EnvNext
  <2>4. QED BY <2>2, <2>3
<1>13. QED
  BY <1>4, <1>5, <1>6, <1>7, <1>8, <1>9, <1>10, <1>11, <1>12 DEF Next, RunStep

(***************************************************************************)
(* The theorems                                                            *)
(***************************************************************************)

(* IInv holds initially and every step preserves it. *)
THEOREM Inductive == Spec => []IInv
<1>1. Init => IInv
  BY TypeInit DEF Init, IInv, TurnInv, PhaseInv, AddressInv, Active, NoLostWakeup,
                  BlockedIsAnswerable
<1>2. IInv /\ [Next]_vars => IInv'
  BY TypeStep, TurnStep, PhaseStep, AddressStep, WakeupStep, BlockedStep DEF IInv
<1>3. QED BY <1>1, <1>2, PTL DEF Spec

(* Every reachable state of the run loop is well formed. *)
THEOREM TypeCorrect == Spec => []TypeOK
<1>1. IInv => TypeOK BY DEF IInv
<1>2. QED BY <1>1, Inductive, PTL

(* No loop is ever blocked on an action that will not be answered. *)
THEOREM BlockedLoopsAreAnswerable == Spec => []BlockedIsAnswerable
<1>1. IInv => BlockedIsAnswerable BY DEF IInv
<1>2. QED BY <1>1, Inductive, PTL

(* No wakeup is ever lost. *)
THEOREM WakeupsAreKept == Spec => []NoLostWakeup
<1>1. IInv => NoLostWakeup BY DEF IInv
<1>2. QED BY <1>1, Inductive, PTL

(***************************************************************************)
(* WHAT THE END OF A RUN MEANS                                             *)
(***************************************************************************)
(* What the end of a run means, for every number of participants, every    *)
(* limit and every termination condition: the limits hold, the run ends on *)
(* its condition, every action is reported once, and a deadlock is real.   *)
(* All of it rests on IInv, the invariant above.                           *)
(***************************************************************************)

(***************************************************************************)
(* The limits                                                              *)
(***************************************************************************)

(* Past "limits" the run is below the limits that are checked there and     *)
(* while events are applied.                                                *)
LimitInv ==
    /\ LimitsHold
    /\ pc \in {"poll", "apply", "pick", "turn"} =>
         /\ steps < MaxSteps
         /\ MaxFailed # NoLimit => failed < MaxFailed
         /\ MaxConsecutive # NoLimit => consecutive < MaxConsecutive

(* enforce_run_limits answers "none" only below the limits. *)
LEMMA BelowLimits ==
    ASSUME TypeOK, NEW st \in Nat, NEW fl \in Nat, NEW cs \in Nat,
           LimitReason(st, fl, cs) = "none"
    PROVE  /\ st < MaxSteps
           /\ MaxFailed # NoLimit => fl < MaxFailed
           /\ MaxConsecutive # NoLimit => cs < MaxConsecutive
<1>1. /\ ~(st >= MaxSteps) /\ ~AtLimit(fl, MaxFailed) /\ ~AtLimit(cs, MaxConsecutive)
  BY DEF LimitReason
<1>2. QED BY <1>1, OrchestratorAssumption DEF AtLimit, NoLimit

(* No step leaves the limits. *)
LEMMA LimitStep ==
    ASSUME TypeOK, TypeOK', TurnInv, LimitInv, [Next]_vars
    PROVE  LimitInv'
<1> USE OrchestratorAssumption, EnvironmentAssumption
<1> DEFINE Below == /\ steps < MaxSteps
                    /\ MaxFailed # NoLimit => failed < MaxFailed
                    /\ MaxConsecutive # NoLimit => consecutive < MaxConsecutive
<1>1. CASE StartRun
  BY <1>1 DEF StartRun, LimitInv, LimitsHold, Active
<1>2. CASE ResetFails \/ EndRun \/ Abort
  BY <1>2 DEF ResetFails, EndRun, Abort, counters, loops, LimitInv, LimitsHold, Active
<1>3. CASE CheckLimits
  <2>1. pc' = "poll" => Below
    BY <1>3, BelowLimits DEF CheckLimits, TypeOK, Stop
  <2>2. QED
    BY <1>3, <2>1 DEF CheckLimits, Stop, loopLocals, counters, loops, LimitInv, LimitsHold,
                      Active
<1>4. CASE PollEnvironment \/ EnvironmentTerminates \/ NobodyToRun
  BY <1>4 DEF PollEnvironment, EnvironmentTerminates, NobodyToRun, Stop, Continue, loopLocals,
              counters, loops, LimitInv, LimitsHold, Active
<1>5. CASE ApplyEvent
  <2>1. UNCHANGED <<steps, actions, messages, loopSteps>> /\ pc = "apply"
    BY <1>5 DEF ApplyEvent
  <2>2. \/ pc' = "ended"
        \/ pc' \in {"apply", "pick"} /\ LimitReason(steps, failed', consecutive') = "none"
    BY <1>5 DEF ApplyEvent, Stop
  <2>3. failed' \in Nat /\ consecutive' \in Nat /\ steps \in Nat BY DEF TypeOK
  <2>4. pc' # "ended" => Below' BY <2>1, <2>2, <2>3, BelowLimits
  <2>5. QED BY <2>1, <2>2, <2>4 DEF LimitInv, LimitsHold, Active
<1>6. ASSUME NEW p \in Participant, PickParticipant(p) PROVE LimitInv'
  <2> DEFINE taken == IF loop[p] = "Idle" THEN 0 ELSE loopSteps[p]
  <2>1. /\ UNCHANGED counters /\ current' = p /\ pc = "pick"
        /\ loopSteps' = [loopSteps EXCEPT ![p] = taken]
        /\ pc' = "ended" \/ (pc' = "turn" /\ ~(taken >= MaxStepsPerLoop))
    BY <1>6 DEF PickParticipant, Stop
  <2>2. taken \in Nat /\ taken <= MaxStepsPerLoop
    BY DEF TypeOK, LimitInv, LimitsHold
  <2>3. \A q \in Participant : loopSteps'[q] = IF q = p THEN taken ELSE loopSteps[q]
    BY <2>1 DEF TypeOK
  <2> HIDE DEF taken
  <2>4. QED BY <2>1, <2>2, <2>3 DEF counters, LimitInv, LimitsHold, Active
<1>7. ASSUME NEW p \in Participant, Decide(p) PROVE LimitInv'
  <2>1. /\ steps \in Nat /\ messages \in Nat /\ actions \in Nat
        /\ loopSteps \in [Participant -> Nat]
        /\ MaxSteps \in Nat /\ MaxStepsPerLoop \in Nat /\ MaxMessages \in Nat /\ MaxActions \in Nat
    BY DEF TypeOK
  <2>2. CASE Finish(p) \/ ParticipantFails(p)
    <3>1. pc = "turn" /\ pc' \in {"limits", "ended"} /\ UNCHANGED counters
      BY <2>2 DEF Finish, ParticipantFails, Turn, Stop, Continue, loopLocals
    <3>2. \A q \in Participant : loopSteps'[q] = 0 \/ loopSteps'[q] = loopSteps[q]
      BY <2>1, <2>2 DEF Finish, ParticipantFails, loopLocals, loops
    <3>3. \A q \in Participant : loopSteps'[q] <= MaxStepsPerLoop
      BY <2>1, <3>2 DEF LimitInv, LimitsHold
    <3>4. QED BY <3>1, <3>3 DEF counters, LimitInv, LimitsHold, Active
  (* Every other decision counts one step of the run and of the loop.       *)
  <2>3. ASSUME pc = "turn", current = p, steps' = steps + 1,
               loopSteps' = [loopSteps EXCEPT ![p] = @ + 1] \/
               loopSteps' = [loopSteps EXCEPT ![p] = 0],
               pc' \in {"limits", "ended"},
               messages' <= MaxMessages + 1, actions' <= MaxActions + 1,
               pc' = "limits" => messages' <= MaxMessages /\ actions' <= MaxActions
        PROVE  LimitInv'
    <3>1. steps < MaxSteps /\ loopSteps[p] < MaxStepsPerLoop
      BY <2>3 DEF LimitInv, LimitsHold
    <3>2. \A q \in Participant :
             loopSteps'[q] = loopSteps[q] \/ loopSteps'[q] = 0
               \/ (q = p /\ loopSteps'[q] = loopSteps[p] + 1)
      BY <2>1, <2>3
    <3>3. \A q \in Participant : loopSteps'[q] <= MaxStepsPerLoop
      BY <2>1, <3>1, <3>2 DEF LimitInv, LimitsHold
    <3>4. steps' <= MaxSteps BY <2>1, <2>3, <3>1
    <3>5. QED BY <2>3, <3>3, <3>4 DEF LimitInv, LimitsHold, Active
  <2>4. pc = "turn" => messages <= MaxMessages /\ actions <= MaxActions
    BY DEF LimitInv, LimitsHold, Active
  <2>5. CASE Notification(p) \/ Message(p) \/ FinalMessage(p)
    <3>1. /\ pc = "turn" /\ current = p /\ steps' = steps + 1 /\ messages' = messages + 1
          /\ actions' = actions
          /\ \/ loopSteps' = [loopSteps EXCEPT ![p] = @ + 1]
             \/ loopSteps' = [loopSteps EXCEPT ![p] = 0]
          /\ pc' = "ended" \/ (pc' = "limits" /\ ~(messages' > MaxMessages))
      BY <2>5 DEF Notification, Message, FinalMessage, Turn, CountTurn, MessageVerdict, Stop,
                  Continue
    <3>2. messages' <= MaxMessages + 1 /\ actions' <= MaxActions + 1
          /\ (pc' = "limits" => messages' <= MaxMessages /\ actions' <= MaxActions)
      BY <2>1, <2>4, <3>1
    <3>3. QED BY <2>3, <3>1, <3>2
  <2>6. ASSUME NEW handoff \in BOOLEAN, CountAction(p, handoff), pc = "turn", current = p,
               pc' \in {"limits", "ended"}, pc' = "limits" => ~ActionRefused(handoff)
        PROVE  LimitInv'
    <3>1. /\ steps' = steps + 1 /\ loopSteps' = [loopSteps EXCEPT ![p] = @ + 1]
          /\ actions' = actions + 1
          /\ messages' = IF handoff THEN messages + 1 ELSE messages
      BY <2>6 DEF CountAction, CountTurn
    <3>2. pc' = "limits" => messages' <= MaxMessages /\ actions' <= MaxActions
      BY <2>1, <2>4, <2>6, <3>1 DEF ActionRefused
    <3>3. messages' <= MaxMessages + 1 /\ actions' <= MaxActions + 1
      <4>1. messages <= MaxMessages /\ actions <= MaxActions BY <2>4, <2>6
      <4>2. QED BY <2>1, <4>1, <3>1
    <3>4. QED BY <2>3, <2>6, <3>1, <3>2, <3>3
  <2>7. ASSUME NEW handoff \in BOOLEAN, NEW blocking \in BOOLEAN,
               \/ RefusedAction(p, handoff) \/ ImmediateAction(p, handoff)
               \/ ScheduledAction(p, blocking, handoff) \/ UnscheduledAction(p, handoff)
        PROVE  LimitInv'
    <3>1. /\ CountAction(p, handoff) /\ pc = "turn" /\ current = p
          /\ pc' \in {"limits", "ended"} /\ (pc' = "limits" => ~ActionRefused(handoff))
      BY <2>7 DEF RefusedAction, ImmediateAction, ScheduledAction, UnscheduledAction, Turn,
                  Stop, Continue
    <3>2. QED BY <2>6, <3>1
  <2>8. CASE Yield(p)
    <3>1. /\ pc = "turn" /\ current = p /\ pc' = "limits" /\ steps' = steps + 1
          /\ loopSteps' = [loopSteps EXCEPT ![p] = @ + 1]
          /\ UNCHANGED <<messages, actions>>
      BY <2>8 DEF Yield, Turn, CountTurn, Continue
    <3>2. messages' <= MaxMessages /\ actions' <= MaxActions
      BY <2>4, <3>1
    <3>3. messages' <= MaxMessages + 1 /\ actions' <= MaxActions + 1
      BY <2>1, <3>1, <3>2
    <3>4. QED BY <2>3, <3>1, <3>2, <3>3
  <2>9. QED BY <1>7, <2>2, <2>5, <2>7, <2>8 DEF Decide, Handoffs
<1>8. CASE EnvStep \/ WaitExpires \/ DurationElapses \/ UNCHANGED vars
  BY <1>8 DEF EnvStep, WaitExpires, DurationElapses, vars, control, counters, loops, LimitInv,
              LimitsHold, Active
<1>9. QED
  BY <1>1, <1>2, <1>3, <1>4, <1>5, <1>6, <1>7, <1>8 DEF Next, RunStep

(* A turn is given only below every limit, and the first message or action *)
(* beyond its limit stops the run, in every instance of the run loop.      *)
THEOREM LimitsAreKept == Spec => []LimitsHold
<1>1. Init => LimitInv
  BY OrchestratorAssumption, EnvironmentAssumption DEF Init, LimitInv, LimitsHold, Active
<1>2. IInv /\ IInv' /\ LimitInv /\ [Next]_vars => LimitInv'
  BY LimitStep DEF IInv
<1>3. LimitInv => LimitsHold BY DEF LimitInv
<1>4. QED BY <1>1, <1>2, <1>3, Inductive, PTL DEF Spec

(***************************************************************************)
(* The termination condition                                               *)
(***************************************************************************)

(* A run that goes on has no verdict yet, and one that ended on its        *)
(* condition has met it.                                                   *)
EndInv == EndsOnCondition /\ (Active => result.reason = "none")

(* The condition looks at the roster and at who finished or completed a loop. *)
LEMMA ConditionUnchanged ==
    ASSUME UNCHANGED <<roster, finished, loopsCompleted>>
    PROVE  ConditionMet' = ConditionMet
BY DEF ConditionMet

(* Stopping for a reason that is no termination condition. *)
LEMMA StopOtherwise ==
    ASSUME NEW r, NEW p, Stop(Verdict(r, p)),
           r \notin {"ParticipantsFinished", "ParticipantFinished", "ParticipantCompletedLoop"}
    PROVE  EndInv'
BY DEF Stop, Verdict, EndInv, EndsOnCondition, Active

(* The condition is checked right when it may have become true. *)
LEMMA EndStep ==
    ASSUME TypeOK, TurnInv, EndInv, [Next]_vars
    PROVE  EndInv'
<1>1. CASE StartRun
  BY <1>1, OrchestratorAssumption
  DEF StartRun, NoVerdict, EndInv, EndsOnCondition, ConditionMet, Conditions
<1>2. CASE ResetFails \/ Abort
  BY <1>2 DEF ResetFails, Abort, Verdict, EndInv, EndsOnCondition, Active
<1>3. ASSUME UNCHANGED <<roster, result, finished, loopsCompleted>>, Active' => Active
      PROVE  EndInv'
  BY <1>3, ConditionUnchanged DEF EndInv, EndsOnCondition
<1>4. CASE EndRun
  BY <1>4, <1>3 DEF EndRun, loops, Active
<1>5. CASE CheckLimits
  <2>1. LimitReason(steps, failed, consecutive)
          \notin {"ParticipantsFinished", "ParticipantFinished", "ParticipantCompletedLoop"}
    BY DEF LimitReason
  <2>2. \/ Stop(Verdict(LimitReason(steps, failed, consecutive), Nobody))
        \/ UNCHANGED <<roster, result, finished, loopsCompleted>> /\ Active
    BY <1>5 DEF CheckLimits, loopLocals, loops, Active
  <2>3. QED BY <2>1, <2>2, <1>3, StopOtherwise
<1>6. CASE PollEnvironment
  BY <1>6, <1>3 DEF PollEnvironment, loops, Active
<1>7. CASE EnvironmentTerminates
  BY <1>7, StopOtherwise DEF EnvironmentTerminates
<1>8. CASE NobodyToRun
  <2>1. \/ Stop(Verdict("Deadlocked", Nobody)) \/ Stop(Verdict("BlockedActionWaitExceeded", Nobody))
        \/ Continue
    BY <1>8 DEF NobodyToRun
  <2>2. CASE Continue
    BY <1>8, <2>2, <1>3 DEF NobodyToRun, Continue, loops, Active
  <2>3. QED BY <2>1, <2>2, StopOtherwise
<1>9. CASE ApplyEvent
  <2> DEFINE reason == LimitReason(steps, failed', consecutive')
  <2>1. reason \notin {"ParticipantsFinished", "ParticipantFinished", "ParticipantCompletedLoop"}
    BY DEF LimitReason
  <2>2. \/ Stop(Verdict(reason, Nobody))
        \/ UNCHANGED <<roster, result, finished, loopsCompleted>> /\ Active
    BY <1>9 DEF ApplyEvent, Active
  <2> HIDE DEF reason
  <2>3. QED BY <2>1, <2>2, <1>3, StopOtherwise
<1>10. ASSUME NEW p \in Participant, PickParticipant(p) PROVE EndInv'
  <2>1. \/ Stop(Verdict("AgentLoopStepLimitExceeded", p))
        \/ UNCHANGED <<roster, result, finished, loopsCompleted>> /\ Active
    BY <1>10 DEF PickParticipant, Active
  <2>2. QED BY <2>1, <1>3, StopOtherwise
<1>11. ASSUME NEW p \in Participant, Decide(p) PROVE EndInv'
  <2>1. ASSUME NEW count, MessageVerdict(count), pc = "turn",
               UNCHANGED <<finished, loopsCompleted>>
        PROVE  EndInv'
    <3>1. \/ Stop(Verdict("MessageLimitExceeded", Nobody))
          \/ UNCHANGED <<roster, result, finished, loopsCompleted>> /\ Active
      BY <2>1 DEF MessageVerdict, Continue, Active
    <3>2. QED BY <3>1, <1>3, StopOtherwise
  <2>2. CASE Notification(p) \/ Message(p)
    BY <2>2, <2>1 DEF Notification, Message, Turn
  <2>3. CASE FinalMessage(p)
    <3>1. /\ pc = "turn" /\ current = p /\ loopsCompleted' = loopsCompleted \cup {p}
          /\ finished' = finished
      BY <2>3 DEF FinalMessage, Turn
    <3>2. Condition \in Conditions BY OrchestratorAssumption
    <3>3. CASE EndsByLoopCompletion(p)
      <4>1. Stop(Verdict("ParticipantCompletedLoop", p)) BY <2>3, <3>3 DEF FinalMessage
      <4>2. QED
        BY <4>1, <3>1, <3>2, <3>3
        DEF EndsByLoopCompletion, Stop, Verdict, EndInv, EndsOnCondition, ConditionMet, Active
    <3>4. CASE ~EndsByLoopCompletion(p)
      <4>1. MessageVerdict(messages') BY <2>3, <3>4 DEF FinalMessage
      <4>2. CASE Stop(Verdict("MessageLimitExceeded", Nobody)) BY <4>2, StopOtherwise
      <4>3. CASE Continue
        <5>1. ~ConditionMet /\ result.reason = "none"
          BY <3>1 DEF EndInv, EndsOnCondition, Active
        <5>2. UNCHANGED <<roster, result>> BY <4>3 DEF Continue
        <5>3. ~ConditionMet'
          BY <5>1, <5>2, <3>1, <3>2, <3>4 DEF EndsByLoopCompletion, ConditionMet, Conditions
        <5>4. QED BY <5>1, <5>2, <5>3 DEF EndInv, EndsOnCondition
      <4>4. QED BY <4>1, <4>2, <4>3 DEF MessageVerdict
    <3>5. QED BY <3>3, <3>4
  <2>4. CASE Finish(p)
    <3>1. /\ pc = "turn" /\ current = p /\ finished' = finished \cup {p}
          /\ loopsCompleted' = loopsCompleted
      BY <2>4 DEF Finish, Turn
    <3>2. Condition \in Conditions BY OrchestratorAssumption
    <3>3. p \in roster BY <3>1 DEF TurnInv
    <3>4. CASE EndsByFinish(p)
      <4>1. Stop(FinishVerdict(p)) BY <2>4, <3>4 DEF Finish
      <4>2. roster' = roster /\ pc' = "ended" BY <4>1 DEF Stop
      <4>3. ConditionMet'
        BY <4>2, <3>1, <3>3, <3>4 DEF EndsByFinish, ConditionMet
      <4>4. QED BY <4>2, <4>3 DEF EndInv, EndsOnCondition, Active
    <3>5. CASE ~EndsByFinish(p)
      <4>1. Continue BY <2>4, <3>5 DEF Finish
      <4>2. ~ConditionMet /\ result.reason = "none"
        BY <3>1 DEF EndInv, EndsOnCondition, Active
      <4>3. UNCHANGED <<roster, result>> BY <4>1 DEF Continue
      <4>4. ~ConditionMet'
        BY <4>2, <4>3, <3>1, <3>2, <3>5 DEF EndsByFinish, ConditionMet, Conditions
      <4>5. QED BY <4>2, <4>3, <4>4 DEF EndInv, EndsOnCondition
    <3>6. QED BY <3>4, <3>5
  <2>5. ASSUME NEW handoff \in BOOLEAN, NEW blocking \in BOOLEAN,
               \/ RefusedAction(p, handoff) \/ ImmediateAction(p, handoff)
               \/ ScheduledAction(p, blocking, handoff) \/ UnscheduledAction(p, handoff)
        PROVE  EndInv'
    <3>1. \/ Stop(Verdict("MessageLimitExceeded", Nobody))
          \/ Stop(Verdict("ActionLimitExceeded", Nobody))
          \/ Stop(Verdict("EnvironmentError", Nobody))
          \/ Continue /\ UNCHANGED <<finished, loopsCompleted>> /\ pc = "turn"
      BY <2>5 DEF RefusedAction, ImmediateAction, ScheduledAction, UnscheduledAction, Turn
    <3>2. CASE Continue /\ UNCHANGED <<finished, loopsCompleted>> /\ pc = "turn"
      BY <3>2, <1>3 DEF Continue, Active
    <3>3. QED BY <3>1, <3>2, StopOtherwise
  <2>6. CASE Yield(p)
    BY <2>6, <1>3 DEF Yield, Turn, Continue, Active
  <2>7. CASE ParticipantFails(p)
    BY <2>7, StopOtherwise DEF ParticipantFails
  <2>8. QED BY <1>11, <2>2, <2>3, <2>4, <2>5, <2>6, <2>7 DEF Decide, Handoffs
<1>12. CASE EnvStep \/ WaitExpires \/ DurationElapses \/ UNCHANGED vars
  BY <1>12, <1>3 DEF EnvStep, WaitExpires, DurationElapses, vars, control, loops, Active
<1>13. QED
  BY <1>1, <1>2, <1>4, <1>5, <1>6, <1>7, <1>8, <1>9, <1>10, <1>11, <1>12 DEF Next, RunStep

(* A run goes on exactly until its termination condition is met, and names  *)
(* the condition as its reason only then.                                   *)
THEOREM ConditionsAreMet == Spec => []EndsOnCondition
<1>1. Init => EndInv
  BY DEF Init, NoVerdict, EndInv, EndsOnCondition, Active
<1>2. IInv /\ EndInv /\ [Next]_vars => EndInv'
  BY EndStep DEF IInv
<1>3. EndInv => EndsOnCondition BY DEF EndInv
<1>4. QED BY <1>1, <1>2, <1>3, Inductive, PTL DEF Spec

(***************************************************************************)
(* Counting the answers in a queue                                         *)
(***************************************************************************)

(* A queue holds finitely many answers to an action. *)
LEMMA AnswersFinite ==
    ASSUME NEW s \in Seq(EnvEvent), NEW a
    PROVE  IsFiniteSet(AnswersIn(s, a)) /\ Cardinality(AnswersIn(s, a)) \in Nat
<1>1. Len(s) \in Nat BY LenProperties
<1>2. IsFiniteSet(1 .. Len(s)) BY <1>1, FS_Interval
<1>3. AnswersIn(s, a) \in SUBSET (1 .. Len(s)) BY DEF AnswersIn
<1>4. IsFiniteSet(AnswersIn(s, a)) BY <1>2, <1>3, FS_Subset
<1>5. QED BY <1>4, FS_CardinalityType

LEMMA AnswersEmpty ==
    ASSUME NEW a
    PROVE  AnswersIn(<<>>, a) = {} /\ Cardinality(AnswersIn(<<>>, a)) = 0
<1>1. AnswersIn(<<>>, a) = {} BY DEF AnswersIn
<1>2. QED BY <1>1, FS_EmptySet

(* The answers in two queues, one after the other, add up. *)
LEMMA AnswersConcat ==
    ASSUME NEW s \in Seq(EnvEvent), NEW t \in Seq(EnvEvent), NEW a
    PROVE  Cardinality(AnswersIn(s \o t, a))
             = Cardinality(AnswersIn(s, a)) + Cardinality(AnswersIn(t, a))
<1> DEFINE n == Len(s)
           moved == {i + n : i \in AnswersIn(t, a)}
<1>1. /\ n \in Nat /\ Len(t) \in Nat /\ Len(s \o t) = n + Len(t)
      /\ \A i \in 1 .. n + Len(t) : (s \o t)[i] = IF i <= n THEN s[i] ELSE t[i - n]
  BY ConcatProperties, LenProperties
<1>2. AnswersIn(s \o t, a) = AnswersIn(s, a) \cup moved
  <2>1. ASSUME NEW i \in AnswersIn(s \o t, a) PROVE i \in AnswersIn(s, a) \cup moved
    <3>1. i \in 1 .. n + Len(t) /\ (s \o t)[i].kind \in AnswerKinds /\ (s \o t)[i].id = a
      BY <2>1, <1>1 DEF AnswersIn
    <3>2. CASE i <= n BY <3>1, <3>2, <1>1 DEF AnswersIn
    <3>3. CASE ~(i <= n)
      <4>1. i - n \in AnswersIn(t, a) BY <3>1, <3>3, <1>1 DEF AnswersIn
      <4>2. i = (i - n) + n BY <3>1, <1>1
      <4>3. QED BY <4>1, <4>2
    <3>4. QED BY <3>2, <3>3
  <2>2. ASSUME NEW i \in AnswersIn(s, a) PROVE i \in AnswersIn(s \o t, a)
    BY <2>2, <1>1 DEF AnswersIn
  <2>3. ASSUME NEW i \in AnswersIn(t, a) PROVE i + n \in AnswersIn(s \o t, a)
    BY <2>3, <1>1 DEF AnswersIn
  <2>4. QED BY <2>1, <2>2, <2>3
<1>3. IsFiniteSet(moved) /\ Cardinality(moved) = Cardinality(AnswersIn(t, a))
  <2> DEFINE f == [i \in AnswersIn(t, a) |-> i + n]
  <2>1. AnswersIn(t, a) \subseteq Nat BY <1>1 DEF AnswersIn
  <2>2. f \in Bijection(AnswersIn(t, a), moved)
    <3>1. f \in [AnswersIn(t, a) -> moved] OBVIOUS
    <3>2. \A i, j \in AnswersIn(t, a) : f[i] = f[j] => i = j BY <2>1, <1>1
    <3>3. \A k \in moved : \E i \in AnswersIn(t, a) : f[i] = k OBVIOUS
    <3> HIDE DEF f, moved
    <3>4. QED BY <3>1, <3>2, <3>3 DEF Bijection, Injection, Surjection, IsInjective
  <2>3. ExistsBijection(AnswersIn(t, a), moved) BY <2>2 DEF ExistsBijection
  <2> HIDE DEF moved
  <2>4. QED BY <2>3, AnswersFinite, FS_Bijection
<1>4. AnswersIn(s, a) \cap moved = {}
  BY <1>1 DEF AnswersIn
<1> HIDE DEF moved
<1>5. Cardinality(AnswersIn(s, a) \cup moved)
        = Cardinality(AnswersIn(s, a)) + Cardinality(moved) - Cardinality({})
  BY <1>3, <1>4, AnswersFinite, FS_Union
<1>6. QED BY <1>2, <1>3, <1>5, AnswersFinite, FS_EmptySet

(* A single event is an answer to a or it is not. *)
Answering(e, a) == IF e.kind \in AnswerKinds /\ e.id = a THEN 1 ELSE 0

LEMMA AnswersSingle ==
    ASSUME NEW e \in EnvEvent, NEW a
    PROVE  Cardinality(AnswersIn(<<e>>, a)) = Answering(e, a)
<1>1. Len(<<e>>) = 1 /\ <<e>>[1] = e OBVIOUS
<1>2. AnswersIn(<<e>>, a) = IF e.kind \in AnswerKinds /\ e.id = a THEN {1} ELSE {}
  BY <1>1 DEF AnswersIn
<1>3. QED BY <1>2, FS_Singleton, FS_EmptySet DEF Answering

LEMMA AnswersAppend ==
    ASSUME NEW s \in Seq(EnvEvent), NEW e \in EnvEvent, NEW a
    PROVE  Cardinality(AnswersIn(Append(s, e), a))
             = Cardinality(AnswersIn(s, a)) + Answering(e, a)
<1>1. Append(s, e) = s \o <<e>> BY AppendIsConcat
<1>2. <<e>> \in Seq(EnvEvent) OBVIOUS
<1>3. Cardinality(AnswersIn(s \o <<e>>, a))
        = Cardinality(AnswersIn(s, a)) + Cardinality(AnswersIn(<<e>>, a))
  BY <1>2, AnswersConcat
<1>4. Cardinality(AnswersIn(<<e>>, a)) = Answering(e, a) BY AnswersSingle
<1>5. QED BY <1>1, <1>3, <1>4

LEMMA AnswersHeadTail ==
    ASSUME NEW s \in Seq(EnvEvent), s # <<>>, NEW a
    PROVE  Cardinality(AnswersIn(s, a))
             = Answering(Head(s), a) + Cardinality(AnswersIn(Tail(s), a))
<1>1. /\ Head(s) \in EnvEvent /\ Tail(s) \in Seq(EnvEvent)
      /\ Len(Tail(s)) = Len(s) - 1 /\ Len(s) \in Nat \ {0}
      /\ \A i \in 1 .. Len(Tail(s)) : Tail(s)[i] = s[i + 1]
  BY HeadTailProperties, EmptySeq
<1>2. <<Head(s)>> \in Seq(EnvEvent) /\ Len(<<Head(s)>>) = 1 /\ <<Head(s)>>[1] = s[1]
  BY <1>1
<1>3. s = <<Head(s)>> \o Tail(s)
  <2> DEFINE h == <<Head(s)>>
             t == Tail(s)
  <2>1. h \in Seq(EnvEvent) /\ t \in Seq(EnvEvent) /\ Len(h) = 1 /\ h[1] = s[1]
    BY <1>1, <1>2
  <2> HIDE DEF h, t
  <2>2. /\ h \o t \in Seq(EnvEvent) /\ Len(h \o t) = 1 + Len(t)
        /\ \A i \in 1 .. 1 + Len(t) : (h \o t)[i] = IF i <= 1 THEN h[i] ELSE t[i - 1]
    <3>1. /\ h \o t \in Seq(EnvEvent) /\ Len(h \o t) = Len(h) + Len(t)
          /\ \A i \in 1 .. Len(h) + Len(t) :
                (h \o t)[i] = IF i <= Len(h) THEN h[i] ELSE t[i - Len(h)]
      BY <2>1, ConcatProperties
    <3>2. QED BY <2>1, <3>1
  <2>3. Len(h \o t) = Len(s) BY <2>2, <1>1 DEF t
  <2>4. \A i \in 1 .. Len(s) : s[i] = (h \o t)[i]
    <3>1. SUFFICES ASSUME NEW i \in 1 .. Len(s) PROVE s[i] = (h \o t)[i] OBVIOUS
    <3>2. i \in 1 .. 1 + Len(t) BY <2>2, <2>3
    <3>3. CASE i = 1 BY <3>2, <3>3, <2>1, <2>2
    <3>4. CASE i # 1
      <4>1. i - 1 \in 1 .. Len(t) /\ ~(i <= 1) BY <3>2, <3>4, <1>1 DEF t
      <4>2. t[i - 1] = s[(i - 1) + 1] BY <4>1, <1>1 DEF t
      <4>3. (h \o t)[i] = t[i - 1] BY <3>2, <4>1, <2>2
      <4>4. (i - 1) + 1 = i OBVIOUS
      <4>5. QED BY <4>2, <4>3, <4>4
    <3>5. QED BY <3>3, <3>4
  <2>5. QED BY <2>2, <2>3, <2>4, SeqEqual DEF h, t
<1>4. Cardinality(AnswersIn(<<Head(s)>> \o Tail(s), a))
        = Cardinality(AnswersIn(<<Head(s)>>, a)) + Cardinality(AnswersIn(Tail(s), a))
  BY <1>1, <1>2, AnswersConcat
<1>5. Cardinality(AnswersIn(<<Head(s)>>, a)) = Answering(Head(s), a)
  BY <1>1, AnswersSingle
<1>6. QED BY <1>3, <1>4, <1>5

(***************************************************************************)
(* Every action is reported exactly once                                   *)
(***************************************************************************)

(* ReportedOnce, with the three queues counted one by one. *)
Answers(a) ==
    Cardinality(AnswersIn(queued, a)) + Cardinality(AnswersIn(batch, a))
        + Cardinality(AnswersIn(events, a))
Open(a) == IF running[a] = Nobody THEN 0 ELSE 1
Booked(a) == IF submitted[a] = Nobody THEN 0 ELSE 1
CountInv == Active => \A a \in ActionId : Answers(a) + Open(a) = Booked(a)

LEMMA CountsAll ==
    ASSUME TypeOK, NEW a
    PROVE  Cardinality(AnswersIn(queued \o batch \o events, a)) = Answers(a)
<1>1. queued \in Seq(EnvEvent) /\ batch \in Seq(EnvEvent) /\ events \in Seq(EnvEvent)
  BY DEF TypeOK
<1>2. queued \o batch \in Seq(EnvEvent) BY <1>1, ConcatProperties
<1>3. Cardinality(AnswersIn((queued \o batch) \o events, a))
        = Cardinality(AnswersIn(queued \o batch, a)) + Cardinality(AnswersIn(events, a))
  BY <1>1, <1>2, AnswersConcat
<1>4. Cardinality(AnswersIn(queued \o batch, a))
        = Cardinality(AnswersIn(queued, a)) + Cardinality(AnswersIn(batch, a))
  BY <1>1, AnswersConcat
<1>5. QED BY <1>3, <1>4 DEF Answers

LEMMA CountsReported ==
    ASSUME TypeOK
    PROVE  CountInv <=> ReportedOnce
BY CountsAll DEF CountInv, ReportedOnce, Open, Booked

(* The counts are natural numbers. *)
LEMMA CountTypes ==
    ASSUME TypeOK, NEW a \in ActionId
    PROVE  /\ Cardinality(AnswersIn(queued, a)) \in Nat
           /\ Cardinality(AnswersIn(batch, a)) \in Nat
           /\ Cardinality(AnswersIn(events, a)) \in Nat
           /\ Answers(a) \in Nat /\ Open(a) \in {0, 1} /\ Booked(a) \in {0, 1}
<1>1. /\ Cardinality(AnswersIn(queued, a)) \in Nat
      /\ Cardinality(AnswersIn(batch, a)) \in Nat
      /\ Cardinality(AnswersIn(events, a)) \in Nat
  BY AnswersFinite DEF TypeOK
<1>2. QED BY <1>1 DEF Answers, Open, Booked

(* An action that was not requested yet is nowhere in the books. *)
LEMMA FreshAction ==
    ASSUME TypeOK, AddressInv, CountInv, Active, NEW a \in ActionId, a > actions
    PROVE  running[a] = Nobody /\ submitted[a] = Nobody /\ Answers(a) = 0
<1>1. ASSUME NEW s \in Seq(EnvEvent), Range(s) \subseteq InFlight
      PROVE  Cardinality(AnswersIn(s, a)) = 0
  <2>1. \A i \in 1 .. Len(s) : s[i] \in InFlight BY <1>1, RangeEquality
  <2>2. AnswersIn(s, a) = {} BY <2>1 DEF AddressInv, AnswersIn
  <2>3. QED BY <2>2, FS_EmptySet
<1>2. Answers(a) = 0 BY <1>1 DEF Answers, InFlight, TypeOK
<1>3. running[a] = Nobody BY DEF AddressInv
<1>4. Booked(a) = 0 BY <1>2, <1>3 DEF CountInv, Open
<1>5. QED BY <1>2, <1>3, <1>4 DEF Booked

(* No step loses the report of an action or adds a second one. *)
LEMMA CountStep ==
    ASSUME TypeOK, TypeOK', TurnInv, PhaseInv, AddressInv, CountInv, [Next]_vars
    PROVE  CountInv'
<1> USE EnvironmentAssumption
<1>1. CASE ~Active' BY <1>1 DEF CountInv
<1>2. CASE Active /\ UNCHANGED <<queued, batch, events, running, submitted>>
  BY <1>2 DEF CountInv, Answers, Open, Booked
<1>3. CASE StartRun
  <2>1. /\ queued' = <<>> /\ batch' = <<>> /\ events' = <<>>
        /\ running' = [a \in ActionId |-> Nobody] /\ submitted' = [a \in ActionId |-> Nobody]
    BY <1>3 DEF StartRun, Reset
  <2>2. \A a \in ActionId : Answers(a)' = 0 BY <2>1, AnswersEmpty DEF Answers
  <2>3. QED BY <2>1, <2>2 DEF CountInv, Open, Booked
<1>4. CASE PollEnvironment
  <2>1. /\ batch = <<>> /\ Active /\ queued' = <<>> /\ batch' = queued \o events
        /\ events' = <<>> /\ UNCHANGED <<running, submitted>>
    BY <1>4 DEF PollEnvironment, Poll, PhaseInv, Active, book
  <2>2. ASSUME NEW a \in ActionId PROVE Answers(a)' = Answers(a)
    <3>1. Cardinality(AnswersIn(queued \o events, a))
            = Cardinality(AnswersIn(queued, a)) + Cardinality(AnswersIn(events, a))
      BY AnswersConcat DEF TypeOK
    <3>2. QED BY <2>1, <3>1, AnswersEmpty, CountTypes DEF Answers
  <2>3. QED BY <2>1, <2>2 DEF CountInv, Open, Booked
<1>5. CASE ApplyEvent
  <2> DEFINE e == Head(batch)
  <2>1. Active /\ batch \in Seq(EnvEvent) /\ batch # <<>> /\ e \in EnvEvent
    <3>1. Active /\ batch \in Seq(EnvEvent) /\ batch # <<>>
      BY <1>5 DEF ApplyEvent, PhaseInv, Active, TypeOK
    <3>2. QED BY <3>1, HeadTailProperties
  <2>2. SUFFICES ASSUME Active' PROVE CountInv' BY <1>1
  <2>3. /\ batch' = Tail(batch) /\ UNCHANGED <<queued, events, running>>
        /\ submitted' = IF e.kind \in AnswerKinds THEN [submitted EXCEPT ![e.id] = Nobody]
                                                  ELSE submitted
    BY <1>5, <2>2 DEF ApplyEvent, Stop, Active, envVars
  <2>4. ASSUME NEW a \in ActionId
        PROVE  Answers(a) = Answers(a)' + Answering(e, a)
    <3>1. Cardinality(AnswersIn(batch, a))
            = Answering(e, a) + Cardinality(AnswersIn(Tail(batch), a))
      BY <2>1, AnswersHeadTail
    <3>2. Answering(e, a) \in {0, 1} BY DEF Answering
    <3>3. Cardinality(AnswersIn(batch', a)) \in Nat BY AnswersFinite DEF TypeOK
    <3> HIDE DEF e
    <3>4. QED BY <2>3, <3>1, <3>2, <3>3, CountTypes DEF Answers
  <2>5. ASSUME NEW a \in ActionId PROVE Answers(a)' + Open(a)' = Booked(a)'
    <3>1. /\ Answers(a) + Open(a) = Booked(a) /\ Open(a)' = Open(a)
          /\ Answers(a) \in Nat /\ Open(a) \in {0, 1} /\ Booked(a) \in {0, 1}
      BY <2>1, <2>3, CountTypes DEF CountInv, Open
    <3>2. Answers(a)' \in Nat
      <4>1. /\ Cardinality(AnswersIn(queued', a)) \in Nat
            /\ Cardinality(AnswersIn(batch', a)) \in Nat
            /\ Cardinality(AnswersIn(events', a)) \in Nat
        BY AnswersFinite DEF TypeOK
      <4>2. QED BY <4>1 DEF Answers
    <3>3. CASE e.kind \in AnswerKinds /\ e.id = a
      <4>1. Booked(a)' = 0 BY <2>3, <3>3 DEF Booked, TypeOK
      <4>2. Answers(a) = Answers(a)' + 1 BY <2>4, <3>3 DEF Answering
      <4>3. QED BY <3>1, <3>2, <4>1, <4>2
    <3>4. CASE ~(e.kind \in AnswerKinds /\ e.id = a)
      <4>1. Booked(a)' = Booked(a) BY <2>3, <3>4 DEF Booked, TypeOK
      <4>2. Answers(a) = Answers(a)' BY <2>4, <3>2, <3>4 DEF Answering
      <4>3. QED BY <3>1, <4>1, <4>2
    <3>5. QED BY <3>3, <3>4
  <2>6. QED BY <2>5 DEF CountInv
<1>6. ASSUME NEW p \in Participant, PickParticipant(p) PROVE CountInv'
  BY <1>6, <1>2 DEF PickParticipant, book, envVars, Active
<1>7. CASE CheckLimits \/ EnvironmentTerminates \/ NobodyToRun
  BY <1>7, <1>2 DEF CheckLimits, EnvironmentTerminates, NobodyToRun, loopLocals, book, envVars,
                    Active
<1>8. CASE ResetFails \/ EndRun \/ Abort
  BY <1>8, <1>1 DEF ResetFails, EndRun, Abort, Active
<1>9. CASE WaitExpires \/ DurationElapses \/ UNCHANGED vars
  <2>1. UNCHANGED <<queued, batch, events, running, submitted, pc>>
    BY <1>9 DEF WaitExpires, DurationElapses, vars, control, book, envVars
  <2>2. QED BY <2>1, <1>1, <1>2 DEF Active
<1>10. ASSUME NEW p \in Participant, Decide(p) PROVE CountInv'
  <2>1. pc = "turn" /\ Active
    BY <1>10 DEF Decide, Notification, Message, FinalMessage, RefusedAction, ImmediateAction,
                 ScheduledAction, UnscheduledAction, Yield, Finish, ParticipantFails, Turn,
                 Active
  <2>2. CASE Notification(p) \/ Message(p) \/ FinalMessage(p) \/ Yield(p) \/ Finish(p)
               \/ ParticipantFails(p)
    BY <2>1, <2>2, <1>2 DEF Notification, Message, FinalMessage, Yield, Finish,
                            ParticipantFails, loopLocals, book, envVars
  <2>3. ASSUME NEW handoff \in BOOLEAN, ~ActionRefused(handoff), CountAction(p, handoff)
        PROVE  actions' \in ActionId /\ actions' > actions
    BY <2>3 DEF ActionRefused, CountAction, ActionId, TypeOK
  <2>4. p # Nobody BY DEF Participant, Nobody
  <2>5. ASSUME NEW handoff \in BOOLEAN, RefusedAction(p, handoff) PROVE CountInv'
    BY <2>5, <1>1 DEF RefusedAction, Stop, Active
  <2>6. ASSUME NEW k \in AnswerKinds, actions' \in ActionId, actions' > actions,
               submitted' = [submitted EXCEPT ![actions'] = p],
               queued' = Append(queued, Event(k, p, actions')),
               UNCHANGED <<batch, events, running>>
        PROVE  CountInv'
    <3> DEFINE x == Event(k, p, actions')
    <3>1. x \in EnvEvent /\ x.kind = k /\ x.id = actions'
      BY <2>6 DEF Event, EnvEvent, EventKinds
    <3>2. \A a \in ActionId : Cardinality(AnswersIn(Append(queued, x), a))
                               = Cardinality(AnswersIn(queued, a)) + Answering(x, a)
      BY <3>1, AnswersAppend DEF TypeOK
    <3>3. \A a \in ActionId : Answering(x, a) = IF a = actions' THEN 1 ELSE 0
      BY <2>6, <3>1 DEF Answering
    <3>4. queued' = Append(queued, x) BY <2>6
    <3> HIDE DEF x
    <3>5. ASSUME NEW a \in ActionId PROVE Answers(a)' + Open(a)' = Booked(a)'
      <4>1. Answers(a) + Open(a) = Booked(a) /\ Open(a)' = Open(a)
        BY <2>1, <2>6 DEF CountInv, Open
      <4>2. CASE a = actions'
        <5>1. Open(a) = 0 /\ Answers(a) = 0 BY <4>2, <2>1, <2>6, FreshAction DEF Open
        <5>2. Answers(a)' = Answers(a) + 1
          BY <2>6, <3>2, <3>3, <3>4, <4>2, CountTypes DEF Answers
        <5>3. Booked(a)' = 1 BY <2>4, <2>6, <4>2 DEF Booked, TypeOK
        <5>4. QED BY <4>1, <5>1, <5>2, <5>3
      <4>3. CASE a # actions'
        <5>1. Answers(a)' = Answers(a)
          BY <2>6, <3>2, <3>3, <3>4, <4>3, CountTypes DEF Answers
        <5>2. Booked(a)' = Booked(a) BY <2>6, <4>3 DEF Booked, TypeOK
        <5>3. QED BY <4>1, <5>1, <5>2
      <4>4. QED BY <4>2, <4>3
    <3>6. QED BY <3>5 DEF CountInv
  <2>7. ASSUME NEW handoff \in BOOLEAN, ImmediateAction(p, handoff) PROVE CountInv'
    <3>1. CASE ~Active' BY <3>1, <1>1
    <3>2. CASE Active'
      <4>1. /\ submitted' = [submitted EXCEPT ![actions'] = p]
            /\ queued' = Append(queued, Event("ActionCompleted", p, actions'))
            /\ UNCHANGED <<batch, events, running>>
        BY <2>7, <3>2 DEF ImmediateAction, Stop, envVars, Active
      <4>2. actions' \in ActionId /\ actions' > actions BY <2>3, <2>7 DEF ImmediateAction
      <4>3. QED BY <2>6, <4>1, <4>2 DEF AnswerKinds
    <3>3. QED BY <3>1, <3>2
  <2>8. ASSUME NEW handoff \in BOOLEAN, UnscheduledAction(p, handoff) PROVE CountInv'
    <3>1. /\ submitted' = [submitted EXCEPT ![actions'] = p]
          /\ queued' = Append(queued, Event("ActionFailed", p, actions'))
          /\ UNCHANGED <<batch, events, running>>
      BY <2>8 DEF UnscheduledAction, envVars
    <3>2. actions' \in ActionId /\ actions' > actions BY <2>3, <2>8 DEF UnscheduledAction
    <3>3. QED BY <2>6, <3>1, <3>2 DEF AnswerKinds
  <2>9. ASSUME NEW handoff \in BOOLEAN, NEW blocking \in BOOLEAN,
               ScheduledAction(p, blocking, handoff)
        PROVE  CountInv'
    <3>1. /\ submitted' = [submitted EXCEPT ![actions'] = p]
          /\ running' = [running EXCEPT ![actions'] = p]
          /\ UNCHANGED <<queued, batch, events>>
      BY <2>9 DEF ScheduledAction, Accept
    <3>2. actions' \in ActionId /\ actions' > actions BY <2>3, <2>9 DEF ScheduledAction
    <3>3. ASSUME NEW a \in ActionId PROVE Answers(a)' + Open(a)' = Booked(a)'
      <4>1. Answers(a) + Open(a) = Booked(a) /\ Answers(a)' = Answers(a)
        BY <2>1, <3>1 DEF CountInv, Answers
      <4>2. CASE a = actions'
        <5>1. Answers(a) = 0 BY <4>2, <2>1, <3>2, FreshAction
        <5>2. Open(a)' = 1 /\ Booked(a)' = 1
          BY <2>4, <3>1, <4>2 DEF Open, Booked, TypeOK
        <5>3. QED BY <4>1, <5>1, <5>2
      <4>3. CASE a # actions'
        <5>1. Open(a)' = Open(a) /\ Booked(a)' = Booked(a)
          BY <3>1, <4>3 DEF Open, Booked, TypeOK
        <5>2. QED BY <4>1, <5>1
      <4>4. QED BY <4>2, <4>3
    <3>4. QED BY <3>3 DEF CountInv
  <2>10. QED BY <1>10, <2>2, <2>5, <2>7, <2>8, <2>9 DEF Decide, Handoffs
<1>11. CASE EnvStep
  <2>1. UNCHANGED <<submitted, queued, batch, pc>> BY <1>11 DEF EnvStep, control, book
  <2>2. SUFFICES ASSUME Active PROVE CountInv' BY <2>1, <1>1 DEF Active
  <2>3. ASSUME Chatter PROVE CountInv'
    <3>1. PICK x \in EnvEvent : events' = Append(events, x) /\ x.kind \notin AnswerKinds
      <4>1. PICK k \in ChatterKinds, p \in Participant, a \in ActionId \cup {NoAction} :
              events' = Append(events, Event(k, p, a))
        BY <2>3 DEF Chatter, Notice
      <4>2. Event(k, p, a) \in EnvEvent /\ Event(k, p, a).kind = k
        BY DEF Event, EnvEvent, EventKinds
      <4>3. k \notin AnswerKinds BY DEF AnswerKinds
      <4>4. QED BY <4>1, <4>2, <4>3
    <3>2. running' = running BY <2>3 DEF Chatter, Notice
    <3>3. ASSUME NEW a \in ActionId PROVE Answers(a)' = Answers(a)
      <4>1. Cardinality(AnswersIn(Append(events, x), a))
              = Cardinality(AnswersIn(events, a)) + Answering(x, a)
        BY AnswersAppend DEF TypeOK
      <4>2. Answering(x, a) = 0 BY <3>1 DEF Answering
      <4>3. QED BY <2>1, <3>1, <4>1, <4>2, CountTypes DEF Answers
    <3>4. QED BY <2>1, <2>2, <3>2, <3>3 DEF CountInv, Open, Booked
  <2>4. ASSUME NEW b \in ActionId, Answer(b) PROVE CountInv'
    <3>1. PICK k \in AnswerKinds : events' = Append(events, Event(k, running[b], b))
      BY <2>4 DEF Answer
    <3> DEFINE x == Event(k, running[b], b)
    <3>2. running[b] # Nobody /\ running[b] \in Participant
      BY <2>4 DEF Answer, TypeOK
    <3>3. x.kind = k /\ x.id = b /\ x \in EnvEvent
      BY <3>2 DEF Event, EnvEvent, EventKinds
    <3>4. events' = Append(events, x) BY <3>1
    <3> HIDE DEF x
    <3>5. ASSUME NEW a \in ActionId PROVE Answers(a)' + Open(a)' = Booked(a)'
      <4>1. Answers(a) + Open(a) = Booked(a) /\ Booked(a)' = Booked(a)
        BY <2>1, <2>2 DEF CountInv, Booked
      <4>2. Cardinality(AnswersIn(Append(events, x), a))
              = Cardinality(AnswersIn(events, a)) + Answering(x, a)
        BY <3>3, AnswersAppend DEF TypeOK
      <4>3. Open(a)' = IF a = b THEN 0 ELSE Open(a)
        BY <2>4 DEF Answer, Open, TypeOK
      <4>4. Answering(x, a) = IF a = b THEN 1 ELSE 0 BY <3>3 DEF Answering
      <4>5. Answers(a)' = Answers(a) + Answering(x, a)
        <5>1. Answering(x, a) \in {0, 1} BY <4>4
        <5>2. QED BY <2>1, <3>4, <4>2, <5>1, CountTypes DEF Answers
      <4>6. CASE a = b
        <5>1. Open(a) = 1 BY <3>2, <4>6 DEF Open
        <5>2. QED BY <4>1, <4>3, <4>4, <4>5, <4>6, <5>1, CountTypes
      <4>7. CASE a # b
        <5>1. Answers(a) \in Nat BY CountTypes
        <5>2. QED BY <4>1, <4>3, <4>4, <4>5, <4>7, <5>1
      <4>8. QED BY <4>6, <4>7
    <3>6. QED BY <3>5 DEF CountInv
  <2>5. QED BY <1>11, <2>3, <2>4 DEF EnvStep, EnvNext
<1>12. QED
  BY <1>3, <1>4, <1>5, <1>6, <1>7, <1>8, <1>9, <1>10, <1>11 DEF Next, RunStep

(* Every requested action is reported exactly once. *)
THEOREM ReportsAreUnique == Spec => []ReportedOnce
<1>1. Init => CountInv BY DEF Init, CountInv, Active
<1>2. IInv /\ IInv' /\ CountInv /\ [Next]_vars => CountInv'
  BY CountStep DEF IInv
<1>3. IInv /\ CountInv => ReportedOnce BY CountsReported DEF IInv
<1>4. QED BY <1>1, <1>2, <1>3, Inductive, PTL DEF Spec

(***************************************************************************)
(* A deadlock is real                                                      *)
(***************************************************************************)

(* What the environment still owes, and what it has sent, is outstanding in *)
(* the books; answers to immediate actions are polled before the next pick. *)
OwedInv ==
    Active =>
        /\ pc \in {"apply", "pick", "turn"} => queued = <<>>
        /\ \A a \in ActionId :
              running[a] # Nobody \/ AnswersIn(events, a) # {} => a \in pending

(* Once the run is over as deadlocked nothing is left that could move it. *)
StuckInv ==
    (pc = "ended" /\ result.reason = "Deadlocked") =>
        /\ NobodyRunnable
        /\ \A p \in roster \ finished : loop[p] # "WaitingForActionCompletion"
        /\ queued = <<>> /\ batch = <<>>
        /\ \A a \in ActionId : running[a] = Nobody /\ AnswersIn(events, a) = {}

(* An answer being applied was the last of its action. *)
LEMMA AppliedIsLast ==
    ASSUME TypeOK, AddressInv, CountInv, Active, batch # <<>>,
           Head(batch).kind \in AnswerKinds, Head(batch).id \in ActionId
    PROVE  /\ running[Head(batch).id] = Nobody
           /\ AnswersIn(events, Head(batch).id) = {}
<1> DEFINE a == Head(batch).id
<1>1. Cardinality(AnswersIn(batch, a))
        = Answering(Head(batch), a) + Cardinality(AnswersIn(Tail(batch), a))
  BY AnswersHeadTail DEF TypeOK
<1>2. Answering(Head(batch), a) = 1 BY DEF Answering
<1>3. Cardinality(AnswersIn(Tail(batch), a)) \in Nat
  BY HeadTailProperties, AnswersFinite DEF TypeOK
<1> HIDE DEF a
<1>4. Answers(a) + Open(a) = Booked(a) /\ a \in ActionId BY DEF CountInv, a
<1>5. Cardinality(AnswersIn(events, a)) = 0 /\ Open(a) = 0
  <2>1. /\ Cardinality(AnswersIn(queued, a)) \in Nat
        /\ Cardinality(AnswersIn(events, a)) \in Nat
    BY AnswersFinite DEF TypeOK
  <2>2. (Open(a) = 0 \/ Open(a) = 1) /\ (Booked(a) = 0 \/ Booked(a) = 1)
    BY DEF Open, Booked
  <2>3. Answers(a) = Cardinality(AnswersIn(queued, a)) + Cardinality(AnswersIn(batch, a))
                       + Cardinality(AnswersIn(events, a))
    BY DEF Answers
  <2>4. QED BY <1>1, <1>2, <1>3, <1>4, <2>1, <2>2, <2>3
<1>6. IsFiniteSet(AnswersIn(events, a)) BY AnswersFinite DEF TypeOK
<1>7. QED BY <1>5, <1>6, FS_EmptySet DEF Open, a

(* An answer in a queue is in the range of the queue, and the other way. *)
LEMMA NoAnswersAfter ==
    ASSUME NEW s \in Seq(EnvEvent), NEW e \in EnvEvent, NEW a
    PROVE  AnswersIn(Append(s, e), a) = {} <=>
             AnswersIn(s, a) = {} /\ ~(e.kind \in AnswerKinds /\ e.id = a)
<1>1. Cardinality(AnswersIn(Append(s, e), a))
        = Cardinality(AnswersIn(s, a)) + Answering(e, a)
  BY AnswersAppend
<1>2. Append(s, e) \in Seq(EnvEvent) BY AppendProperties
<1>3. /\ IsFiniteSet(AnswersIn(s, a)) /\ Cardinality(AnswersIn(s, a)) \in Nat
      /\ IsFiniteSet(AnswersIn(Append(s, e), a))
  BY <1>2, AnswersFinite
<1>4. /\ Cardinality(AnswersIn(s, a)) = 0 <=> AnswersIn(s, a) = {}
      /\ Cardinality(AnswersIn(Append(s, e), a)) = 0 <=> AnswersIn(Append(s, e), a) = {}
  BY <1>3, FS_EmptySet
<1>5. QED BY <1>1, <1>3, <1>4 DEF Answering

(* The books know of everything the environment owes. *)
LEMMA OwedStep ==
    ASSUME TypeOK, TypeOK', TurnInv, PhaseInv, AddressInv, CountInv, OwedInv, [Next]_vars
    PROVE  OwedInv'
<1> USE EnvironmentAssumption
<1>1. CASE ~Active' BY <1>1 DEF OwedInv
<1>2. CASE /\ Active /\ UNCHANGED <<events, running, pending>>
           /\ UNCHANGED queued /\ (pc \in {"apply", "pick", "turn"} \/ pc' \in {"limits", "poll"})
  BY <1>2 DEF OwedInv
<1>3. CASE StartRun
  <2>1. \A a : AnswersIn(events', a) = {} BY <1>3, AnswersEmpty DEF StartRun, Reset
  <2>2. QED BY <1>3, <2>1 DEF StartRun, Reset, OwedInv
<1>4. CASE PollEnvironment
  <2>1. \A a : AnswersIn(events', a) = {} BY <1>4, AnswersEmpty DEF PollEnvironment, Poll
  <2>2. QED BY <1>4, <2>1 DEF PollEnvironment, Poll, book, OwedInv, Active
<1>5. CASE ApplyEvent
  <2> DEFINE e == Head(batch)
  <2>1. Active /\ batch \in Seq(EnvEvent) /\ batch # <<>>
    BY <1>5 DEF ApplyEvent, PhaseInv, Active, TypeOK
  <2>2. /\ pc = "apply" /\ UNCHANGED <<queued, events, running>>
        /\ pending' = IF e.kind \in AnswerKinds THEN pending \ {e.id} ELSE pending
    BY <1>5 DEF ApplyEvent, envVars
  <2>3. ASSUME NEW a \in ActionId, running[a] # Nobody \/ AnswersIn(events, a) # {}
        PROVE  a \in pending'
    <3>1. a \in pending BY <2>1, <2>3 DEF OwedInv
    <3>2. ~(e.kind \in AnswerKinds /\ e.id = a) BY <2>1, <2>3, AppliedIsLast
    <3>3. QED BY <3>1, <3>2, <2>2
  <2>4. queued' = <<>> BY <2>1, <2>2 DEF OwedInv
  <2>5. QED BY <2>2, <2>3, <2>4 DEF OwedInv
<1>6. ASSUME NEW p \in Participant, PickParticipant(p) PROVE OwedInv'
  BY <1>6, <1>2 DEF PickParticipant, book, envVars, Active
<1>7. CASE CheckLimits \/ EnvironmentTerminates \/ NobodyToRun
  <2>1. /\ UNCHANGED <<events, running, pending, queued>> /\ Active
        /\ pc' \in {"poll", "ended", "limits"}
    BY <1>7 DEF CheckLimits, EnvironmentTerminates, NobodyToRun, Stop, Continue, loopLocals,
                book, envVars, Active
  <2>2. QED BY <2>1, <1>1, <1>2 DEF Active
<1>8. CASE ResetFails \/ EndRun \/ Abort
  BY <1>8, <1>1 DEF ResetFails, EndRun, Abort, Active
<1>9. CASE WaitExpires \/ DurationElapses \/ UNCHANGED vars
  <2>1. UNCHANGED <<queued, events, running, pending, pc>>
    BY <1>9 DEF WaitExpires, DurationElapses, vars, control, book, envVars
  <2>2. QED BY <2>1, <1>1 DEF OwedInv, Active
<1>10. ASSUME NEW p \in Participant, Decide(p) PROVE OwedInv'
  <2>1. pc = "turn" /\ Active /\ pc' \in {"limits", "ended"}
    BY <1>10 DEF Decide, Notification, Message, FinalMessage, RefusedAction, ImmediateAction,
                 ScheduledAction, UnscheduledAction, Yield, Finish, ParticipantFails, Turn,
                 MessageVerdict, Stop, Continue, Active
  <2>2. CASE UNCHANGED <<events, running, pending>>
    BY <2>1, <2>2 DEF OwedInv
  <2>3. ASSUME NEW handoff \in BOOLEAN, NEW blocking \in BOOLEAN,
               ScheduledAction(p, blocking, handoff)
        PROVE  OwedInv'
    <3>1. /\ running' = [running EXCEPT ![actions'] = p] /\ UNCHANGED events
          /\ pending' = pending \cup {actions'} /\ pc' = "limits"
      BY <2>3 DEF ScheduledAction, Accept, Continue
    <3>2. \A a \in ActionId : running'[a] # Nobody => running[a] # Nobody \/ a = actions'
      BY <3>1 DEF TypeOK
    <3>3. QED BY <2>1, <3>1, <3>2 DEF OwedInv
  <2>4. QED
    BY <1>10, <2>2, <2>3
    DEF Decide, Handoffs, Notification, Message, FinalMessage, RefusedAction, ImmediateAction,
        UnscheduledAction, Yield, Finish, ParticipantFails, loopLocals, book, envVars
<1>11. CASE EnvStep
  <2>1. UNCHANGED <<queued, pending, pc>> BY <1>11 DEF EnvStep, control, book
  <2>2. SUFFICES ASSUME Active PROVE OwedInv' BY <2>1, <1>1 DEF Active
  <2>3. ASSUME Chatter PROVE OwedInv'
    <3>1. PICK x \in EnvEvent : events' = Append(events, x) /\ x.kind \notin AnswerKinds
      <4>1. PICK k \in ChatterKinds, p \in Participant, a \in ActionId \cup {NoAction} :
              events' = Append(events, Event(k, p, a))
        BY <2>3 DEF Chatter, Notice
      <4>2. Event(k, p, a) \in EnvEvent /\ Event(k, p, a).kind = k
        BY DEF Event, EnvEvent, EventKinds
      <4>3. k \notin AnswerKinds BY DEF AnswerKinds
      <4>4. QED BY <4>1, <4>2, <4>3
    <3>2. running' = running BY <2>3 DEF Chatter, Notice
    <3>3. \A a \in ActionId : AnswersIn(events', a) # {} => AnswersIn(events, a) # {}
      BY <3>1, NoAnswersAfter DEF TypeOK
    <3>4. QED BY <2>1, <2>2, <3>2, <3>3 DEF OwedInv, Active
  <2>4. ASSUME NEW b \in ActionId, Answer(b) PROVE OwedInv'
    <3>1. PICK k \in AnswerKinds : events' = Append(events, Event(k, running[b], b))
      BY <2>4 DEF Answer
    <3>2. running[b] # Nobody /\ running[b] \in Participant
      BY <2>4 DEF Answer, TypeOK
    <3>3. Event(k, running[b], b).id = b /\ Event(k, running[b], b) \in EnvEvent
      BY <3>2 DEF Event, EnvEvent, EventKinds
    <3>4. \A a \in ActionId : AnswersIn(events', a) # {} => AnswersIn(events, a) # {} \/ a = b
      BY <3>1, <3>3, NoAnswersAfter DEF TypeOK
    <3>5. \A a \in ActionId : running'[a] # Nobody => running[a] # Nobody
      BY <2>4 DEF Answer, TypeOK
    <3>6. QED BY <2>1, <2>2, <3>2, <3>4, <3>5 DEF OwedInv, Active
  <2>5. QED BY <1>11, <2>3, <2>4 DEF EnvStep, EnvNext
<1>12. QED
  BY <1>3, <1>4, <1>5, <1>6, <1>7, <1>8, <1>9, <1>10, <1>11 DEF Next, RunStep

(* The loop gives a run up as deadlocked only when it is, and nothing moves *)
(* it afterwards.                                                          *)
LEMMA StuckStep ==
    ASSUME IInv, OwedInv, StuckInv, [Next]_vars
    PROVE  StuckInv'
<1>1. CASE ~(pc' = "ended" /\ result'.reason = "Deadlocked") BY <1>1 DEF StuckInv
<1>2. ASSUME NEW r, NEW p, Stop(Verdict(r, p)), r # "Deadlocked" PROVE StuckInv'
  BY <1>2 DEF Stop, Verdict, StuckInv
<1>3. CASE NobodyToRun
  <2>1. \/ Stop(Verdict("BlockedActionWaitExceeded", Nobody)) \/ Continue
        \/ pending = {} /\ Stop(Verdict("Deadlocked", Nobody))
    BY <1>3 DEF NobodyToRun
  <2>2. CASE Continue BY <2>2 DEF Continue, StuckInv
  <2>3. CASE pending = {} /\ Stop(Verdict("Deadlocked", Nobody))
    <3>1. pc = "pick" /\ Active /\ NobodyRunnable /\ roster' = roster
      BY <1>3, <2>3 DEF NobodyToRun, Stop, Active
    <3>2. UNCHANGED <<loop, finished, pendingInbox, queued, batch, running, events>>
      BY <1>3 DEF NobodyToRun, loops, envVars
    <3>3. NobodyRunnable'
      BY <3>1, <3>2 DEF NobodyRunnable, Runnable
    <3>4. \A p \in Participant : loop[p] # "WaitingForActionCompletion"
      BY <2>3, <3>1 DEF IInv, BlockedIsAnswerable
    <3>5. roster \subseteq Participant BY DEF IInv, TypeOK
    <3>6. queued = <<>> /\ batch = <<>> BY <3>1 DEF OwedInv, IInv, PhaseInv
    <3>7. \A a \in ActionId : running[a] = Nobody /\ AnswersIn(events, a) = {}
      BY <2>3, <3>1 DEF OwedInv
    <3>8. QED BY <3>1, <3>2, <3>3, <3>4, <3>5, <3>6, <3>7 DEF StuckInv
  <2>4. QED BY <2>1, <2>2, <2>3, <1>2
<1>4. CASE StartRun \/ ResetFails \/ EndRun \/ Abort \/ PollEnvironment
  BY <1>4 DEF StartRun, ResetFails, EndRun, Abort, PollEnvironment, Verdict, StuckInv
<1>5. CASE CheckLimits \/ ApplyEvent \/ EnvironmentTerminates
  <2>1. \/ pc' # "ended"
        \/ \E st, fl, cs : Stop(Verdict(LimitReason(st, fl, cs), Nobody))
        \/ Stop(Verdict("EnvironmentTerminated", Nobody))
    BY <1>5 DEF CheckLimits, ApplyEvent, EnvironmentTerminates
  <2>2. \A st, fl, cs : LimitReason(st, fl, cs) # "Deadlocked" BY DEF LimitReason
  <2>3. QED BY <2>1, <2>2, <1>1, <1>2
<1>6. ASSUME NEW p \in Participant, PickParticipant(p) \/ Decide(p) PROVE StuckInv'
  <2>1. CASE PickParticipant(p)
    <3>1. pc' = "turn" \/ Stop(Verdict("AgentLoopStepLimitExceeded", p))
      BY <2>1 DEF PickParticipant
    <3>2. QED BY <3>1, <1>1, <1>2
  <2>2. CASE Continue BY <2>2, <1>1 DEF Continue
  <2>3. ASSUME MessageVerdict(messages') PROVE StuckInv'
    <3>1. Continue \/ Stop(Verdict("MessageLimitExceeded", Nobody))
      BY <2>3 DEF MessageVerdict
    <3>2. QED BY <3>1, <2>2, <1>2
  <2>4. CASE Notification(p) \/ Message(p) BY <2>3, <2>4 DEF Notification, Message
  <2>5. CASE FinalMessage(p)
    <3>1. Stop(Verdict("ParticipantCompletedLoop", p)) \/ MessageVerdict(messages')
      BY <2>5 DEF FinalMessage
    <3>2. QED BY <3>1, <2>3, <1>2
  <2>6. ASSUME NEW handoff \in BOOLEAN, RefusedAction(p, handoff) PROVE StuckInv'
    <3>1. \/ Stop(Verdict("MessageLimitExceeded", Nobody))
          \/ Stop(Verdict("ActionLimitExceeded", Nobody))
      BY <2>6 DEF RefusedAction
    <3>2. QED BY <3>1, <1>2
  <2>7. ASSUME NEW handoff \in BOOLEAN,
               \/ ImmediateAction(p, handoff) \/ UnscheduledAction(p, handoff)
               \/ \E blocking \in BOOLEAN : ScheduledAction(p, blocking, handoff)
        PROVE  StuckInv'
    <3>1. Continue \/ Stop(Verdict("EnvironmentError", Nobody))
      BY <2>7 DEF ImmediateAction, UnscheduledAction, ScheduledAction
    <3>2. QED BY <3>1, <2>2, <1>2
  <2>8. CASE Yield(p) \/ Finish(p) \/ ParticipantFails(p)
    <3>1. \/ Continue
          \/ Stop(Verdict("ParticipantsFinished", Nobody))
          \/ Stop(Verdict("ParticipantFinished", p))
          \/ Stop(Verdict("ParticipantError", p))
      BY <2>8 DEF Yield, Finish, ParticipantFails, FinishVerdict
    <3>2. QED BY <3>1, <2>2, <1>2
  <2>9. QED BY <1>6, <2>1, <2>4, <2>5, <2>6, <2>7, <2>8 DEF Decide, Handoffs
<1>7. CASE WaitExpires \/ DurationElapses \/ UNCHANGED vars
  <2>1. UNCHANGED <<pc, result, roster, loop, finished, pendingInbox, queued, batch, running,
                    events>>
    BY <1>7 DEF WaitExpires, DurationElapses, vars, control, loops, envVars
  <2>2. QED BY <2>1 DEF StuckInv, NobodyRunnable, Runnable
<1>8. CASE EnvStep
  <2>1. UNCHANGED <<pc, result, roster, loop, finished, pendingInbox, queued, batch>>
    BY <1>8 DEF EnvStep, control, loops
  <2>2. SUFFICES ASSUME pc = "ended", result.reason = "Deadlocked" PROVE StuckInv'
    BY <2>1, <1>1
  <2>3. \A a \in ActionId : running[a] = Nobody BY <2>2 DEF StuckInv
  <2>4. Chatter BY <1>8, <2>3 DEF EnvStep, EnvNext, Answer
  <2>5. PICK x \in EnvEvent : events' = Append(events, x) /\ x.kind \notin AnswerKinds
    <3>1. PICK k \in ChatterKinds, p \in Participant, a \in ActionId \cup {NoAction} :
            events' = Append(events, Event(k, p, a))
      BY <2>4 DEF Chatter, Notice
    <3>2. k \in EventKinds /\ k \notin AnswerKinds
      BY EnvironmentAssumption DEF EventKinds, AnswerKinds
    <3>3. Event(k, p, a) \in EnvEvent /\ Event(k, p, a).kind = k
      BY <3>2 DEF Event, EnvEvent
    <3>4. QED BY <3>1, <3>2, <3>3
  <2>6. running' = running BY <2>4 DEF Chatter, Notice
  <2>7. \A a \in ActionId : AnswersIn(events', a) = {}
    BY <2>2, <2>5, NoAnswersAfter DEF StuckInv, IInv, TypeOK
  <2>8. QED BY <2>1, <2>2, <2>6, <2>7 DEF StuckInv, NobodyRunnable, Runnable
<1>9. QED BY <1>3, <1>4, <1>5, <1>6, <1>7, <1>8 DEF Next, RunStep

(* A run that ended as deadlocked has nobody to run, nobody blocked on an   *)
(* action and no answer under way or to come.                              *)
THEOREM DeadlocksAreReal == Spec => []DeadlockIsReal
<1>1. Init => CountInv /\ OwedInv /\ StuckInv
  BY DEF Init, CountInv, OwedInv, StuckInv, Active
<1>2. IInv /\ IInv' /\ CountInv /\ OwedInv /\ StuckInv /\ [Next]_vars
        => CountInv' /\ OwedInv' /\ StuckInv'
  BY CountStep, OwedStep, StuckStep DEF IInv
<1>3. IInv /\ StuckInv => DeadlockIsReal
  <2>1. SUFFICES ASSUME IInv, StuckInv, pc = "ended", result.reason = "Deadlocked"
                 PROVE  \A a \in ActionId : AnswersIn(queued \o batch \o events, a) = {}
    BY DEF DeadlockIsReal, StuckInv
  <2>2. queued = <<>> /\ batch = <<>> BY <2>1 DEF StuckInv
  <2>3. events \in Seq(EnvEvent) BY <2>1 DEF IInv, TypeOK
  <2>4. queued \o batch \o events = events BY <2>2, <2>3, ConcatEmptySeq
  <2>5. QED BY <2>1, <2>4 DEF StuckInv
<1>4. QED BY <1>1, <1>2, <1>3, Inductive, PTL DEF Spec

(***************************************************************************)
(* WHAT A STEP OF THE RUN LOOP MAY NEVER DO                                *)
(***************************************************************************)
(* What a step of the run loop may never do: drop an item, release a       *)
(* blocked loop for anything but its own answer, or pass over a            *)
(* participant that can run.  All three follow from one lemma, which says  *)
(* what any step of a run does to one participant.                         *)
(***************************************************************************)

(* The step leaves the loop and the inboxes of p alone ... *)
Untouched(p) ==
    loop'[p] = loop[p] /\ loopInbox'[p] = loopInbox[p] /\ pendingInbox'[p] = pendingInbox[p]

(* ... or it delivers one item to p ... *)
Receives(p, item) ==
    \/ /\ loop[p] = "Idle" /\ loop'[p] = "Idle" /\ loopInbox'[p] = loopInbox[p]
       /\ pendingInbox'[p] = Append(pendingInbox[p], item)
    \/ /\ loop[p] # "Idle" /\ pendingInbox'[p] = pendingInbox[p]
       /\ loopInbox'[p] = Append(loopInbox[p], item)
       /\ loop'[p] = IF Wakes(p, item) THEN "ReadyForTurn" ELSE loop[p]

(* ... or it is the turn of p, which has read everything it was sent. *)
Acts(p) ==
    /\ pc = "turn" /\ current = p
    /\ loop[p] = "ReadyForTurn" /\ loopInbox[p] = <<>> /\ pendingInbox[p] = <<>>

LEMMA DeliveryReceived ==
    ASSUME TypeOK, NEW S, NEW item \in InboxEvent, NEW p \in Participant,
           loop'[p] = LoopAfter(S, item)[p],
           loopInbox'[p] = LoopInboxAfter(S, item)[p],
           pendingInbox'[p] = PendingInboxAfter(S, item)[p]
    PROVE  Untouched(p) \/ Receives(p, item)
<1>1. CASE p \notin S
  BY <1>1 DEF LoopAfter, LoopInboxAfter, PendingInboxAfter, Untouched
<1>2. CASE p \in S /\ loop[p] = "Idle"
  BY <1>2 DEF LoopAfter, LoopInboxAfter, PendingInboxAfter, Receives, Wakes
<1>3. CASE p \in S /\ loop[p] # "Idle"
  BY <1>3 DEF LoopAfter, LoopInboxAfter, PendingInboxAfter, Receives
<1>4. QED BY <1>1, <1>2, <1>3

(* What a step does to one participant while a run is on. *)
LEMMA StepEffect ==
    ASSUME IInv, [Next]_vars, pc # "idle", NEW p \in Participant
    PROVE  \/ Untouched(p)
           \/ \E item \in InboxEvent : Receives(p, item)
           \/ PickParticipant(p)
           \/ Acts(p)
<1>1. CASE UNCHANGED <<loop, loopInbox, pendingInbox>>
  BY <1>1 DEF Untouched
<1>2. ASSUME NEW S, NEW item \in InboxEvent, Deliver(S, item)
      PROVE  Untouched(p) \/ Receives(p, item)
  BY <1>2, DeliveryReceived DEF IInv, Deliver
<1>3. CASE ApplyEvent
  <2> DEFINE e == Head(batch)
  <2>1. e \in EnvEvent
    BY <1>3, HeadTailProperties DEF ApplyEvent, IInv, PhaseInv, Active, TypeOK
  <2>2. CASE e.kind = "ActionRunStatus" BY <1>3, <2>2, <1>1 DEF ApplyEvent
  <2>3. CASE e.kind # "ActionRunStatus"
    <3>1. Item(e.kind, e.id) \in InboxEvent
      BY <2>1, <2>3 DEF EnvEvent, EventKinds, AnswerKinds, Item, InboxEvent, InboxKinds
    <3>2. QED BY <1>3, <2>3, <3>1, <1>2 DEF ApplyEvent
  <2>4. QED BY <2>2, <2>3
<1>4. ASSUME NEW q \in Participant, PickParticipant(q)
      PROVE  PickParticipant(p) \/ Untouched(p)
  <2>1. CASE q = p BY <1>4, <2>1
  <2>2. CASE q # p
    <3>1. /\ loop' = [loop EXCEPT ![q] = "ReadyForTurn"]
          /\ \E x : pendingInbox' = [pendingInbox EXCEPT ![q] = x]
          /\ \E x : loopInbox' = [loopInbox EXCEPT ![q] = x]
      BY <1>4 DEF PickParticipant
    <3>2. QED BY <3>1, <2>2 DEF Untouched, IInv, TypeOK
  <2>3. QED BY <2>1, <2>2
<1>5. ASSUME NEW q \in Participant, Decide(q)
      PROVE  Untouched(p) \/ (\E item \in InboxEvent : Receives(p, item)) \/ Acts(p)
  <2>1. pc = "turn" /\ current = q
    BY <1>5 DEF Decide, Notification, Message, FinalMessage, RefusedAction, ImmediateAction,
                ScheduledAction, UnscheduledAction, Yield, Finish, ParticipantFails, Turn
  <2>2. CASE q = p BY <2>1, <2>2 DEF Acts, IInv, TurnInv, NoLostWakeup
  <2>3. CASE q # p
    <3> DEFINE m == Item("Message", NoAction)
    <3>1. m \in InboxEvent BY DEF Item, InboxEvent, InboxKinds
    <3>2. CASE Message(q) BY <3>1, <3>2, <1>2 DEF Message
    <3>3. CASE FinalMessage(q)
      <4> DEFINE to == Audience(q)
      <4>1. /\ loop' = [LoopAfter(to, m) EXCEPT ![q] = "Idle"]
            /\ \E x : pendingInbox' = [PendingInboxAfter(to, m) EXCEPT ![q] = x]
            /\ loopInbox' = [LoopInboxAfter(to, m) EXCEPT ![q] = <<>>]
        BY <3>3 DEF FinalMessage
      <4> HIDE DEF to, m
      <4>2. /\ loop'[p] = LoopAfter(to, m)[p]
            /\ loopInbox'[p] = LoopInboxAfter(to, m)[p]
            /\ pendingInbox'[p] = PendingInboxAfter(to, m)[p]
        BY <4>1, <2>3 DEF LoopAfter, LoopInboxAfter, PendingInboxAfter
      <4>3. QED BY <3>1, <4>2, DeliveryReceived DEF IInv
    <3>4. CASE Yield(q) \/ Finish(q)
      BY <3>4, <2>3 DEF Yield, Finish, Untouched, IInv, TypeOK
    <3>5. ASSUME NEW handoff \in BOOLEAN, NEW blocking \in BOOLEAN,
                 ScheduledAction(q, blocking, handoff)
          PROVE  Untouched(p) \/ \E item \in InboxEvent : Receives(p, item)
      <4>1. CASE blocking
        BY <3>5, <4>1, <2>3 DEF ScheduledAction, Untouched, IInv, TypeOK
      <4>2. CASE ~blocking
        <5>1. Deliver({q}, Item("ActionScheduled", actions'))
          BY <3>5, <4>2 DEF ScheduledAction
        <5>2. QED
          BY <5>1, <2>3
          DEF Deliver, LoopAfter, LoopInboxAfter, PendingInboxAfter, Untouched, IInv, TypeOK
      <4>3. QED BY <4>1, <4>2
    <3>6. CASE UNCHANGED <<loop, loopInbox, pendingInbox>> BY <3>6 DEF Untouched
    <3>7. QED
      BY <1>5, <3>2, <3>3, <3>4, <3>5, <3>6
      DEF Decide, Handoffs, Notification, RefusedAction, ImmediateAction, UnscheduledAction,
          ParticipantFails, loopLocals, loops
  <2>4. QED BY <2>2, <2>3
<1>6. CASE ResetFails \/ CheckLimits \/ PollEnvironment \/ EnvironmentTerminates \/ NobodyToRun
           \/ EndRun \/ Abort \/ EnvStep \/ WaitExpires \/ DurationElapses \/ UNCHANGED vars
  BY <1>6, <1>1 DEF ResetFails, CheckLimits, PollEnvironment, EnvironmentTerminates, NobodyToRun,
                    EndRun, Abort, EnvStep, WaitExpires, DurationElapses, vars, loopLocals, loops
<1>7. QED
  BY <1>3, <1>4, <1>5, <1>6 DEF Next, RunStep, StartRun

(***************************************************************************)
(* A blocked loop is released by its own answer                            *)
(***************************************************************************)

(* Whatever is delivered meanwhile, a loop blocked on an action goes on     *)
(* only after the answer to that action.                                    *)
LEMMA ReleaseStep ==
    ASSUME IInv, IInv', [Next]_vars, pc # "idle", NEW p \in Participant,
           loop[p] = "WaitingForActionCompletion", loop'[p] # loop[p]
    PROVE  /\ loop'[p] = "ReadyForTurn"
           /\ loopInbox'[p] # <<>>
           /\ LET last == loopInbox'[p][Len(loopInbox'[p])]
              IN  last.kind \in AnswerKinds /\ last.id = awaiting[p]
<1>1. ~Untouched(p) /\ ~PickParticipant(p) /\ ~Acts(p)
  BY DEF Untouched, PickParticipant, IsNext, Runnable, Acts
<1>2. PICK item \in InboxEvent : Receives(p, item) BY <1>1, StepEffect
<1>3. /\ loopInbox'[p] = Append(loopInbox[p], item)
      /\ loop'[p] = "ReadyForTurn" /\ Wakes(p, item)
  BY <1>2 DEF Receives
<1>4. item.kind \in AnswerKinds /\ item.id = awaiting[p] BY <1>3 DEF Wakes
<1>5. loopInbox[p] \in Seq(InboxEvent) BY DEF IInv, TypeOK
<1>6. /\ loopInbox'[p] # <<>> /\ Len(loopInbox'[p]) = Len(loopInbox[p]) + 1
      /\ loopInbox'[p][Len(loopInbox[p]) + 1] = item
  BY <1>3, <1>5, AppendProperties
<1>7. QED BY <1>3, <1>4, <1>6

THEOREM ReleasesAreOwn == Spec => ReleasedByOwnAnswer
<1> DEFINE Released(p) ==
             (loop[p] = "WaitingForActionCompletion" /\ loop'[p] # loop[p] /\ pc # "idle") =>
                 /\ loop'[p] = "ReadyForTurn"
                 /\ loopInbox'[p] # <<>>
                 /\ LET last == loopInbox'[p][Len(loopInbox'[p])]
                    IN  last.kind \in AnswerKinds /\ last.id = awaiting[p]
<1>1. IInv /\ IInv' /\ [Next]_vars => [\A p \in Participant : Released(p)]_vars
  BY ReleaseStep
<1>2. QED BY <1>1, Inductive, PTL DEF Spec, ReleasedByOwnAnswer

(***************************************************************************)
(* Nothing that was delivered is dropped                                   *)
(***************************************************************************)

(* What is in an inbox stays a prefix of it when items are added. *)
LEMMA PrefixKept ==
    ASSUME NEW s \in Seq(InboxEvent), NEW t \in Seq(InboxEvent)
    PROVE  Len(s \o t) >= Len(s) /\ SubSeq(s \o t, 1, Len(s)) = s
<1> DEFINE w == s \o t
<1>1. /\ w \in Seq(InboxEvent) /\ Len(w) = Len(s) + Len(t)
      /\ \A i \in 1 .. Len(s) + Len(t) : w[i] = IF i <= Len(s) THEN s[i] ELSE t[i - Len(s)]
  BY ConcatProperties
<1> HIDE DEF w
<1>2. Len(s) \in Nat /\ Len(t) \in Nat BY LenProperties
<1>3. \A i \in 1 .. Len(s) : w[i] = s[i] /\ w[i] \in InboxEvent
  BY <1>1, <1>2, ElementOfSeq
<1> DEFINE u == SubSeq(w, 1, Len(s))
<1>4. /\ u \in Seq(InboxEvent)
      /\ Len(u) = IF 1 <= Len(s) THEN Len(s) - 1 + 1 ELSE 0
      /\ \A i \in 1 .. Len(s) - 1 + 1 : u[i] = w[1 + i - 1]
  <2>1. 1 \in Int /\ Len(s) \in Int BY <1>2
  <2>2. QED BY <1>3, <2>1, SubSeqProperties
<1> HIDE DEF u
<1>5. Len(u) = Len(s) BY <1>2, <1>4
<1>6. \A i \in 1 .. Len(u) : u[i] = s[i]
  <2>1. SUFFICES ASSUME NEW i \in 1 .. Len(s) PROVE u[i] = s[i] BY <1>5
  <2>2. i \in 1 .. Len(s) - 1 + 1 /\ 1 + i - 1 = i BY <1>2
  <2>3. QED BY <1>3, <1>4, <2>2
<1>7. u = s BY <1>4, <1>5, <1>6, SeqEqual
<1>8. QED BY <1>1, <1>2, <1>7 DEF u, w

(* Starting a loop takes one message out of the inbox, or nothing. *)
LEMMA WorkItemLength ==
    ASSUME NEW inbox \in Seq(InboxEvent), HasStartable(inbox)
    PROVE  WithoutWorkItem(inbox) = inbox \/ Len(WithoutWorkItem(inbox)) = Len(inbox) - 1
<1> DEFINE i == FirstStartable(inbox)
           a == SubSeq(inbox, 1, i - 1)
           b == SubSeq(inbox, i + 1, Len(inbox))
<1>1. i \in 1 .. Len(inbox) /\ Len(inbox) \in Nat
  BY FirstStartableExists, LenProperties
<1> HIDE DEF i
<1>2. a \in Seq(InboxEvent) /\ Len(a) = i - 1
  <2>1. 1 \in Int /\ i - 1 \in Int /\ \A j \in 1 .. i - 1 : inbox[j] \in InboxEvent
    BY <1>1, ElementOfSeq
  <2>2. a \in Seq(InboxEvent) /\ Len(a) = IF 1 <= i - 1 THEN (i - 1) - 1 + 1 ELSE 0
    BY <2>1, SubSeqProperties
  <2>3. QED BY <1>1, <2>2
<1>3. b \in Seq(InboxEvent) /\ Len(b) = Len(inbox) - i
  <2>1. /\ i + 1 \in Int /\ Len(inbox) \in Int
        /\ \A j \in i + 1 .. Len(inbox) : inbox[j] \in InboxEvent
    BY <1>1, ElementOfSeq
  <2>2. /\ b \in Seq(InboxEvent)
        /\ Len(b) = IF i + 1 <= Len(inbox) THEN Len(inbox) - (i + 1) + 1 ELSE 0
    BY <2>1, SubSeqProperties
  <2>3. QED BY <1>1, <2>2
<1>4. Len(a \o b) = Len(a) + Len(b) BY <1>2, <1>3, ConcatProperties
<1>5. Len(a \o b) = Len(inbox) - 1
  <2> HIDE DEF a, b
  <2>1. QED BY <1>1, <1>2, <1>3, <1>4
<1>6. QED BY <1>5 DEF WithoutWorkItem, i

(* Two inboxes of which one is empty. *)
LEMMA InboxesJoined ==
    ASSUME NEW f \in Seq(InboxEvent), NEW g \in Seq(InboxEvent)
    PROVE  /\ f \o g \in Seq(InboxEvent)
           /\ g = <<>> => f \o g = f
           /\ f = <<>> => f \o g = g
BY ConcatProperties, ConcatEmptySeq

(* One of the two inboxes of a participant is empty, before a step ... *)
LEMMA OneInbox ==
    ASSUME IInv, NEW p \in Participant
    PROVE  /\ loop[p] = "Idle" => Inboxes(p) = pendingInbox[p]
           /\ loop[p] # "Idle" => Inboxes(p) = loopInbox[p]
           /\ Inboxes(p) \in Seq(InboxEvent)
BY InboxesJoined DEF IInv, TypeOK, NoLostWakeup, Inboxes

(* ... and after it. *)
LEMMA OneInboxAfter ==
    ASSUME IInv', NEW p \in Participant
    PROVE  /\ loop'[p] = "Idle" => Inboxes(p)' = pendingInbox'[p]
           /\ loop'[p] # "Idle" => Inboxes(p)' = loopInbox'[p]
           /\ Inboxes(p)' \in Seq(InboxEvent)
BY InboxesJoined DEF IInv, TypeOK, NoLostWakeup, Inboxes

(* The items of p are kept, unless p takes them at the start of its turn. *)
LEMMA ItemStep ==
    ASSUME IInv, IInv', [Next]_vars, Active, NEW p \in Participant
    PROVE  \/ Len(Inboxes(p)') >= Len(Inboxes(p))
                /\ SubSeq(Inboxes(p)', 1, Len(Inboxes(p))) = Inboxes(p)
           \/ pc = "pick" /\ current' = p
                /\ (pc' = "turn" \/ Len(Inboxes(p)') = Len(Inboxes(p)) - 1)
<1> DEFINE old == Inboxes(p)
           new == Inboxes(p)'
<1>0. old \in Seq(InboxEvent) /\ new \in Seq(InboxEvent) BY OneInbox, OneInboxAfter
<1>1. ASSUME NEW t \in Seq(InboxEvent), new = old \o t
      PROVE  Len(new) >= Len(old) /\ SubSeq(new, 1, Len(old)) = old
  BY <1>0, <1>1, PrefixKept
<1>2. ASSUME new = old PROVE Len(new) >= Len(old) /\ SubSeq(new, 1, Len(old)) = old
  BY <1>0, <1>1, <1>2, ConcatEmptySeq, EmptySeq
<1>3. CASE Untouched(p) BY <1>2, <1>3 DEF Untouched, Inboxes
<1>4. ASSUME NEW item \in InboxEvent, Receives(p, item) PROVE new = old \o <<item>>
  <2>1. CASE loop[p] = "Idle"
    <3>1. /\ loop'[p] = "Idle" /\ pendingInbox'[p] = Append(pendingInbox[p], item)
      BY <1>4, <2>1 DEF Receives
    <3>2. new = pendingInbox'[p] /\ old = pendingInbox[p] BY <2>1, <3>1, OneInbox, OneInboxAfter
    <3>3. QED BY <1>0, <3>1, <3>2, AppendIsConcat
  <2>2. CASE loop[p] # "Idle"
    <3>1. /\ loop'[p] # "Idle" /\ loopInbox'[p] = Append(loopInbox[p], item)
      BY <1>4, <2>2 DEF Receives
    <3>2. new = loopInbox'[p] /\ old = loopInbox[p] BY <2>2, <3>1, OneInbox, OneInboxAfter
    <3>3. QED BY <1>0, <3>1, <3>2, AppendIsConcat
  <2>3. QED BY <2>1, <2>2
<1>5. CASE PickParticipant(p)
  <2>1. pc = "pick" /\ current' = p /\ loop'[p] = "ReadyForTurn"
    BY <1>5 DEF PickParticipant, IInv, TypeOK
  <2>2. CASE pc' = "turn" BY <2>1, <2>2
  <2>3. CASE pc' # "turn"
    <3>1. new = loopInbox'[p] BY <2>1, OneInboxAfter
    <3>2. CASE loop[p] = "Idle"
      <4>1. /\ loopInbox'[p] = WithoutWorkItem(pendingInbox[p])
            /\ HasStartable(pendingInbox[p])
        BY <1>5, <2>3, <3>2 DEF PickParticipant, IsNext, Runnable, IInv, TypeOK
      <4>2. old = pendingInbox[p] BY <3>2, OneInbox
      <4>3. QED BY <1>0, <1>2, <2>1, <3>1, <4>1, <4>2, WorkItemLength
    <3>3. CASE loop[p] # "Idle"
      <4>1. loopInbox'[p] = loopInbox[p]
        BY <1>5, <2>3, <3>3 DEF PickParticipant, IInv, TypeOK
      <4>2. QED BY <1>2, <3>1, <3>3, <4>1, OneInbox
    <3>4. QED BY <3>2, <3>3
  <2>4. QED BY <2>2, <2>3
<1>6. CASE Acts(p)
  <2>1. old = <<>> BY <1>6, OneInbox DEF Acts
  <2>2. new = old \o new BY <1>0, <2>1, ConcatEmptySeq
  <2>3. QED BY <1>0, <1>1, <2>2
<1>7. CASE \E item \in InboxEvent : Receives(p, item)
  <2>1. PICK item \in InboxEvent : Receives(p, item) BY <1>7
  <2>2. new = old \o <<item>> /\ <<item>> \in Seq(InboxEvent) BY <2>1, <1>4
  <2>3. QED BY <2>2, <1>1
<1>8. QED BY <1>3, <1>5, <1>6, <1>7, StepEffect DEF Active

(* Until its participant finishes, an item leaves the inboxes only by being *)
(* handed to that participant.                                              *)
THEOREM ItemsAreKept == Spec => NoItemDropped
<1> DEFINE Kept ==
      (Active /\ pc' # "idle") =>
         \A p \in roster \ finished' :
            \/ Len(Inboxes(p)') >= Len(Inboxes(p))
                 /\ SubSeq(Inboxes(p)', 1, Len(Inboxes(p))) = Inboxes(p)
            \/ pc = "pick" /\ current' = p
                 /\ (pc' = "turn" \/ Len(Inboxes(p)') = Len(Inboxes(p)) - 1)
<1>1. IInv => roster \subseteq Participant BY DEF IInv, TypeOK
<1>2. IInv /\ IInv' /\ [Next]_vars => [Kept]_vars
  BY <1>1, ItemStep
<1>3. QED BY <1>2, Inductive, PTL DEF Spec, NoItemDropped

(***************************************************************************)
(* Round robin                                                             *)
(***************************************************************************)

(* The remainder of a number below twice the divisor. *)
LEMMA SmallRemainder ==
    ASSUME NEW n \in Int, NEW x \in Int, n > 0, x >= 0, x < n + n
    PROVE  x % n = IF x < n THEN x ELSE x - n
OBVIOUS

(* The position of p in the scan that starts at i. *)
LEMMA DistanceValue ==
    ASSUME NEW i \in Participant, NEW p \in Participant
    PROVE  Distance(i, p) = IF p >= i THEN p - i ELSE p + NumParticipants - i
<1>1. /\ NumParticipants \in Int /\ i \in Int /\ p \in Int /\ NumParticipants > 0
      /\ 0 <= i /\ 0 <= p /\ i < NumParticipants /\ p < NumParticipants
  BY EnvironmentAssumption DEF Participant
<1> DEFINE x == p + NumParticipants - i
<1>2. x \in Int /\ x >= 0 /\ x < NumParticipants + NumParticipants BY <1>1
<1>3. x % NumParticipants = IF x < NumParticipants THEN x ELSE x - NumParticipants
  <2> HIDE DEF x
  <2>1. QED BY <1>1, <1>2, SmallRemainder
<1>4. QED BY <1>1, <1>3 DEF Distance

(* After a turn of q the scan starts behind q: everybody further on in the  *)
(* scan than q has come closer.                                             *)
LEMMA ScanAdvances ==
    ASSUME NEW i \in Participant, NEW q \in Participant, NEW p \in Participant, q # p,
           Distance(i, q) <= Distance(i, p)
    PROVE  Distance((q + 1) % NumParticipants, p) < Distance(i, p)
<1> DEFINE n == NumParticipants
           k == (q + 1) % n
<1>1. n \in Nat \ {0} /\ i \in 0 .. n - 1 /\ p \in 0 .. n - 1 /\ q \in 0 .. n - 1
  BY EnvironmentAssumption DEF Participant
<1>2. k = IF q + 1 < n THEN q + 1 ELSE 0
  <2>1. n \in Int /\ n > 0 /\ q + 1 \in Int /\ q + 1 >= 0 /\ q + 1 < n + n /\ q + 1 <= n
    BY <1>1
  <2> HIDE DEF n
  <2>2. k = IF q + 1 < n THEN q + 1 ELSE (q + 1) - n
    <3> DEFINE x == q + 1
    <3>1. x \in Int /\ x >= 0 /\ x < n + n BY <2>1
    <3> HIDE DEF x
    <3>2. x % n = IF x < n THEN x ELSE x - n BY <2>1, <3>1, SmallRemainder
    <3>3. QED BY <3>2 DEF x
  <2>3. QED BY <2>1, <2>2
<1>3. k \in Participant BY <1>1, <1>2 DEF Participant
<1>4. /\ Distance(i, q) = IF q >= i THEN q - i ELSE q + n - i
      /\ Distance(i, p) = IF p >= i THEN p - i ELSE p + n - i
      /\ Distance(k, p) = IF p >= k THEN p - k ELSE p + n - k
  BY <1>3, DistanceValue
<1> HIDE DEF n, k
<1>5. Distance(k, p) < Distance(i, p) BY <1>1, <1>2, <1>4
<1>6. QED BY <1>5 DEF k, n

(* What is startable in an inbox stays startable when an item is added. *)
LEMMA StartableKept ==
    ASSUME NEW inbox \in Seq(InboxEvent), NEW item \in InboxEvent, HasStartable(inbox)
    PROVE  HasStartable(Append(inbox, item))
<1>1. PICK i \in 1 .. Len(inbox) : Startable(inbox[i]) BY DEF HasStartable
<1>2. /\ Len(Append(inbox, item)) = Len(inbox) + 1 /\ Len(inbox) \in Nat
      /\ Append(inbox, item)[i] = inbox[i]
  BY AppendProperties, LenProperties
<1>3. i \in 1 .. Len(Append(inbox, item)) BY <1>2
<1>4. QED BY <1>1, <1>2, <1>3 DEF HasStartable

(* A participant stays in the run until the run is over, and unfinished     *)
(* until it has a turn.                                                     *)
LEMMA StaysLive ==
    ASSUME IInv, [Next]_vars, Active, pc' # "idle"
    PROVE  /\ roster' = roster
           /\ (finished' = finished \/ (pc = "turn" /\ finished' = finished \cup {current}))
<1>1. CASE EnvStep \/ WaitExpires \/ DurationElapses \/ UNCHANGED vars
  BY <1>1 DEF EnvStep, WaitExpires, DurationElapses, vars, control, loops
<1>2. CASE CheckLimits \/ PollEnvironment \/ EnvironmentTerminates \/ NobodyToRun
  BY <1>2 DEF CheckLimits, PollEnvironment, EnvironmentTerminates, NobodyToRun, Stop, Continue,
              loopLocals, loops
<1>3. CASE ApplyEvent BY <1>3 DEF ApplyEvent, Stop
<1>4. ASSUME NEW p \in Participant, PickParticipant(p)
      PROVE  roster' = roster /\ finished' = finished
  BY <1>4 DEF PickParticipant, Stop
<1>5. ASSUME NEW p \in Participant, Decide(p)
      PROVE  /\ roster' = roster
             /\ (finished' = finished \/ (pc = "turn" /\ finished' = finished \cup {current}))
  BY <1>5 DEF Decide, Notification, Message, FinalMessage, RefusedAction, ImmediateAction,
              ScheduledAction, UnscheduledAction, Yield, Finish, ParticipantFails, Turn,
              MessageVerdict, Stop, Continue, loopLocals, loops
<1>6. QED
  BY <1>1, <1>2, <1>3, <1>4, <1>5
  DEF Next, RunStep, StartRun, ResetFails, EndRun, Abort, Active

(* A participant that can run can still run after the step, unless the step *)
(* was its own decision.                                                    *)
LEMMA StaysRunnable ==
    ASSUME IInv, [Next]_vars, Active, pc' # "idle", NEW p \in Participant, Runnable(p)
    PROVE  Runnable(p)' \/ (pc = "turn" /\ current = p)
<1>1. SUFFICES ASSUME ~(pc = "turn" /\ current = p) PROVE Runnable(p)'
  OBVIOUS
<1>2. p \in roster' \ finished' BY <1>1, StaysLive DEF Runnable
<1>3. CASE Untouched(p) BY <1>2, <1>3 DEF Untouched, Runnable
<1>4. ASSUME NEW item \in InboxEvent, Receives(p, item) PROVE Runnable(p)'
  <2>1. CASE loop[p] = "Idle"
    <3>1. loop'[p] = "Idle" /\ pendingInbox'[p] = Append(pendingInbox[p], item)
      BY <1>4, <2>1 DEF Receives
    <3>2. HasStartable(pendingInbox[p]) BY <2>1 DEF Runnable
    <3>3. HasStartable(pendingInbox'[p]) BY <3>1, <3>2, StartableKept DEF IInv, TypeOK
    <3>4. QED BY <1>2, <3>1, <3>3 DEF Runnable
  <2>2. CASE loop[p] = "ReadyForTurn"
    <3>1. loop'[p] = "ReadyForTurn" BY <1>4, <2>2 DEF Receives
    <3>2. QED BY <1>2, <3>1 DEF Runnable
  <2>3. QED BY <2>1, <2>2 DEF Runnable
<1>5. CASE PickParticipant(p)
  <2>1. loop'[p] = "ReadyForTurn" BY <1>5 DEF PickParticipant, IInv, TypeOK
  <2>2. QED BY <1>2, <2>1 DEF Runnable
<1>6. QED BY <1>1, <1>3, <1>4, <1>5, StepEffect DEF Acts, Active

(* Only the choice of a participant leaves "pick" for a turn or, while      *)
(* somebody can run, for the end of the run.                                *)
LEMMA PickStep ==
    ASSUME IInv, [Next]_vars, pc = "pick", pc' \in {"turn", "ended"}, ~NobodyRunnable
    PROVE  \E q \in Participant : PickParticipant(q)
<1>1. /\ ~StartRun /\ ~ResetFails /\ ~CheckLimits /\ ~PollEnvironment /\ ~EnvironmentTerminates
      /\ ~ApplyEvent /\ ~NobodyToRun /\ ~EndRun /\ ~Abort
  BY DEF StartRun, ResetFails, CheckLimits, PollEnvironment, EnvironmentTerminates, ApplyEvent,
         NobodyToRun, EndRun, Abort
<1>2. \A q \in Participant : ~Decide(q)
  BY DEF Decide, Notification, Message, FinalMessage, RefusedAction, ImmediateAction,
         ScheduledAction, UnscheduledAction, Yield, Finish, ParticipantFails, Turn
<1>3. ~EnvStep /\ ~WaitExpires /\ ~DurationElapses /\ ~UNCHANGED vars
  BY DEF EnvStep, WaitExpires, DurationElapses, vars, control
<1>4. QED BY <1>1, <1>2, <1>3 DEF Next, RunStep

(* A participant that can run is passed over only by one that comes before  *)
(* it in the scan, and every turn of another brings it closer.              *)
THEOREM TurnsGoRound == Spec => RoundRobin
<1> DEFINE Fair(p) ==
      (Active /\ pc' # "idle" /\ Runnable(p)) =>
        /\ Runnable(p)' \/ (pc = "turn" /\ current = p)
        /\ (pc = "pick" /\ pc' \in {"turn", "ended"} /\ ~NobodyRunnable /\ current' # p) =>
             Distance(nextIndex', p) < Distance(nextIndex, p)
<1>1. ASSUME IInv, [Next]_vars, NEW p \in Participant PROVE Fair(p)
  <2>1. SUFFICES ASSUME Active, pc' # "idle", Runnable(p), pc = "pick",
                        pc' \in {"turn", "ended"}, ~NobodyRunnable, current' # p
                 PROVE  Distance(nextIndex', p) < Distance(nextIndex, p)
    BY <1>1, StaysRunnable
  <2>2. PICK q \in Participant : PickParticipant(q) BY <1>1, <2>1, PickStep
  <2>3. /\ current' = q /\ nextIndex' = (q + 1) % NumParticipants
        /\ Distance(nextIndex, q) <= Distance(nextIndex, p)
    BY <2>1, <2>2 DEF PickParticipant, IsNext
  <2>4. nextIndex \in Participant BY <1>1 DEF IInv, TypeOK
  <2>5. QED BY <2>1, <2>3, <2>4, ScanAdvances
<1>2. IInv /\ [Next]_vars => [\A p \in Participant : Fair(p)]_vars
  BY <1>1
<1>3. QED BY <1>2, Inductive, PTL DEF Spec, RoundRobin
=============================================================================
