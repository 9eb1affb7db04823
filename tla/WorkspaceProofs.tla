--------------------------- MODULE WorkspaceProofs ---------------------------
(***************************************************************************)
(* Proofs about the agent's workspace on the execution engine, for any     *)
(* number of participants and runs, any capacity of the broadcast channel, *)
(* and any number of external calls, restarts, resets and failing writes.  *)
(*                                                                         *)
(* Every step of the composition is a step of the engine or leaves the     *)
(* engine alone, so what was proved of the engine holds of it here too;    *)
(* what the workspace adds is what its registers say of the engine.        *)
(***************************************************************************)
EXTENDS AgentWorkspace, EngineProofs

(***************************************************************************)
(* The inductive invariant                                                 *)
(***************************************************************************)

(* Everything that was heard was published, in this task or before. *)
Published(events, published) ==
    \A i \in 1 .. Len(events) : \E j \in 1 .. Len(published[events[i].run]) :
        published[events[i].run][j].kind = events[i].kind

(* Whose submission is still to be reported is registered; a registered    *)
(* run had its submitter answered, so that the one being submitted is not  *)
(* registered yet; an actor continues from a run it was told of, which was *)
(* announced as completed.                                                 *)
RegistersFit ==
    /\ \A k \in 1 .. Len(queued) : pending[queued[k]] # Nobody
    /\ \A r \in Runs : pending[r] # Nobody => reply[r] # "None"
    /\ call.op = "Schedule" => pending[call.run] = Nobody

StatesFit ==
    \A p \in Participant : repl[p] # NoRun =>
        /\ \E i \in 1 .. Len(told[p]) : told[p][i] = repl[p]
        /\ Notified(repl[p], {"RunCompleted"})

WorkspaceInv ==
    /\ WorkspaceTypeOK /\ RegistersFit /\ StatesFit
    /\ Published(channel, feed) /\ Published(drained, feed)

(***************************************************************************)
(* The engine underneath                                                   *)
(***************************************************************************)
LEMMA EngineMoves == WorkspaceNext => [Next]_vars
BY DEF WorkspaceNext, EngineGoesOn, Next, Schedule, ScheduleReturns, Poll, PollStarts,
       ReportQueued, Translate, PollReturns, Reset, WorkspaceRestarts

(* The workspace runs on the engine as it is specified. *)
THEOREM WorkspaceRunsEngine == WorkspaceSpec => Spec
<1>1. WorkspaceInit => Init BY DEF WorkspaceInit
<1>2. [WorkspaceNext]_allVars => [Next]_vars BY EngineMoves DEF allVars
<1>3. QED BY <1>1, <1>2, PTL DEF WorkspaceSpec, Spec

(* Nothing but a write tells subscribers and submitters anything ... *)
LEMMA RestKeepsLog ==
    ASSUME TypeOK, [Next]_vars, ~Write PROVE UNCHANGED <<feed, reply>>
<1>1. ASSUME NEW r \in Runs, Submit(r) PROVE UNCHANGED <<feed, reply>>
  BY <1>1 DEF Submit, durable
<1>2. CASE HandleSubmit BY <1>2 DEF HandleSubmit, Begin
<1>3. CASE HandleUpdate
  <2> DEFINE u == Head(updates)
  <2>1. u.kind \in {"Claimed", "Completed", "Failed"}
    BY <1>3, UpdateBegins DEF Updates
  <2>2. CASE u.kind = "Claimed" BY <1>3, <2>2 DEF HandleUpdate, Begin
  <2>3. CASE u.kind = "Failed" BY <1>3, <2>3 DEF HandleUpdate, Begin
  <2>4. CASE u.kind = "Completed" BY <1>3, <2>4 DEF HandleUpdate, Begin
  <2>5. QED BY <2>1, <2>2, <2>3, <2>4
<1>4. CASE Recover BY <1>4 DEF Recover, Recovered, RecoverRun, durable
<1>5. CASE WriteFails BY <1>5 DEF WriteFails, durable
<1>6. CASE Claim \/ Execute BY <1>6 DEF Claim, Execute, durable
<1>7. CASE Restart BY <1>7 DEF Restart, durable
<1>8. CASE UNCHANGED vars BY <1>8 DEF vars, durable
<1>9. QED
  BY <1>1, <1>2, <1>3, <1>4, <1>5, <1>6, <1>7, <1>8 DEF Next, EngineStep

(* ... and what a write publishes joins what subscribers were told. *)
LEMMA PublishedEvent ==
    ASSUME TypeOK, [Next]_vars, feed' # feed
    PROVE  \E r \in Runs, e \in Events :
              /\ Head(todo).run = r /\ Head(todo).event = e
              /\ feed' = [feed EXCEPT ![r] = Append(@, e)]
<1>1. Write BY RestKeepsLog
<1>2. todo[1] \in Writes /\ Perform(todo[1]) /\ Head(todo) = todo[1]
  BY <1>1, WriteEffect
<1>3. QED BY <1>2, WriteFields DEF Perform

(* What subscribers were told only grows. *)
LEMMA FeedGrows ==
    ASSUME TypeOK, [Next]_vars
    PROVE  \A r \in Runs : \A i \in 1 .. Len(feed[r]) :
              i \in 1 .. Len(feed'[r]) /\ feed'[r][i] = feed[r][i]
<1>1. CASE UNCHANGED feed BY <1>1
<1>2. CASE Write /\ feed' # feed
  <2>1. PICK r \in Runs, e \in Events : feed' = [feed EXCEPT ![r] = Append(@, e)]
    BY <1>2, PublishedEvent
  <2>2. feed[r] \in Seq(Events) /\ feed'[r] = Append(feed[r], e)
        /\ \A q \in Runs : q # r => feed'[q] = feed[q]
    BY <2>1 DEF TypeOK
  <2>3. /\ Len(feed'[r]) = Len(feed[r]) + 1 /\ Len(feed[r]) \in Nat
        /\ \A i \in 1 .. Len(feed[r]) : feed'[r][i] = feed[r][i]
    BY <2>2, AppendProperties, LenProperties
  <2>4. QED BY <2>2, <2>3
<1>3. QED BY <1>1, <1>2, RestKeepsLog

(* A submitter that was answered stays answered. *)
LEMMA AnswersStay ==
    ASSUME TypeOK, [Next]_vars
    PROVE  \A r \in Runs : reply[r] # "None" => reply'[r] # "None"
<1>1. CASE ~Write BY <1>1, RestKeepsLog
<1>2. CASE Write
  <2>1. todo[1] \in Writes /\ Perform(todo[1]) BY <1>2, WriteEffect
  <2>2. reply \in [Runs -> {"None", "Ok", "Err"}] BY DEF TypeOK
  <2>3. QED BY <2>1, <2>2, WriteFields DEF Perform
<1>3. QED BY <1>1, <1>2

(* What was published stays published. *)
LEMMA PublishedStays ==
    ASSUME TypeOK, [Next]_vars, NEW s \in Seq(BusEvents), Published(s, feed)
    PROVE  Published(s, feed')
<1>1. \A i \in 1 .. Len(s) : s[i].run \in Runs
  <2>1. \A i \in 1 .. Len(s) : s[i] \in BusEvents BY ElementOfSeq
  <2>2. QED BY <2>1 DEF BusEvents
<1>2. QED BY <1>1, FeedGrows DEF Published

LEMMA StatesStay ==
    ASSUME TypeOK, [Next]_vars, WorkspaceTypeOK, StatesFit, UNCHANGED <<repl, told>>
    PROVE  StatesFit'
<1>1. \A p \in Participant : repl[p] # NoRun => repl[p] \in Runs BY DEF WorkspaceTypeOK
<1>2. \A r \in Runs : Notified(r, {"RunCompleted"}) => Notified(r, {"RunCompleted"})'
  BY FeedGrows DEF Notified
<1>3. \A p \in Participant : repl[p] # NoRun => Notified(repl[p], {"RunCompleted"})'
  BY <1>1, <1>2 DEF StatesFit
<1>4. QED BY <1>3 DEF StatesFit, Notified

(***************************************************************************)
(* The invariant is kept                                                   *)
(***************************************************************************)
LEMMA CallFields ==
    ASSUME WorkspaceTypeOK
    PROVE  /\ call.op \in {"Free", "Poll", "Broken", "Schedule"}
           /\ call.op = "Schedule" => call.actor \in Participant /\ call.run \in Runs
           /\ call = Free => call.op = "Free"
           /\ call = Polling => call.op = "Poll"
           /\ call = Broken => call.op = "Broken"
BY DEF WorkspaceTypeOK, Free, Polling, Broken, Scheduling

(* The channel with room for one more event. *)
LEMMA ChannelShifts ==
    ASSUME WorkspaceTypeOK, Published(channel, feed), NEW x \in BusEvents,
           channel' = Append(IF Len(channel) < ChannelSize THEN channel ELSE Tail(channel), x)
    PROVE  /\ channel' \in Seq(BusEvents) /\ Len(channel') <= ChannelSize
           /\ \A i \in 1 .. Len(channel') :
                 channel'[i] = x \/ \E j \in 1 .. Len(channel) : channel'[i] = channel[j]
<1> DEFINE base == IF Len(channel) < ChannelSize THEN channel ELSE Tail(channel)
<1>1. channel \in Seq(BusEvents) /\ Len(channel) \in Nat /\ Len(channel) <= ChannelSize
      /\ ChannelSize \in Nat \ {0}
  BY WorkspaceAssumption, LenProperties DEF WorkspaceTypeOK, WorkspaceAssumption
<1>2. /\ base \in Seq(BusEvents) /\ Len(base) \in Nat /\ Len(base) < ChannelSize
      /\ \A i \in 1 .. Len(base) : \E j \in 1 .. Len(channel) : base[i] = channel[j]
  <2>1. CASE Len(channel) < ChannelSize BY <1>1, <2>1
  <2>2. CASE ~(Len(channel) < ChannelSize)
    <3>1. channel # <<>> BY <1>1, <2>2, EmptySeq
    <3>2. /\ Tail(channel) \in Seq(BusEvents) /\ Len(Tail(channel)) = Len(channel) - 1
          /\ \A i \in 1 .. Len(Tail(channel)) : Tail(channel)[i] = channel[i + 1]
      BY <1>1, <3>1, HeadTailProperties
    <3>3. \A i \in 1 .. Len(Tail(channel)) : i + 1 \in 1 .. Len(channel) BY <1>1, <3>2
    <3>4. Len(Tail(channel)) \in Nat /\ Len(Tail(channel)) < ChannelSize BY <1>1, <2>2, <3>2
    <3>5. base = Tail(channel) BY <2>2
    <3>6. QED BY <3>2, <3>3, <3>4, <3>5
  <2>3. QED BY <2>1, <2>2
<1> HIDE DEF base
<1>3. channel' = Append(base, x) BY DEF base
<1>4. /\ channel' \in Seq(BusEvents) /\ Len(channel') = Len(base) + 1
      /\ \A i \in 1 .. Len(channel') : channel'[i] = IF i = Len(base) + 1 THEN x ELSE base[i]
  <2>1. /\ Append(base, x) \in Seq(BusEvents) /\ Len(Append(base, x)) = Len(base) + 1
        /\ Append(base, x)[Len(base) + 1] = x
        /\ \A i \in 1 .. Len(base) : Append(base, x)[i] = base[i]
    BY <1>2, AppendProperties
  <2>2. \A i \in 1 .. Len(base) + 1 : i # Len(base) + 1 => i \in 1 .. Len(base) BY <1>2
  <2>3. QED BY <1>3, <2>1, <2>2
<1>5. Len(channel') <= ChannelSize BY <1>1, <1>2, <1>4
<1>6. ASSUME NEW i \in 1 .. Len(channel'), channel'[i] # x
      PROVE  \E j \in 1 .. Len(channel) : channel'[i] = channel[j]
  <2>1. i \in 1 .. Len(base) /\ channel'[i] = base[i] BY <1>2, <1>4, <1>6
  <2>2. QED BY <1>2, <2>1
<1>7. QED BY <1>4, <1>5, <1>6

LEMMA HeardIsKept ==
    ASSUME TypeOK, WorkspaceInv, [Next]_vars, Heard PROVE WorkspaceInv'
<1>1. UNCHANGED <<call, queued, pending, drained, batch, repl, told, resets>> BY DEF Heard
<1>2. StatesFit' BY <1>1, StatesStay DEF WorkspaceInv
<1>3. RegistersFit' BY <1>1, AnswersStay DEF WorkspaceInv, RegistersFit
<1>4. Published(drained, feed)'
  BY <1>1, PublishedStays DEF WorkspaceInv, WorkspaceTypeOK
<1>5. channel \in Seq(BusEvents) /\ Published(channel, feed')
  BY PublishedStays DEF WorkspaceInv, WorkspaceTypeOK
<1>6. CASE UNCHANGED <<channel, lagged>>
  BY <1>1, <1>2, <1>3, <1>4, <1>5, <1>6 DEF WorkspaceInv, WorkspaceTypeOK
<1>7. CASE feed' # feed
  <2>1. PICK r \in Runs, e \in Events :
          /\ Head(todo).run = r /\ Head(todo).event = e
          /\ feed' = [feed EXCEPT ![r] = Append(@, e)]
    BY <1>7, PublishedEvent
  <2> DEFINE x == [run |-> r, kind |-> e.kind]
  <2>2. Broadcast(r, e.kind) BY <1>7, <2>1 DEF Heard
  <2>3. x \in BusEvents BY DEF BusEvents, EventKind, Events, TerminalEvents
  <2>4. /\ channel' \in Seq(BusEvents) /\ Len(channel') <= ChannelSize
        /\ \A i \in 1 .. Len(channel') :
              channel'[i] = x \/ \E j \in 1 .. Len(channel) : channel'[i] = channel[j]
    BY <2>2, <2>3, ChannelShifts DEF Broadcast, WorkspaceInv
  <2>5. \E j \in 1 .. Len(feed'[r]) : feed'[r][j].kind = e.kind
    <3>1. feed[r] \in Seq(Events) /\ feed'[r] = Append(feed[r], e) BY <2>1 DEF TypeOK
    <3>2. Len(feed'[r]) \in 1 .. Len(feed'[r]) /\ feed'[r][Len(feed'[r])] = e
      BY <3>1, AppendProperties, LenProperties
    <3>3. QED BY <3>2
  <2>6. Published(channel', feed')
    <3>1. ASSUME NEW i \in 1 .. Len(channel')
          PROVE  \E j \in 1 .. Len(feed'[channel'[i].run]) :
                    feed'[channel'[i].run][j].kind = channel'[i].kind
      <4>1. CASE channel'[i] = x BY <2>5, <4>1
      <4>2. CASE channel'[i] # x
        <5>1. PICK j \in 1 .. Len(channel) : channel'[i] = channel[j] BY <2>4, <4>2
        <5>2. QED BY <1>5, <5>1 DEF Published
      <4>3. QED BY <4>1, <4>2
    <3>2. QED BY <3>1 DEF Published
  <2>7. lagged' \in BOOLEAN BY <2>2 DEF Broadcast, WorkspaceInv, WorkspaceTypeOK
  <2>8. WorkspaceTypeOK' BY <1>1, <2>4, <2>7 DEF WorkspaceInv, WorkspaceTypeOK
  <2>9. QED BY <1>2, <1>3, <1>4, <2>6, <2>8 DEF WorkspaceInv
<1>8. QED BY <1>6, <1>7 DEF Heard

LEMMA ScheduleIsKept ==
    ASSUME TypeOK, WorkspaceInv, NEW p \in Participant, NEW r \in Runs, Schedule(p, r)
    PROVE  WorkspaceInv'
<1>1. /\ call = Free /\ Submit(r) /\ call' = Scheduling(p, r)
      /\ UNCHANGED <<channel, lagged, queued, pending, drained, batch, repl, told, resets>>
  BY DEF Schedule
<1>2. reply[r] = "None" /\ UNCHANGED <<feed, reply>> BY <1>1 DEF Submit, durable
<1>3. pending[r] = Nobody BY <1>2 DEF WorkspaceInv, RegistersFit
<1>4. call # Polling BY <1>1 DEF Free, Polling
<1>5. WorkspaceTypeOK' BY <1>1, <1>4 DEF WorkspaceInv, WorkspaceTypeOK
<1>6. RegistersFit' BY <1>1, <1>2, <1>3 DEF WorkspaceInv, RegistersFit, Scheduling
<1>7. StatesFit' BY <1>1, <1>2 DEF WorkspaceInv, StatesFit, Notified
<1>8. QED BY <1>1, <1>2, <1>5, <1>6, <1>7 DEF WorkspaceInv

LEMMA ScheduleReturnIsKept ==
    ASSUME TypeOK, WorkspaceInv, ScheduleReturns PROVE WorkspaceInv'
<1> DEFINE r == call.run
           p == call.actor
<1>1. /\ call.op = "Schedule" /\ reply[r] # "None" /\ call' = Free
      /\ UNCHANGED <<channel, lagged, drained, batch, repl, told, resets, feed, reply>>
  BY DEF ScheduleReturns, vars, durable
<1>2. p \in Participant /\ r \in Runs /\ pending[r] = Nobody
  BY <1>1, CallFields DEF WorkspaceInv, RegistersFit
<1>3. p # Nobody BY <1>2, WorkspaceAssumption DEF WorkspaceAssumption, Participant, Nobody
<1>4. call # Polling BY <1>1, CallFields DEF WorkspaceInv
<1>5. queued \in Seq(Runs) /\ pending \in [Runs -> Participant \cup {Nobody}]
  BY DEF WorkspaceInv, WorkspaceTypeOK
<1>6. /\ pending' \in [Runs -> Participant \cup {Nobody}] /\ queued' \in Seq(Runs)
      /\ \A k \in 1 .. Len(queued') : pending'[queued'[k]] # Nobody
      /\ \A q \in Runs : pending'[q] # Nobody => reply[q] # "None"
  <2>1. CASE reply[r] = "Ok"
    <3>1. pending' = [pending EXCEPT ![r] = p] /\ queued' = Append(queued, r)
      BY <2>1 DEF ScheduleReturns
    <3>2. /\ queued' \in Seq(Runs) /\ Len(queued') = Len(queued) + 1 /\ Len(queued) \in Nat
          /\ queued'[Len(queued) + 1] = r
          /\ \A k \in 1 .. Len(queued) : queued'[k] = queued[k]
      BY <1>2, <1>5, <3>1, AppendProperties, LenProperties
    <3>3. \A k \in 1 .. Len(queued) : queued[k] \in Runs BY <1>5, ElementOfSeq
    <3>4. \A k \in 1 .. Len(queued') : k \in 1 .. Len(queued) \/ k = Len(queued) + 1
      BY <3>2
    <3>5. \A k \in 1 .. Len(queued') : pending'[queued'[k]] # Nobody
      BY <1>2, <1>3, <1>5, <3>1, <3>2, <3>3, <3>4 DEF WorkspaceInv, RegistersFit
    <3>6. QED BY <1>1, <1>2, <1>5, <3>1, <3>2, <3>5 DEF WorkspaceInv, RegistersFit
  <2>2. CASE reply[r] # "Ok"
    BY <1>5, <2>2 DEF ScheduleReturns, WorkspaceInv, RegistersFit
  <2>3. QED BY <2>1, <2>2
<1>7. WorkspaceTypeOK' BY <1>1, <1>4, <1>6 DEF WorkspaceInv, WorkspaceTypeOK
<1>8. RegistersFit' BY <1>1, <1>6 DEF RegistersFit, Free
<1>9. StatesFit' BY <1>1 DEF WorkspaceInv, StatesFit, Notified
<1>10. QED BY <1>1, <1>7, <1>8, <1>9 DEF WorkspaceInv

LEMMA PollStartIsKept ==
    ASSUME TypeOK, WorkspaceInv, PollStarts PROVE WorkspaceInv'
<1>1. /\ call = Free /\ lagged' = FALSE
      /\ UNCHANGED <<pending, batch, repl, told, resets, feed, reply>>
  BY DEF PollStarts, vars, durable
<1>2. drained = <<>> /\ batch = <<>> /\ call.op = "Free"
  BY <1>1 DEF WorkspaceInv, WorkspaceTypeOK, Free, Polling
<1>3. /\ Len(<<>>) = 0 /\ <<>> \in Seq(Runs) /\ <<>> \in Seq(BusEvents)
      /\ ChannelSize \in Nat \ {0}
  BY EmptySeq, WorkspaceAssumption DEF WorkspaceAssumption
<1>4. StatesFit' BY <1>1 DEF WorkspaceInv, StatesFit, Notified
<1>5. CASE lagged
  <2>1. call' = Broken /\ queued' = <<>> /\ UNCHANGED <<channel, drained>>
    BY <1>5 DEF PollStarts
  <2>2. WorkspaceTypeOK'
    <3>1. /\ pending \in [Runs -> Participant \cup {Nobody}]
          /\ repl \in [Participant -> Runs \cup {NoRun}]
          /\ told \in [Participant -> Seq(Runs)] /\ resets \in 0 .. MaxResets
      BY DEF WorkspaceInv, WorkspaceTypeOK
    <3>2. /\ channel' \in Seq(BusEvents) /\ Len(channel') <= ChannelSize
          /\ queued' \in Seq(Runs) /\ drained' \in Seq(BusEvents)
      BY <1>2, <1>3, <2>1 DEF WorkspaceInv, WorkspaceTypeOK
    <3>3. batch' = <<>> /\ lagged' \in BOOLEAN BY <1>1, <1>2
    <3>4. drained' # <<>> => call' = Polling BY <1>2, <2>1
    <3>5. call' \in {Free, Polling, Broken} BY <2>1
    <3>6. QED BY <1>1, <3>1, <3>2, <3>3, <3>4, <3>5, EmptySeq DEF WorkspaceTypeOK
  <2>3. RegistersFit' BY <1>1, <1>3, <2>1 DEF WorkspaceInv, RegistersFit, Broken
  <2>4. QED BY <1>1, <1>4, <2>1, <2>2, <2>3 DEF WorkspaceInv
<1>6. CASE ~lagged
  <2>1. call' = Polling /\ drained' = channel /\ channel' = <<>> /\ UNCHANGED queued
    BY <1>6 DEF PollStarts
  <2>2. WorkspaceTypeOK'
    <3>1. /\ pending \in [Runs -> Participant \cup {Nobody}]
          /\ repl \in [Participant -> Runs \cup {NoRun}]
          /\ told \in [Participant -> Seq(Runs)] /\ resets \in 0 .. MaxResets
      BY DEF WorkspaceInv, WorkspaceTypeOK
    <3>2. /\ channel' \in Seq(BusEvents) /\ Len(channel') <= ChannelSize
          /\ queued' \in Seq(Runs) /\ drained' \in Seq(BusEvents)
      BY <1>2, <1>3, <2>1 DEF WorkspaceInv, WorkspaceTypeOK
    <3>3. batch' = <<>> /\ lagged' \in BOOLEAN BY <1>1, <1>2
    <3>4. drained' # <<>> => call' = Polling BY <1>2, <2>1
    <3>5. call' \in {Free, Polling, Broken} BY <2>1
    <3>6. QED BY <1>1, <3>1, <3>2, <3>3, <3>4, <3>5, EmptySeq DEF WorkspaceTypeOK
  <2>3. RegistersFit' BY <1>1, <2>1 DEF WorkspaceInv, RegistersFit, Polling
  <2>4. Published(<<>>, feed) BY <1>3 DEF Published
  <2>5. QED BY <1>1, <1>4, <2>1, <2>2, <2>3, <2>4 DEF WorkspaceInv
<1>7. QED BY <1>5, <1>6

Notices == [kind : {"ActionRunStatus", "ActionCompleted", "ActionFailed"},
            participant : Participant, id : Runs]

LEMMA BatchGrows ==
    ASSUME WorkspaceInv, NEW kind \in {"ActionRunStatus", "ActionCompleted", "ActionFailed"},
           NEW p \in Participant, NEW r \in Runs, batch' = Append(batch, Notice(kind, p, r))
    PROVE  batch' \in Seq(Notices)
<1>1. Notice(kind, p, r) \in Notices BY DEF Notice, Notices
<1>2. batch \in Seq(Notices) BY DEF WorkspaceInv, WorkspaceTypeOK, Notices
<1>3. QED BY <1>1, <1>2, AppendProperties

(* The run reported next has an actor. *)
LEMMA ReportEffect ==
    ASSUME WorkspaceInv, ReportQueued
    PROVE  /\ Head(queued) \in Runs /\ pending[Head(queued)] \in Participant
           /\ queued' \in Seq(Runs) /\ Len(queued') = Len(queued) - 1
           /\ Len(queued) \in Nat \ {0}
           /\ \A k \in 1 .. Len(queued') : queued'[k] = queued[k + 1]
           /\ batch' \in Seq(Notices)
<1>1. queued # <<>> /\ queued \in Seq(Runs) /\ queued' = Tail(queued)
  BY DEF ReportQueued, WorkspaceInv, WorkspaceTypeOK
<1>2. /\ Head(queued) \in Runs /\ Head(queued) = queued[1] /\ Len(queued) \in Nat \ {0}
      /\ Tail(queued) \in Seq(Runs) /\ Len(Tail(queued)) = Len(queued) - 1
      /\ \A k \in 1 .. Len(Tail(queued)) : Tail(queued)[k] = queued[k + 1]
  BY <1>1, HeadTailProperties, EmptySeq
<1>3. pending[Head(queued)] # Nobody BY <1>2 DEF WorkspaceInv, RegistersFit
<1>4. pending[Head(queued)] \in Participant
  BY <1>2, <1>3 DEF WorkspaceInv, WorkspaceTypeOK
<1>5. batch' \in Seq(Notices) BY <1>2, <1>4, BatchGrows DEF ReportQueued
<1>6. QED BY <1>1, <1>2, <1>4, <1>5

LEMMA ReportIsKept ==
    ASSUME TypeOK, WorkspaceInv, ReportQueued PROVE WorkspaceInv'
<1>1. /\ call = Polling
      /\ UNCHANGED <<channel, lagged, call, pending, drained, repl, told, resets, feed, reply>>
  BY DEF ReportQueued, vars, durable
<1>2. /\ queued' \in Seq(Runs) /\ Len(queued') = Len(queued) - 1 /\ Len(queued) \in Nat \ {0}
      /\ \A k \in 1 .. Len(queued') : queued'[k] = queued[k + 1]
      /\ batch' \in Seq(Notices)
  BY ReportEffect
<1>3. WorkspaceTypeOK' BY <1>1, <1>2 DEF WorkspaceInv, WorkspaceTypeOK, Notices
<1>4. RegistersFit'
  <2>1. \A k \in 1 .. Len(queued') : k + 1 \in 1 .. Len(queued) BY <1>2
  <2>2. QED BY <1>1, <1>2, <2>1 DEF WorkspaceInv, RegistersFit
<1>5. StatesFit' BY <1>1 DEF WorkspaceInv, StatesFit, Notified
<1>6. QED BY <1>1, <1>3, <1>4, <1>5 DEF WorkspaceInv

(* What poll_events makes of the next event it received: nothing, the       *)
(* answer to the actor that waits for the run, or a status.                 *)
Answers(kind, r, p) ==
    /\ pending' = [pending EXCEPT ![r] = Nobody]
    /\ batch' = Append(batch, Notice(kind, p, r))

TranslatesTo(r, p) ==
    \/ /\ p = Nobody
       /\ UNCHANGED <<batch, pending, repl, told>>
    \/ /\ p \in Participant /\ Answers("ActionCompleted", r, p)
       /\ repl' = repl \/ repl' = [repl EXCEPT ![p] = r]
       /\ told' = [told EXCEPT ![p] = Append(@, r)]
       /\ Notified(r, {"RunCompleted"})
    \/ /\ p \in Participant /\ Answers("ActionFailed", r, p)
       /\ UNCHANGED <<repl, told>>
    \/ /\ p \in Participant
       /\ batch' = Append(batch, Notice("ActionRunStatus", p, r))
       /\ UNCHANGED <<pending, repl, told>>

LEMMA TranslateEffect ==
    ASSUME WorkspaceInv, Translate
    PROVE  /\ call = Polling /\ queued = <<>>
           /\ UNCHANGED <<channel, lagged, call, queued, resets, feed, reply>>
           /\ drained' \in Seq(BusEvents)
           /\ \A i \in 1 .. Len(drained') : \E j \in 1 .. Len(drained) : drained'[i] = drained[j]
           /\ \E r \in Runs : TranslatesTo(r, pending[r])
<1>1. /\ call = Polling /\ queued = <<>> /\ drained # <<>> /\ drained' = Tail(drained)
      /\ UNCHANGED <<channel, lagged, call, queued, resets, feed, reply>>
  BY DEF Translate, vars, durable
<1>2. drained \in Seq(BusEvents) BY DEF WorkspaceInv, WorkspaceTypeOK
<1>3. /\ Head(drained) \in BusEvents /\ Head(drained) = drained[1]
      /\ Len(drained) \in Nat \ {0}
      /\ Tail(drained) \in Seq(BusEvents) /\ Len(Tail(drained)) = Len(drained) - 1
      /\ \A i \in 1 .. Len(Tail(drained)) : Tail(drained)[i] = drained[i + 1]
  BY <1>1, <1>2, HeadTailProperties, EmptySeq
<1>4. \A i \in 1 .. Len(Tail(drained)) : i + 1 \in 1 .. Len(drained) BY <1>3
<1> DEFINE r == Head(drained).run
           p == pending[r]
<1>5. r \in Runs BY <1>3 DEF BusEvents
<1>6. p \in Participant \cup {Nobody} BY <1>5 DEF WorkspaceInv, WorkspaceTypeOK
<1>7. Head(drained).kind = "RunCompleted" => Notified(r, {"RunCompleted"})
  <2>1. Published(drained, feed) BY DEF WorkspaceInv
  <2>2. \E j \in 1 .. Len(feed[r]) : feed[r][j].kind = Head(drained).kind
    BY <1>3, <2>1 DEF Published
  <2>3. QED BY <2>2 DEF Notified
<1>8. TranslatesTo(r, p)
  <2>1. CASE p = Nobody BY <2>1 DEF Translate, TranslatesTo
  <2>2. CASE p # Nobody /\ Head(drained).kind = "RunCompleted"
    BY <1>6, <1>7, <2>2 DEF Translate, TranslatesTo, Answers
  <2>3. CASE p # Nobody /\ Head(drained).kind = "RunFailed"
    BY <1>6, <2>3 DEF Translate, TranslatesTo, Answers
  <2>4. CASE p # Nobody /\ Head(drained).kind \notin {"RunCompleted", "RunFailed"}
    BY <1>6, <2>4 DEF Translate, TranslatesTo
  <2>5. QED BY <2>1, <2>2, <2>3, <2>4
<1>9. QED BY <1>1, <1>3, <1>4, <1>5, <1>8

LEMMA TranslateIsKept ==
    ASSUME TypeOK, WorkspaceInv, Translate PROVE WorkspaceInv'
<1>1. /\ call = Polling /\ queued = <<>>
      /\ UNCHANGED <<channel, lagged, call, queued, resets, feed, reply>>
      /\ drained' \in Seq(BusEvents)
      /\ \A i \in 1 .. Len(drained') : \E j \in 1 .. Len(drained) : drained'[i] = drained[j]
  BY TranslateEffect
<1>2. PICK r \in Runs : TranslatesTo(r, pending[r]) BY TranslateEffect
<1>3. PICK p : p = pending[r] OBVIOUS
<1>4. TranslatesTo(r, p) BY <1>2, <1>3
<1>5. /\ pending \in [Runs -> Participant \cup {Nobody}]
      /\ repl \in [Participant -> Runs \cup {NoRun}]
      /\ told \in [Participant -> Seq(Runs)] /\ batch \in Seq(Notices)
  BY DEF WorkspaceInv, WorkspaceTypeOK, Notices
<1>6. /\ pending' \in [Runs -> Participant \cup {Nobody}]
      /\ \A q \in Runs : pending'[q] # Nobody => pending[q] # Nobody
  BY <1>4, <1>5 DEF TranslatesTo, Answers
<1>7. batch' \in Seq(Notices) BY <1>4, <1>5, BatchGrows DEF TranslatesTo, Answers
<1>8. ASSUME p \in Participant PROVE Append(told[p], r) \in Seq(Runs)
  BY <1>5, <1>8, AppendProperties
<1>9. told' \in [Participant -> Seq(Runs)] /\ repl' \in [Participant -> Runs \cup {NoRun}]
  BY <1>4, <1>5, <1>8 DEF TranslatesTo
<1>10. WorkspaceTypeOK'
  BY <1>1, <1>6, <1>7, <1>9 DEF WorkspaceInv, WorkspaceTypeOK, Notices
<1>11. RegistersFit'
  <2>1. Len(queued') = 0 BY <1>1, EmptySeq
  <2>2. call.op # "Schedule" BY <1>1 DEF Polling
  <2>3. QED BY <1>1, <1>6, <2>1, <2>2 DEF WorkspaceInv, RegistersFit
<1>12. StatesFit'
  <2>1. \A q \in Participant : Notified(repl[q], {"RunCompleted"}) <=>
                               (\E i \in 1 .. Len(feed'[repl[q]]) :
                                   feed'[repl[q]][i].kind \in {"RunCompleted"})
    BY <1>1 DEF Notified
  <2>2. CASE UNCHANGED <<repl, told>>
    BY <1>1, <2>2 DEF WorkspaceInv, StatesFit, Notified
  <2>3. CASE /\ p \in Participant /\ told' = [told EXCEPT ![p] = Append(@, r)]
             /\ repl' = repl \/ repl' = [repl EXCEPT ![p] = r]
             /\ Notified(r, {"RunCompleted"})
    <3>1. told[p] \in Seq(Runs) /\ told'[p] = Append(told[p], r)
          /\ \A q \in Participant : q # p => told'[q] = told[q] /\ repl'[q] = repl[q]
      BY <1>5, <2>3
    <3>2. /\ Len(told'[p]) = Len(told[p]) + 1 /\ Len(told[p]) \in Nat
          /\ told'[p][Len(told[p]) + 1] = r
          /\ \A i \in 1 .. Len(told[p]) : told'[p][i] = told[p][i]
      BY <3>1, AppendProperties, LenProperties
    <3>3. \A i \in 1 .. Len(told[p]) : i \in 1 .. Len(told'[p]) BY <3>2
    <3>4. Len(told[p]) + 1 \in 1 .. Len(told'[p]) BY <3>2
    <3>5. repl'[p] = r \/ repl'[p] = repl[p] BY <1>5, <2>3
    <3>6. ASSUME NEW q \in Participant, repl'[q] # NoRun
          PROVE  (\E i \in 1 .. Len(told'[q]) : told'[q][i] = repl'[q])
                 /\ Notified(repl'[q], {"RunCompleted"})
      <4>1. CASE q # p BY <3>1, <3>6, <4>1 DEF WorkspaceInv, StatesFit
      <4>2. CASE q = p /\ repl'[p] = r BY <2>3, <3>2, <3>4, <4>2
      <4>3. CASE q = p /\ repl'[p] = repl[p]
        <5>1. \E i \in 1 .. Len(told[p]) : told[p][i] = repl[p]
          BY <2>3, <3>6, <4>3 DEF WorkspaceInv, StatesFit
        <5>2. Notified(repl[p], {"RunCompleted"})
          BY <2>3, <3>6, <4>3 DEF WorkspaceInv, StatesFit
        <5>3. QED BY <3>2, <3>3, <4>3, <5>1, <5>2
      <4>4. QED BY <3>5, <4>1, <4>2, <4>3
    <3>7. QED BY <1>1, <3>6 DEF StatesFit, Notified
  <2>4. QED BY <1>4, <2>2, <2>3 DEF TranslatesTo
<1>13. Published(drained', feed)
  <2>1. Published(drained, feed) BY DEF WorkspaceInv
  <2>2. ASSUME NEW i \in 1 .. Len(drained')
        PROVE  \E j \in 1 .. Len(feed[drained'[i].run]) :
                  feed[drained'[i].run][j].kind = drained'[i].kind
    <3>1. PICK k \in 1 .. Len(drained) : drained'[i] = drained[k] BY <1>1
    <3>2. QED BY <2>1, <3>1 DEF Published
  <2>3. QED BY <2>2 DEF Published
<1>14. QED BY <1>1, <1>10, <1>11, <1>12, <1>13 DEF WorkspaceInv

LEMMA PollReturnIsKept ==
    ASSUME TypeOK, WorkspaceInv, PollReturns PROVE WorkspaceInv'
<1>1. /\ call = Polling /\ drained = <<>> /\ batch' = <<>> /\ call' = Free
      /\ UNCHANGED <<channel, lagged, queued, pending, drained, repl, told, resets, feed, reply>>
  BY DEF PollReturns, vars, durable
<1>2. WorkspaceTypeOK' BY <1>1, EmptySeq DEF WorkspaceInv, WorkspaceTypeOK
<1>3. RegistersFit' BY <1>1 DEF WorkspaceInv, RegistersFit, Free
<1>4. StatesFit' BY <1>1 DEF WorkspaceInv, StatesFit, Notified
<1>5. QED BY <1>1, <1>2, <1>3, <1>4 DEF WorkspaceInv

(* A reset leaves the registers empty, and so does a restart. *)
LEMMA ForgetIsKept ==
    ASSUME WorkspaceInv, Forget, call' = Free, resets' = resets + 1, resets < MaxResets,
           UNCHANGED <<feed, reply>>,
           \/ /\ call \in {Free, Broken} /\ UNCHANGED <<channel, lagged, drained, batch>>
           \/ channel' = <<>> /\ lagged' = FALSE /\ drained' = <<>> /\ batch' = <<>>
    PROVE  WorkspaceInv' /\ batch' = <<>>
<1>1. call \in {Free, Broken} => drained = <<>> /\ batch = <<>>
  BY DEF WorkspaceInv, WorkspaceTypeOK, Free, Broken, Polling
<1>2. batch' = <<>> /\ drained' = <<>> BY <1>1
<1>3. /\ Len(<<>>) = 0 /\ <<>> \in Seq(Runs) /\ <<>> \in Seq(BusEvents)
      /\ <<>> \in Seq(Notices)
  BY EmptySeq
<1>4. MaxResets \in Nat /\ ChannelSize \in Nat \ {0}
  BY WorkspaceAssumption DEF WorkspaceAssumption
<1>5. WorkspaceTypeOK'
  <2>1. /\ queued' \in Seq(Runs) /\ pending' \in [Runs -> Participant \cup {Nobody}]
        /\ repl' \in [Participant -> Runs \cup {NoRun}]
        /\ told' \in [Participant -> Seq(Runs)]
    BY <1>3 DEF Forget
  <2>2. resets' \in 0 .. MaxResets BY <1>4 DEF WorkspaceInv, WorkspaceTypeOK
  <2>3. channel \in Seq(BusEvents) /\ Len(channel) <= ChannelSize /\ lagged \in BOOLEAN
    BY DEF WorkspaceInv, WorkspaceTypeOK
  <2>4. channel' \in Seq(BusEvents) /\ Len(channel') <= ChannelSize /\ lagged' \in BOOLEAN
    <3>1. CASE UNCHANGED <<channel, lagged>> BY <2>3, <3>1
    <3>2. CASE channel' = <<>> /\ lagged' = FALSE
      <4>1. channel' \in Seq(BusEvents) BY <1>3, <3>2
      <4>2. Len(channel') <= ChannelSize BY <1>3, <1>4, <3>2
      <4>3. QED BY <3>2, <4>1, <4>2
    <3>3. QED BY <3>1, <3>2
  <2>5. QED BY <1>2, <1>3, <2>1, <2>2, <2>3, <2>4 DEF WorkspaceTypeOK, Notices
<1>6. RegistersFit' BY <1>3 DEF Forget, RegistersFit, Free
<1>7. StatesFit' BY DEF Forget, StatesFit
<1>8. Published(channel, feed)' /\ Published(drained, feed)'
  <2>1. Published(<<>>, feed) BY <1>3 DEF Published
  <2>2. QED BY <1>2, <2>1 DEF WorkspaceInv
<1>9. QED BY <1>2, <1>5, <1>6, <1>7, <1>8 DEF WorkspaceInv

LEMMA WorkspaceStep ==
    ASSUME TypeOK, WorkspaceInv, [WorkspaceNext]_allVars PROVE WorkspaceInv'
<1>1. CASE EngineGoesOn
  <2>1. [Next]_vars /\ Heard BY <1>1 DEF EngineGoesOn, Next
  <2>2. QED BY <2>1, HeardIsKept
<1>2. ASSUME NEW p \in Participant, NEW r \in Runs, Schedule(p, r) PROVE WorkspaceInv'
  BY <1>2, ScheduleIsKept
<1>3. CASE ScheduleReturns BY <1>3, ScheduleReturnIsKept
<1>4. CASE Poll
  BY <1>4, PollStartIsKept, ReportIsKept, TranslateIsKept, PollReturnIsKept DEF Poll
<1>5. CASE Reset
  <2>1. UNCHANGED <<feed, reply>> BY <1>5 DEF Reset, vars, durable
  <2>2. QED BY <1>5, <2>1, ForgetIsKept DEF Reset
<1>6. CASE WorkspaceRestarts
  <2>1. UNCHANGED <<feed, reply>> BY <1>6 DEF WorkspaceRestarts, Restart, durable
  <2>2. QED BY <1>6, <2>1, ForgetIsKept DEF WorkspaceRestarts
<1>7. CASE UNCHANGED allVars
  BY <1>7
  DEF allVars, vars, durable, wsVars, WorkspaceInv, WorkspaceTypeOK, RegistersFit, StatesFit,
      Published, Notified
<1>8. QED BY <1>1, <1>2, <1>3, <1>4, <1>5, <1>6, <1>7 DEF WorkspaceNext

(***************************************************************************)
(* What is proved of the workspace                                         *)
(***************************************************************************)
LEMMA WorkspaceBegins == WorkspaceInit => WorkspaceInv
<1> SUFFICES ASSUME WorkspaceInit PROVE WorkspaceInv OBVIOUS
<1>1. /\ <<>> \in Seq(Runs) /\ <<>> \in Seq(BusEvents) /\ <<>> \in Seq(Notices)
      /\ Len(<<>>) = 0
  BY EmptySeq
<1>2. MaxResets \in Nat /\ ChannelSize \in Nat \ {0}
  BY WorkspaceAssumption DEF WorkspaceAssumption
<1>3. WorkspaceTypeOK
  <2>1. /\ queued \in Seq(Runs) /\ channel \in Seq(BusEvents) /\ drained \in Seq(BusEvents)
        /\ batch \in Seq(Notices) /\ Len(channel) = 0
    BY <1>1 DEF WorkspaceInit
  <2>2. Len(channel) <= ChannelSize BY <1>2, <2>1
  <2>3. /\ pending \in [Runs -> Participant \cup {Nobody}]
        /\ repl \in [Participant -> Runs \cup {NoRun}]
        /\ told \in [Participant -> Seq(Runs)]
    BY <1>1 DEF WorkspaceInit
  <2>4. resets = 0 /\ 0 \in 0 .. MaxResets BY <1>2 DEF WorkspaceInit
  <2>5. lagged \in BOOLEAN /\ call = Free /\ drained = <<>> /\ batch = <<>>
    BY DEF WorkspaceInit
  <2>6. QED BY <2>1, <2>2, <2>3, <2>4, <2>5 DEF WorkspaceTypeOK, Notices
<1>4. RegistersFit BY <1>1 DEF WorkspaceInit, RegistersFit, Free
<1>5. StatesFit BY DEF WorkspaceInit, StatesFit
<1>6. Published(channel, feed) /\ Published(drained, feed)
  BY <1>1 DEF WorkspaceInit, Published
<1>7. QED BY <1>3, <1>4, <1>5, <1>6 DEF WorkspaceInv

(* The engine underneath stays well formed, and the registers of the       *)
(* workspace never say anything else than what the engine published.       *)
THEOREM WorkspaceInvariant == WorkspaceSpec => []WorkspaceInv
<1>1. WorkspaceSpec => []TypeOK BY WorkspaceRunsEngine, EngineIsTyped, PTL
<1>2. TypeOK /\ WorkspaceInv /\ [WorkspaceNext]_allVars => WorkspaceInv'
  BY WorkspaceStep
<1>3. QED BY <1>1, <1>2, WorkspaceBegins, PTL DEF WorkspaceSpec

(* The state of the workspace is well formed, only a poll holds events,    *)
(* and the channel keeps to its capacity (events.rs:56-60).                *)
THEOREM WorkspaceIsTyped == WorkspaceSpec => []WorkspaceTypeOK
<1>1. WorkspaceInv => WorkspaceTypeOK BY DEF WorkspaceInv
<1>2. QED BY <1>1, WorkspaceInvariant, PTL

(* The code of an actor only ever continues from a state that its own code *)
(* left behind in this task, in a run that completed and of whose end it   *)
(* was told (agent_workspace.rs:481, 599-607, 664).                        *)
THEOREM StatesAreOwn == WorkspaceSpec => []StateIsOwn
<1>1. ASSUME WorkspaceInv, LogTellsTheTruth PROVE StateIsOwn
  <2> SUFFICES ASSUME NEW p \in Participant, repl[p] # NoRun
               PROVE  repl[p] \in ToSet(told[p]) /\ store[repl[p]] = Completed
    BY DEF StateIsOwn
  <2>1. repl \in [Participant -> Runs \cup {NoRun}] /\ told \in [Participant -> Seq(Runs)]
    BY <1>1 DEF WorkspaceInv, WorkspaceTypeOK
  <2>2. repl[p] \in Runs /\ told[p] \in Seq(Runs) BY <2>1
  <2>3. /\ \E i \in 1 .. Len(told[p]) : told[p][i] = repl[p]
        /\ Notified(repl[p], {"RunCompleted"})
    BY <1>1 DEF WorkspaceInv, StatesFit
  <2>4. store[repl[p]] = Completed BY <1>1, <2>2, <2>3 DEF LogTellsTheTruth
  <2>5. DOMAIN told[p] = 1 .. Len(told[p]) BY <2>2, LenProperties
  <2>6. repl[p] \in ToSet(told[p]) BY <2>3, <2>5 DEF ToSet
  <2>7. QED BY <2>4, <2>6
<1>2. WorkspaceSpec => []LogTellsTheTruth BY WorkspaceRunsEngine, LogIsTrue, PTL
<1>3. QED BY <1>1, <1>2, WorkspaceInvariant, PTL

(***************************************************************************)
(* The promise                                                             *)
(***************************************************************************)

(* An action is its run, and its participants are the workspace's. *)
LEMMA SameNames ==
    /\ Promised!ActionId = Runs /\ Promised!Participant = Participant
    /\ Promised!Nobody = Nobody
BY WorkspaceAssumption
DEF WorkspaceAssumption, Promised!ActionId, Promised!Participant, Promised!Nobody,
    Participant, Nobody

(* A status of an action under way is a notice of the environment ... *)
LEMMA StatusIsNotice ==
    ASSUME NEW r \in Runs, pending[r] \in Participant, UNCHANGED pending,
           batch' = Append(batch, Notice("ActionRunStatus", pending[r], r))
    PROVE  Promised!Notice
BY SameNames DEF Promised!Notice, Promised!Event, Notice

(* ... the end of its run is the answer, and takes it off the register ... *)
LEMMA EndIsAnswer ==
    ASSUME NEW r \in Runs, pending[r] \in Participant,
           NEW kind \in {"ActionCompleted", "ActionFailed"}, Answers(kind, r, pending[r])
    PROVE  Promised!Answer(r)
<1>1. pending[r] # Nobody BY WorkspaceAssumption DEF WorkspaceAssumption, Participant, Nobody
<1>2. QED
  BY <1>1, SameNames DEF Answers, Promised!Answer, Promised!Event, Promised!AnswerKinds, Notice

(* ... and a submission the engine accepted is an action the environment   *)
(* accepted, for whoever scheduled it.                                     *)
LEMMA SubmissionIsAccepted ==
    ASSUME WorkspaceInv, ScheduleReturns
    PROVE  \/ UNCHANGED <<pending, batch>>
           \/ \E r \in Runs, p \in Participant : pending[r] = Nobody /\ Promised!Accept(r, p)
<1>1. PICK p \in Participant, r \in Runs : call = Scheduling(p, r)
  BY DEF WorkspaceInv, WorkspaceTypeOK, ScheduleReturns, Free, Polling, Broken
<1>2. call.op = "Schedule" /\ call.actor = p /\ call.run = r BY <1>1 DEF Scheduling
<1>3. pending[r] = Nobody BY <1>2 DEF WorkspaceInv, RegistersFit
<1>4. CASE reply[call.run] = "Ok"
  <2>1. Promised!Accept(r, p) BY <1>2, <1>4 DEF ScheduleReturns, Promised!Accept
  <2>2. QED BY <1>3, <2>1
<1>5. CASE reply[call.run] # "Ok" BY <1>5 DEF ScheduleReturns
<1>6. QED BY <1>4, <1>5

LEMMA PromiseStep ==
    ASSUME WorkspaceInv, [WorkspaceNext]_allVars
    PROVE  Promised!PromiseNext \/ UNCHANGED <<pending, batch>>
<1>1. CASE EngineGoesOn BY <1>1 DEF EngineGoesOn, Heard
<1>2. ASSUME NEW p \in Participant, NEW r \in Runs, Schedule(p, r)
      PROVE  UNCHANGED <<pending, batch>>
  BY <1>2 DEF Schedule
<1>3. CASE ScheduleReturns
  <2>1. CASE UNCHANGED <<pending, batch>> BY <2>1
  <2>2. CASE \E r \in Runs, p \in Participant : pending[r] = Nobody /\ Promised!Accept(r, p)
    BY <2>2, SameNames DEF Promised!PromiseNext
  <2>3. QED BY <1>3, <2>1, <2>2, SubmissionIsAccepted
<1>4. CASE PollStarts BY <1>4 DEF PollStarts
<1>5. CASE ReportQueued
  <2>1. Head(queued) \in Runs /\ pending[Head(queued)] \in Participant
    BY <1>5, ReportEffect
  <2>2. Promised!Notice BY <1>5, <2>1, StatusIsNotice DEF ReportQueued
  <2>3. QED BY <2>2 DEF Promised!PromiseNext
<1>6. CASE Translate
  <2>1. PICK r \in Runs : TranslatesTo(r, pending[r]) BY <1>6, TranslateEffect
  <2>2. CASE pending[r] \in Participant /\ Answers("ActionCompleted", r, pending[r])
    <3>1. Promised!Answer(r) BY <2>2, EndIsAnswer
    <3>2. QED BY <3>1, SameNames DEF Promised!PromiseNext
  <2>3. CASE pending[r] \in Participant /\ Answers("ActionFailed", r, pending[r])
    <3>1. Promised!Answer(r) BY <2>3, EndIsAnswer
    <3>2. QED BY <3>1, SameNames DEF Promised!PromiseNext
  <2>4. CASE /\ pending[r] \in Participant /\ UNCHANGED pending
             /\ batch' = Append(batch, Notice("ActionRunStatus", pending[r], r))
    <3>1. Promised!Notice BY <2>4, StatusIsNotice
    <3>2. QED BY <3>1 DEF Promised!PromiseNext
  <2>5. CASE UNCHANGED <<pending, batch>> BY <2>5
  <2>6. QED BY <2>1, <2>2, <2>3, <2>4, <2>5 DEF TranslatesTo
<1>7. CASE PollReturns
  <2>1. batch' = <<>> /\ UNCHANGED pending /\ 0' = 0 BY <1>7 DEF PollReturns
  <2>2. QED BY <2>1 DEF Promised!PromiseNext, Promised!Poll
<1>8. CASE Reset \/ WorkspaceRestarts
  <2>1. batch' = <<>>
    <3>1. CASE Reset
      <4>1. UNCHANGED <<feed, reply>> BY <3>1 DEF Reset, vars, durable
      <4>2. QED BY <3>1, <4>1, ForgetIsKept DEF Reset
    <3>2. CASE WorkspaceRestarts BY <3>2 DEF WorkspaceRestarts
    <3>3. QED BY <1>8, <3>1, <3>2
  <2>2. pending' = [r \in Runs |-> Nobody]
    BY <1>8 DEF Reset, WorkspaceRestarts, Forget
  <2>3. QED BY <2>1, <2>2, SameNames DEF Promised!PromiseNext, Promised!Reset
<1>9. CASE UNCHANGED allVars BY <1>9 DEF allVars, wsVars
<1>10. QED
  BY <1>1, <1>2, <1>3, <1>4, <1>5, <1>6, <1>7, <1>8, <1>9 DEF WorkspaceNext, Poll

(* The workspace implements the environment the run loop relies on:        *)
(* whatever the engine does, and however many events of earlier tasks or   *)
(* of refused submissions are still on their way, an accepted action is    *)
(* answered at most once, to its actor, nothing more is heard of it after  *)
(* that, and a reset forgets it (agent_workspace.rs:395-421, 461-650,      *)
(* 660-723).                                                               *)
THEOREM WorkspaceKeepsPromise == WorkspaceSpec => KeepsPromise
<1>1. WorkspaceInit => Promised!EnvInit
  BY SameNames DEF WorkspaceInit, Promised!EnvInit
<1>2. WorkspaceInv /\ [WorkspaceNext]_allVars => [Promised!PromiseNext]_<<pending, batch>>
  BY PromiseStep
<1>3. QED
  BY <1>1, <1>2, WorkspaceInvariant, PTL DEF WorkspaceSpec, KeepsPromise, Promised!Promise
=============================================================================
