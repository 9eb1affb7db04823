------------------------ MODULE SkillInstancesProofs ------------------------
(***************************************************************************)
(* Proofs about SkillInstances: its types and the mutex of an instance,    *)
(* that a failed instance answers at most one later action, that an action *)
(* reports its own invocation unless a thread that was given up used the   *)
(* instance as well, and that the worker keeps the safety part of what     *)
(* ActionQueue promises.  All of them hold for any number of requests and  *)
(* skills, any profiles and any number of failed loads.                    *)
(***************************************************************************)
EXTENDS SkillInstances, FiniteSetTheorems, SequenceTheorems, TLAPS

(***************************************************************************)
(* The inductive invariant, in parts                                       *)
(***************************************************************************)

Places == {"recv", "lookup", "load", "providers", "build", "store", "spawn", "join", "evict"}
Stages == {"none", "begin", "lock", "calling", "ok", "error", "panic"}
Running == {"begin", "lock", "calling"}
States == {"sound", "spoiled"}
Actions == Requests \cup {Nothing}

Workers == [at : Places, action : Actions, instance : Nat]
Calls == [at : Stages, instance : Nat, found : States, context : Actions]
Instances == [skill : Skills, holder : Actions, context : Actions, state : States,
              poisoned : BOOLEAN]
Updates == [kind : {"Claimed", "Completed", "Failed"}, action : Actions,
            context : Actions, instance : Nat, found : States]

Typed ==
    /\ queue \in Seq(Requests)
    /\ worker \in Workers
    /\ call \in [Requests -> Calls]
    /\ instance \in Seq(Instances)
    /\ warm \in [Skills -> Nat]
    /\ components \subseteq Skills /\ paths \subseteq Skills
    /\ sent \in Seq(Updates)
    /\ accepted \subseteq Requests
    /\ faults \in Nat

(* An action is in the queue once, before anything was done for it; the    *)
(* one the worker serves has left the queue.                               *)
Waits(a) == \E k \in DOMAIN queue : queue[k] = a

QueueFits ==
    /\ \A k \in DOMAIN queue : queue[k] \in accepted /\ At(queue[k], "none")
    /\ \A k, l \in DOMAIN queue : queue[k] = queue[l] => k = l
    /\ ~ Waits(worker.action)
    /\ \A a \in Requests : ~ At(a, "none") => a \in accepted

(* The worker has an action unless it receives, an instance of the         *)
(* action's skill once it got one, and a thread for it once it spawned it. *)
WorkerFits ==
    /\ worker.at = "recv" <=> worker.action = Nothing
    /\ worker.action # Nothing => worker.action \in accepted
    /\ worker.at \notin {"store", "spawn", "join", "evict"} => worker.instance = Nothing
    /\ worker.at \in {"store", "spawn", "join", "evict"} =>
          /\ worker.instance \in DOMAIN instance
          /\ instance[worker.instance].skill = Skill
    /\ worker.at \notin {"recv", "join", "evict"} => At(worker.action, "none")
    /\ worker.at \in {"join", "evict"} =>
          ~ At(worker.action, "none") /\ call[worker.action].instance = worker.instance
    /\ worker.at = "evict" => At(worker.action, "error")

(* Every thread has an instance; the one that calls into it holds its      *)
(* mutex, and nobody else does.                                            *)
ThreadsFit ==
    /\ \A a \in Requests : At(a, "none") => call[a].instance = Nothing
    /\ \A a \in Requests : ~ At(a, "none") => call[a].instance \in DOMAIN instance
    /\ \A a \in Requests : At(a, "calling") => instance[call[a].instance].holder = a
    /\ \A i \in DOMAIN instance : instance[i].holder # Nothing =>
          At(instance[i].holder, "calling") /\ call[instance[i].holder].instance = i

WarmFits ==
    \A s \in Skills : warm[s] # Nothing =>
        warm[s] \in DOMAIN instance /\ instance[warm[s]].skill = s

InstancesInv == Typed /\ QueueFits /\ WorkerFits /\ ThreadsFit /\ WarmFits

(* What a thread found when it took the instance is still its state, and   *)
(* one that panics had found it sound.                                     *)
FoundFits ==
    \A a \in Requests :
        /\ At(a, "calling") => call[a].found = instance[call[a].instance].state
        /\ call[a].at \in {"none", "begin", "lock", "panic"} => call[a].found = "sound"

(* An instance whose answer told that it was found spoiled is out of       *)
(* reach: it is neither warm nor the worker's.                             *)
Spoiled(n) == n \in Answers /\ sent[n].found = "spoiled"

SpoiledIsGone ==
    \A n \in DOMAIN sent : Spoiled(n) =>
        /\ sent[n].instance \in DOMAIN instance
        /\ worker.instance # sent[n].instance
        /\ \A s \in Skills : warm[s] # sent[n].instance

SpoiledDiffer ==
    \A m, n \in DOMAIN sent :
        Spoiled(m) /\ Spoiled(n) /\ sent[m].instance = sent[n].instance => m = n

SpoiledInv == FoundFits /\ SpoiledIsGone /\ SpoiledDiffer

(* A thread that runs is the worker's or was given up; the worker's        *)
(* records its own invocation, unless one that was given up shares it.     *)
Shared == {call[a].instance : a \in TimedOut}

RunningIsKnown ==
    \A a \in Requests : call[a].at \in Running =>
        (worker.at = "join" /\ worker.action = a) \/ a \in TimedOut

ContextFits ==
    worker.at = "join" =>
        /\ call[worker.action].at \in {"lock", "calling"} =>
              instance[worker.instance].context = worker.action \/ worker.instance \in Shared
        /\ At(worker.action, "ok") =>
              call[worker.action].context = worker.action \/ worker.instance \in Shared

ContextInv == RunningIsKnown /\ ContextFits /\ DiagnosticsAreOwn

(***************************************************************************)
(* Types                                                                   *)
(***************************************************************************)

(* Requests are numbered, so no request is Nothing.  *)
LEMMA RequestsAreNumbers == Requests \subseteq Nat /\ Nothing \notin Requests
<1>1. \A n : 1 .. n \subseteq Nat /\ 0 \notin 1 .. n OBVIOUS
<1>2. QED BY <1>1, InstancesAssumption DEF InstancesAssumption, Nothing

(* The records the worker sends have their types, whichever they are. *)
LEMMA UpdatesAreTyped ==
  ASSUME Typed, NEW a \in Requests
  PROVE  /\ Claimed(a) \in Updates /\ Failed(a) \in Updates
         /\ Completed(a) \in Updates /\ FailedCall(a) \in Updates
<1>1. call[a] \in Calls BY DEF Typed
<1>2. QED
  BY <1>1, RequestsAreNumbers
  DEF Claimed, Failed, Completed, FailedCall, Updates, Calls, Actions, States, Nothing

(* What each of them says. *)
LEMMA UpdatesSay ==
  ASSUME Typed, NEW a \in Requests
  PROVE  /\ Claimed(a).kind = "Claimed" /\ Claimed(a).action = a
         /\ Claimed(a).instance = Nothing /\ Claimed(a).found = "sound"
         /\ Failed(a).kind = "Failed" /\ Failed(a).action = a
         /\ Failed(a).instance = Nothing /\ Failed(a).found = "sound"
         /\ Completed(a).kind = "Completed" /\ Completed(a).action = a
         /\ Completed(a).instance = call[a].instance /\ Completed(a).found = "sound"
         /\ Completed(a).context = call[a].context
         /\ FailedCall(a).kind = "Failed" /\ FailedCall(a).action = a
         /\ FailedCall(a).instance = call[a].instance
         /\ FailedCall(a).found = call[a].found
BY DEF Claimed, Failed, Completed, FailedCall

(* A worker that does not receive serves a request, of some skill. *)
LEMMA WorkerServes ==
  ASSUME Typed, WorkerFits, worker.at # "recv"
  PROVE  worker.action \in Requests /\ Skill \in Skills
<1>1. worker.action \in Requests BY DEF Typed, WorkerFits, Workers, Actions
<1>2. QED BY <1>1, InstancesAssumption DEF InstancesAssumption, Skill

(* A step of the worker that sends an update, or none, and its new place. *)
LEMMA AnswerIsTyped ==
  ASSUME Typed, NEW u \in Updates, Answer(u)
  PROVE  sent' \in Seq(Updates) /\ worker' \in Workers
<1>1. sent' \in Seq(Updates) BY AppendProperties DEF Answer, Typed
<1>2. Idle \in Workers BY DEF Idle, Workers, Places, Actions, Nothing
<1>3. QED BY <1>1, <1>2 DEF Answer

LEMMA GoesIsTyped ==
  ASSUME Typed, NEW place \in Places, Goes(place)
  PROVE  sent' \in Seq(Updates) /\ worker' \in Workers
BY DEF Goes, Typed, Workers

(* The instance of a thread, changed in one field, is still an instance. *)
LEMMA InstanceChanges ==
  ASSUME Typed, NEW i \in DOMAIN instance, NEW x \in Instances,
         instance' = [instance EXCEPT ![i] = x]
  PROVE  /\ instance' \in Seq(Instances) /\ Len(instance') = Len(instance)
         /\ DOMAIN instance' = DOMAIN instance /\ instance'[i] = x
         /\ \A j \in DOMAIN instance : j # i => instance'[j] = instance[j]
<1>1. instance \in Seq(Instances) /\ i \in 1 .. Len(instance) BY LenProperties DEF Typed
<1>2. QED BY <1>1, ExceptSeq, LenProperties

LEMMA InstanceGrows ==
  ASSUME Typed, NEW x \in Instances, instance' = Append(instance, x)
  PROVE  /\ instance' \in Seq(Instances) /\ Len(instance') = Len(instance) + 1
         /\ DOMAIN instance \subseteq DOMAIN instance' /\ Len(instance) \in Nat
         /\ DOMAIN instance' = DOMAIN instance \cup {Len(instance')}
         /\ Len(instance') \notin DOMAIN instance
         /\ instance'[Len(instance')] = x
         /\ \A j \in DOMAIN instance : instance'[j] = instance[j]
BY AppendProperties, LenProperties DEF Typed

(***************************************************************************)
(* The steps of the threads                                                *)
(***************************************************************************)

(* What a step of request a's thread makes of its call k and its instance  *)
(* y: it fails on a poisoned mutex, begins its invocation, takes the mutex *)
(* for the call, or ends the call and releases it.                         *)
FailsAtOnce(k, y, c, x) ==
    k.at \in {"begin", "lock"} /\ c.at = "error" /\ x = y
Begins(a, k, y, c, x) ==
    /\ k.at = "begin" /\ c.at = "lock" /\ c.found = k.found
    /\ x.context = a /\ x.holder = y.holder /\ x.state = y.state
Takes(a, k, y, c, x) ==
    /\ k.at = "lock" /\ c.at = "calling" /\ c.found = y.state
    /\ y.holder = Nothing /\ x.holder = a /\ x.context = y.context /\ x.state = y.state
Ends(k, y, c, x) ==
    /\ k.at = "calling" /\ c.at \in {"ok", "error", "panic"} /\ c.found = k.found
    /\ c.at = "panic" => y.state = "sound"
    /\ c.at = "ok" => c.context = y.context
    /\ x.holder = Nothing /\ x.context = y.context

ThreadMoves(a, k, y, c, x) ==
    /\ c.instance = k.instance /\ x.skill = y.skill
    /\ \/ FailsAtOnce(k, y, c, x) \/ Begins(a, k, y, c, x)
       \/ Takes(a, k, y, c, x) \/ Ends(k, y, c, x)

LEMMA ThreadsMove ==
  ASSUME Typed, ThreadsFit, NEW a \in Requests, ThreadStep(a)
  PROVE  /\ call[a].instance \in DOMAIN instance
         /\ call[a] \in Calls /\ instance[call[a].instance] \in Instances
         /\ \E c \in Calls, x \in Instances :
               /\ call' = [call EXCEPT ![a] = c]
               /\ instance' = [instance EXCEPT ![call[a].instance] = x]
               /\ ThreadMoves(a, call[a], instance[call[a].instance], c, x)
<1> DEFINE i == call[a].instance
<1>1. ~At(a, "none")
  BY DEF ThreadStep, BeginInvocation, TakeInstance, Return, Trap, Panic, At
<1>2. call[a] \in Calls /\ i \in DOMAIN instance /\ instance[i] \in Instances
  <2>1. call[a] \in Calls /\ i \in DOMAIN instance BY <1>1 DEF Typed, ThreadsFit
  <2>2. i \in 1 .. Len(instance) BY <2>1, LenProperties DEF Typed
  <2>3. QED BY <2>1, <2>2, ElementOfSeq DEF Typed
<1>3. call \in [Requests -> Calls] /\ instance \in [1 .. Len(instance) -> Instances]
  BY LenProperties DEF Typed
<1>4. instance = [instance EXCEPT ![i] = instance[i]] BY <1>2, <1>3
<1> DEFINE Moves(c, x) ==
  /\ call' = [call EXCEPT ![a] = c] /\ instance' = [instance EXCEPT ![i] = x]
  /\ ThreadMoves(a, call[a], instance[i], c, x)
<1>5. SUFFICES \E c \in Calls, x \in Instances : Moves(c, x) BY <1>2
<1>6. ASSUME call[a].at \in {"begin", "lock"}, UNCHANGED instance,
             call' = [call EXCEPT ![a].at = "error", ![a].found = "spoiled"]
      PROVE  \E c \in Calls, x \in Instances : Moves(c, x)
  <2> DEFINE c == [call[a] EXCEPT !.at = "error", !.found = "spoiled"]
  <2>1. c \in Calls /\ c.instance = i /\ c.at = "error" BY <1>2 DEF Calls, Stages, States
  <2>2. call' = [call EXCEPT ![a] = c] BY <1>3, <1>6 DEF Calls
  <2>3. ThreadMoves(a, call[a], instance[i], c, instance[i])
    BY <1>6, <2>1 DEF ThreadMoves, FailsAtOnce
  <2>4. QED BY <1>2, <1>4, <1>6, <2>1, <2>2, <2>3
<1>7. CASE BeginInvocation(a)
  <2>1. CASE instance[i].poisoned BY <1>6, <1>7, <2>1 DEF BeginInvocation, At
  <2>2. CASE ~instance[i].poisoned
    <3> DEFINE c == [call[a] EXCEPT !.at = "lock"]
               x == [instance[i] EXCEPT !.context = a]
    <3>1. c \in Calls /\ x \in Instances BY <1>2 DEF Calls, Stages, Instances, Actions
    <3>2. call' = [call EXCEPT ![a] = c] BY <1>7, <2>2 DEF BeginInvocation, ThreadEnds
    <3>3. instance' = [instance EXCEPT ![i] = x] BY <1>7, <2>2 DEF BeginInvocation
    <3>4. ThreadMoves(a, call[a], instance[i], c, x)
      BY <1>2, <1>7 DEF ThreadMoves, Begins, BeginInvocation, At, Calls, Instances
    <3>5. QED BY <3>1, <3>2, <3>3, <3>4
  <2>3. QED BY <2>1, <2>2
<1>8. CASE TakeInstance(a)
  <2>1. CASE instance[i].poisoned BY <1>6, <1>8, <2>1 DEF TakeInstance, At
  <2>2. CASE ~instance[i].poisoned
    <3> DEFINE c == [call[a] EXCEPT !.at = "calling", !.found = instance[i].state]
               x == [instance[i] EXCEPT !.holder = a]
    <3>1. c \in Calls /\ x \in Instances BY <1>2 DEF Calls, Stages, Instances, Actions
    <3>2. call' = [call EXCEPT ![a] = c] BY <1>3, <1>8, <2>2 DEF TakeInstance, Calls
    <3>3. instance' = [instance EXCEPT ![i] = x] BY <1>8, <2>2 DEF TakeInstance
    <3>4. ThreadMoves(a, call[a], instance[i], c, x)
      BY <1>2, <1>8 DEF ThreadMoves, Takes, TakeInstance, At, Calls, Instances
    <3>5. QED BY <3>1, <3>2, <3>3, <3>4
  <2>3. QED BY <2>1, <2>2
<1>9. CASE Return(a)
  <2> DEFINE x == Released(i)
  <2>1. x \in Instances /\ x.skill = instance[i].skill
        /\ x.holder = Nothing /\ x.context = instance[i].context
    BY <1>2 DEF Released, Instances, Actions
  <2>2. instance' = [instance EXCEPT ![i] = x] BY <1>9 DEF Return
  <2>3. CASE ThreadEnds(a, "error")
    <3> DEFINE c == [call[a] EXCEPT !.at = "error"]
    <3>1. c \in Calls BY <1>2 DEF Calls, Stages
    <3>2. call' = [call EXCEPT ![a] = c] BY <2>3 DEF ThreadEnds
    <3>3. ThreadMoves(a, call[a], instance[i], c, x)
      BY <1>2, <1>9, <2>1 DEF ThreadMoves, Ends, Return, At, Calls
    <3>4. QED BY <2>1, <2>2, <3>1, <3>2, <3>3
  <2>4. CASE call' = [call EXCEPT ![a].at = "ok", ![a].context = instance[i].context]
    <3> DEFINE c == [call[a] EXCEPT !.at = "ok", !.context = instance[i].context]
    <3>1. c \in Calls BY <1>2 DEF Calls, Stages, Instances
    <3>2. call' = [call EXCEPT ![a] = c] BY <1>3, <2>4 DEF Calls
    <3>3. ThreadMoves(a, call[a], instance[i], c, x)
      BY <1>2, <1>9, <2>1 DEF ThreadMoves, Ends, Return, At, Calls
    <3>4. QED BY <2>1, <2>2, <3>1, <3>2, <3>3
  <2>5. QED BY <1>9, <2>3, <2>4 DEF Return
<1>10. CASE Trap(a)
  <2> DEFINE c == [call[a] EXCEPT !.at = "error"]
             x == [Released(i) EXCEPT !.state = "spoiled"]
  <2>1. c \in Calls /\ x \in Instances
    BY <1>2 DEF Calls, Stages, Released, Instances, Actions, States
  <2>2. call' = [call EXCEPT ![a] = c] BY <1>10 DEF Trap, ThreadEnds
  <2>3. instance' = [instance EXCEPT ![i] = x] BY <1>10 DEF Trap
  <2>4. ThreadMoves(a, call[a], instance[i], c, x)
    BY <1>2, <1>10 DEF ThreadMoves, Ends, Trap, At, Calls, Instances, Released
  <2>5. QED BY <2>1, <2>2, <2>3, <2>4
<1>11. CASE Panic(a)
  <2> DEFINE c == [call[a] EXCEPT !.at = "panic"]
             x == [Released(i) EXCEPT !.poisoned = TRUE]
  <2>1. c \in Calls /\ x \in Instances
    BY <1>2 DEF Calls, Stages, Released, Instances, Actions
  <2>2. call' = [call EXCEPT ![a] = c] BY <1>11 DEF Panic, ThreadEnds
  <2>3. instance' = [instance EXCEPT ![i] = x] BY <1>11 DEF Panic
  <2>4. ThreadMoves(a, call[a], instance[i], c, x)
    BY <1>2, <1>11 DEF ThreadMoves, Ends, Panic, At, Calls, Instances, Released
  <2>5. QED BY <2>1, <2>2, <2>3, <2>4
<1>12. QED BY <1>7, <1>8, <1>9, <1>10, <1>11 DEF ThreadStep

(***************************************************************************)
(* The steps of the worker                                                 *)
(***************************************************************************)

(* The worker answers its action: it failed outside a call, or its thread  *)
(* has ended, with an error after which the cache forgot its instance.     *)
Forgets == warm' = [warm EXCEPT ![Skill] = Nothing]

Replies(u) ==
    /\ worker.at # "recv"
    /\ Answer(u)
    /\ UNCHANGED <<queue, call, instance, accepted>>
    /\ warm' = warm \/ Forgets
    /\ LET a == worker.action IN
       \/ u = Failed(a)
       \/ worker.at = "join" /\ At(a, "ok") /\ u = Completed(a)
       \/ worker.at = "join" /\ At(a, "panic") /\ u = FailedCall(a)
       \/ worker.at = "evict" /\ u = FailedCall(a) /\ Forgets

(* It goes on to the next place of its path, having changed no more than   *)
(* the caches of components and database paths.                            *)
MovesTo(place) ==
    /\ worker' = [worker EXCEPT !.at = place]
    /\ UNCHANGED <<queue, call, instance, warm, sent, accepted>>
    /\ \/ worker.at = "lookup" /\ place = "load"
       \/ worker.at = "load" /\ place = "providers"
       \/ worker.at = "providers" /\ place = "build"
       \/ worker.at = "join" /\ At(worker.action, "error") /\ place = "evict"

(* It takes the warm instance, or builds one. *)
Reuses ==
    /\ worker.at = "lookup" /\ warm[Skill] # Nothing
    /\ worker' = [worker EXCEPT !.at = "spawn", !.instance = warm[Skill]]
    /\ UNCHANGED <<queue, call, instance, warm, sent, accepted>>

Builds ==
    /\ worker.at = "build"
    /\ instance' = Append(instance, Fresh(Skill))
    /\ worker' = [worker EXCEPT !.at = "store", !.instance = Len(instance')]
    /\ UNCHANGED <<queue, call, warm, sent, accepted>>

LEMMA WorkerMoves ==
  ASSUME Typed, WorkerFits, WorkerStep \/ TimesOut
  PROVE  /\ worker.action \in Requests /\ Skill \in Skills
         /\ components' \subseteq Skills /\ paths' \subseteq Skills /\ faults' \in Nat
         /\ \/ \E u \in Updates : Replies(u)
            \/ \E place \in Places : MovesTo(place)
            \/ Reuses \/ Builds \/ Store \/ Spawn
<1>1. worker.at # "recv"
  BY DEF WorkerStep, Lookup, LoadComponent, CapabilityProviders, Build, Store, Spawn,
         Join, Evict, TimesOut
<1>2. worker.action \in Requests /\ Skill \in Skills BY <1>1, WorkerServes
<1>3. components' \subseteq Skills /\ paths' \subseteq Skills /\ faults' \in Nat
  BY <1>2 DEF WorkerStep, Lookup, LoadComponent, CapabilityProviders, Build, Store, Spawn,
              Join, Evict, TimesOut, caches, Typed
<1> DEFINE a == worker.action
<1>4. Failed(a) \in Updates /\ Completed(a) \in Updates /\ FailedCall(a) \in Updates
  BY <1>2, UpdatesAreTyped
<1> DEFINE R == \E u \in Updates : Replies(u)
           M == \E place \in Places : MovesTo(place)
<1>5. CASE Lookup
  <2>1. CASE warm[Skill] # Nothing BY <1>5, <2>1, <1>2, <1>3 DEF Lookup, Reuses, caches
  <2>2. CASE warm[Skill] = Nothing
    <3>1. MovesTo("load") BY <1>5, <2>2 DEF Lookup, MovesTo, caches
    <3>2. QED BY <3>1, <1>2, <1>3 DEF Places
  <2>3. QED BY <2>1, <2>2
<1>6. CASE LoadComponent
  <2>1. CASE Goes("providers")
    <3>1. MovesTo("providers") BY <1>6, <2>1 DEF LoadComponent, MovesTo, Goes
    <3>2. QED BY <3>1, <1>2, <1>3 DEF Places
  <2>2. CASE Answer(Failed(a))
    <3>1. Replies(Failed(a)) BY <1>1, <1>6, <2>2 DEF LoadComponent, Replies
    <3>2. QED BY <3>1, <1>2, <1>3, <1>4
  <2>3. QED BY <1>6, <2>1, <2>2 DEF LoadComponent
<1>7. CASE CapabilityProviders
  <2>1. CASE Goes("build")
    <3>1. MovesTo("build") BY <1>7, <2>1 DEF CapabilityProviders, MovesTo, Goes
    <3>2. QED BY <3>1, <1>2, <1>3 DEF Places
  <2>2. CASE Answer(Failed(a))
    <3>1. Replies(Failed(a)) BY <1>1, <1>7, <2>2 DEF CapabilityProviders, Replies
    <3>2. QED BY <3>1, <1>2, <1>3, <1>4
  <2>3. QED BY <1>7, <2>1, <2>2 DEF CapabilityProviders
<1>8. CASE Build
  <2>1. CASE Answer(Failed(a)) /\ UNCHANGED instance
    <3>1. Replies(Failed(a)) BY <1>1, <1>8, <2>1 DEF Build, Replies, caches
    <3>2. QED BY <3>1, <1>2, <1>3, <1>4
  <2>2. CASE ~(Answer(Failed(a)) /\ UNCHANGED instance)
    <3>1. Builds BY <1>8, <2>2 DEF Build, Builds, caches
    <3>2. QED BY <3>1, <1>2, <1>3
  <2>3. QED BY <2>1, <2>2
<1>9. CASE Store BY <1>2, <1>3, <1>9
<1>10. CASE Spawn BY <1>2, <1>3, <1>10
<1>11. CASE Join
  <2>1. CASE At(a, "ok") /\ Answer(Completed(a))
    <3>1. Replies(Completed(a)) BY <1>1, <1>11, <2>1 DEF Join, Replies, caches
    <3>2. QED BY <3>1, <1>2, <1>3, <1>4
  <2>2. CASE At(a, "error") /\ Goes("evict")
    <3>1. MovesTo("evict") BY <1>11, <2>2 DEF Join, MovesTo, Goes, caches
    <3>2. QED BY <3>1, <1>2, <1>3 DEF Places
  <2>3. CASE At(a, "panic") /\ Answer(FailedCall(a))
    <3>1. Replies(FailedCall(a)) BY <1>1, <1>11, <2>3 DEF Join, Replies, caches
    <3>2. QED BY <3>1, <1>2, <1>3, <1>4
  <2>4. QED BY <1>11, <2>1, <2>2, <2>3 DEF Join, At
<1>12. CASE Evict
  <2>1. Replies(FailedCall(a)) BY <1>1, <1>12 DEF Evict, Replies, Forgets
  <2>2. QED BY <2>1, <1>2, <1>3, <1>4
<1>13. CASE TimesOut
  <2>1. Replies(Failed(a)) BY <1>1, <1>13 DEF TimesOut, Replies, caches
  <2>2. QED BY <2>1, <1>2, <1>3, <1>4
<1>14. QED
  BY <1>5, <1>6, <1>7, <1>8, <1>9, <1>10, <1>11, <1>12, <1>13 DEF WorkerStep

(***************************************************************************)
(* The invariant is kept                                                   *)
(***************************************************************************)

LEMMA ReplyIsKept == ASSUME InstancesInv, NEW u \in Updates, Replies(u),
                            worker.action \in Requests, Skill \in Skills,
                            components' \subseteq Skills, paths' \subseteq Skills, faults' \in Nat
                     PROVE  InstancesInv'
<1>1. Idle \in Workers /\ worker' = Idle /\ sent' = Append(sent, u)
  BY DEF Replies, Answer, Idle, Workers, Places, Actions, Nothing
<1>2. sent' \in Seq(Updates) BY <1>1, AppendProperties DEF InstancesInv, Typed
<1>3. warm' \in [Skills -> Nat] BY DEF Replies, Forgets, InstancesInv, Typed, Nothing
<1>4. Typed' BY <1>1, <1>2, <1>3 DEF Replies, InstancesInv, Typed
<1>5. QueueFits'
  <2>1. ~Waits(Nothing)
    BY ElementOfSeq, LenProperties, RequestsAreNumbers DEF InstancesInv, Typed, Waits
  <2>2. QED BY <1>1, <2>1 DEF Replies, InstancesInv, QueueFits, Waits, At, Idle
<1>6. WorkerFits' BY <1>1 DEF WorkerFits, Idle
<1>7. ThreadsFit' BY DEF Replies, InstancesInv, ThreadsFit, At
<1>8. WarmFits' BY DEF Replies, Forgets, InstancesInv, Typed, WarmFits
<1>9. QED BY <1>4, <1>5, <1>6, <1>7, <1>8 DEF InstancesInv

LEMMA MoveIsKept == ASSUME InstancesInv, NEW place \in Places, MovesTo(place),
                           worker.action \in Requests, Skill \in Skills,
                           components' \subseteq Skills, paths' \subseteq Skills, faults' \in Nat
                    PROVE  InstancesInv'
<1>1. worker' \in Workers /\ worker'.at = place /\ worker'.action = worker.action
      /\ worker'.instance = worker.instance
  BY DEF MovesTo, InstancesInv, Typed, Workers
<1>2. Typed' BY <1>1 DEF MovesTo, InstancesInv, Typed
<1>3. QueueFits' BY <1>1 DEF MovesTo, InstancesInv, QueueFits, Waits, At
<1>4. WorkerFits'
  <2>1. Skill' = Skill BY <1>1 DEF Skill
  <2>2. QED BY <1>1, <2>1, RequestsAreNumbers DEF MovesTo, InstancesInv, WorkerFits, At
<1>5. ThreadsFit' BY DEF MovesTo, InstancesInv, ThreadsFit, At
<1>6. WarmFits' BY DEF MovesTo, InstancesInv, WarmFits
<1>7. QED BY <1>2, <1>3, <1>4, <1>5, <1>6 DEF InstancesInv

LEMMA ReuseIsKept == ASSUME InstancesInv, Reuses,
                            worker.action \in Requests, Skill \in Skills,
                            components' \subseteq Skills, paths' \subseteq Skills, faults' \in Nat
                     PROVE  InstancesInv'
<1>1. warm[Skill] \in Nat /\ warm[Skill] \in DOMAIN instance
      /\ instance[warm[Skill]].skill = Skill
  BY DEF Reuses, InstancesInv, Typed, WarmFits
<1>2. worker' \in Workers /\ worker'.at = "spawn" /\ worker'.action = worker.action
      /\ worker'.instance = warm[Skill]
  BY <1>1 DEF Reuses, InstancesInv, Typed, Workers, Places
<1>3. Typed' BY <1>2 DEF Reuses, InstancesInv, Typed
<1>4. QueueFits' BY <1>2 DEF Reuses, InstancesInv, QueueFits, Waits, At
<1>5. WorkerFits'
  <2>1. Skill' = Skill BY <1>2 DEF Skill
  <2>2. QED BY <1>1, <1>2, <2>1, RequestsAreNumbers DEF Reuses, InstancesInv, WorkerFits, At
<1>6. ThreadsFit' BY DEF Reuses, InstancesInv, ThreadsFit, At
<1>7. WarmFits' BY DEF Reuses, InstancesInv, WarmFits
<1>8. QED BY <1>3, <1>4, <1>5, <1>6, <1>7 DEF InstancesInv

LEMMA BuildIsKept == ASSUME InstancesInv, Builds,
                            worker.action \in Requests, Skill \in Skills,
                            components' \subseteq Skills, paths' \subseteq Skills, faults' \in Nat
                     PROVE  InstancesInv'
<1> DEFINE new == Len(instance')
<1>1. Fresh(Skill) \in Instances /\ Fresh(Skill).skill = Skill /\ Fresh(Skill).holder = Nothing
  BY DEF Fresh, Instances, Actions, States
<1>2. /\ instance' \in Seq(Instances) /\ new \in Nat
      /\ DOMAIN instance' = DOMAIN instance \cup {new} /\ new \notin DOMAIN instance
      /\ instance'[new] = Fresh(Skill)
      /\ \A j \in DOMAIN instance : instance'[j] = instance[j]
  BY <1>1, InstanceGrows DEF Builds, InstancesInv
<1>3. worker' \in Workers /\ worker'.at = "store" /\ worker'.action = worker.action
      /\ worker'.instance = new
  BY <1>2 DEF Builds, InstancesInv, Typed, Workers, Places
<1>4. Typed' BY <1>2, <1>3 DEF Builds, InstancesInv, Typed
<1>5. QueueFits' BY <1>3 DEF Builds, InstancesInv, QueueFits, Waits, At
<1>6. WorkerFits'
  <2>1. Skill' = Skill BY <1>3 DEF Skill
  <2>2. QED BY <1>1, <1>2, <1>3, <2>1, RequestsAreNumbers DEF Builds, InstancesInv, WorkerFits, At
<1>7. ThreadsFit' BY <1>1, <1>2 DEF Builds, InstancesInv, ThreadsFit, At
<1>8. WarmFits' BY <1>2 DEF Builds, InstancesInv, WarmFits
<1>9. QED BY <1>4, <1>5, <1>6, <1>7, <1>8 DEF InstancesInv

LEMMA StoreIsKept == ASSUME InstancesInv, Store,
                            worker.action \in Requests, Skill \in Skills,
                            components' \subseteq Skills, paths' \subseteq Skills, faults' \in Nat
                     PROVE  InstancesInv'
<1>1. worker.instance \in Nat /\ worker.instance \in DOMAIN instance
      /\ instance[worker.instance].skill = Skill
  BY DEF Store, InstancesInv, Typed, WorkerFits, Workers
<1>2. warm' \in [Skills -> Nat] /\ \A s \in Skills : s # Skill => warm'[s] = warm[s]
  BY <1>1 DEF Store, InstancesInv, Typed
<1>3. warm'[Skill] \in DOMAIN instance /\ instance[warm'[Skill]].skill = Skill
  <2>1. warm'[Skill] = IF warm[Skill] = Nothing THEN worker.instance ELSE warm[Skill]
    BY DEF Store, InstancesInv, Typed
  <2>2. QED BY <1>1, <2>1 DEF InstancesInv, WarmFits
<1>4. worker' \in Workers /\ worker'.at = "spawn" /\ worker'.action = worker.action
      /\ worker'.instance = warm'[Skill]
  BY <1>2 DEF Store, InstancesInv, Typed, Workers, Places
<1>5. Typed' BY <1>2, <1>4 DEF Store, InstancesInv, Typed
<1>6. QueueFits' BY <1>4 DEF Store, InstancesInv, QueueFits, Waits, At
<1>7. WorkerFits'
  <2>1. Skill' = Skill BY <1>4 DEF Skill
  <2>2. QED BY <1>3, <1>4, <2>1, RequestsAreNumbers DEF Store, InstancesInv, WorkerFits, At
<1>8. ThreadsFit' BY DEF Store, InstancesInv, ThreadsFit, At
<1>9. WarmFits' BY <1>2, <1>3 DEF Store, InstancesInv, WarmFits
<1>10. QED BY <1>5, <1>6, <1>7, <1>8, <1>9 DEF InstancesInv

LEMMA SpawnIsKept == ASSUME InstancesInv, Spawn,
                            worker.action \in Requests, Skill \in Skills
                     PROVE  InstancesInv'
<1> DEFINE a == worker.action
           c == [NoCall EXCEPT !.at = "begin", !.instance = worker.instance]
<1>1. At(a, "none") /\ worker.instance \in DOMAIN instance /\ worker.instance \in Nat
      /\ instance[worker.instance].skill = Skill /\ a \in accepted /\ a # Nothing
      /\ worker.at = "spawn"
  BY RequestsAreNumbers DEF Spawn, InstancesInv, Typed, Workers, WorkerFits
<1>2. c \in Calls /\ c.at = "begin" /\ c.instance = worker.instance
  BY <1>1 DEF NoCall, Calls, Stages, States, Actions
<1>3. /\ call' \in [Requests -> Calls] /\ call'[a] = c
      /\ \A b \in Requests : b # a => call'[b] = call[b]
  BY <1>2 DEF Spawn, InstancesInv, Typed
<1>4. worker' \in Workers /\ worker'.at = "join" /\ worker'.action = a
      /\ worker'.instance = worker.instance
  BY DEF Spawn, Goes, InstancesInv, Typed, Workers, Places
<1>5. Typed' BY <1>3, <1>4 DEF Spawn, Goes, caches, InstancesInv, Typed
<1>6. QueueFits'
  <2>1. \A k \in DOMAIN queue : queue[k] \in Requests /\ queue[k] # a
    BY ElementOfSeq, LenProperties DEF InstancesInv, Typed, QueueFits, Waits
  <2>2. QED BY <1>1, <1>3, <1>4, <2>1 DEF Spawn, InstancesInv, QueueFits, Waits, At
<1>7. WorkerFits'
  <2>1. Skill' = Skill BY <1>4 DEF Skill
  <2>2. QED BY <1>1, <1>2, <1>3, <1>4, <2>1 DEF Spawn, WorkerFits, At
<1>8. ThreadsFit'
  <2>1. \A i \in DOMAIN instance : instance[i].holder # Nothing =>
           instance[i].holder \in Requests /\ instance[i].holder # a
    <3>1. \A i \in DOMAIN instance : instance[i] \in Instances
      BY ElementOfSeq, LenProperties DEF InstancesInv, Typed
    <3>2. QED BY <1>1, <3>1 DEF Instances, Actions, InstancesInv, ThreadsFit, At
  <2>2. QED BY <1>1, <1>2, <1>3, <2>1 DEF Spawn, InstancesInv, ThreadsFit, At
<1>9. WarmFits' BY DEF Spawn, caches, InstancesInv, WarmFits
<1>10. QED BY <1>5, <1>6, <1>7, <1>8, <1>9 DEF InstancesInv

LEMMA ClaimIsKept == ASSUME InstancesInv, Claim PROVE InstancesInv'
<1> DEFINE a == Head(queue)
<1>1. a \in Requests /\ Tail(queue) \in Seq(Requests) /\ Len(Tail(queue)) = Len(queue) - 1
      /\ Len(queue) \in Nat \ {0} /\ a = queue[1] /\ a # Nothing
      /\ \A k \in 1 .. Len(Tail(queue)) : Tail(queue)[k] = queue[k + 1]
  BY HeadTailProperties, EmptySeq, RequestsAreNumbers DEF Claim, InstancesInv, Typed
<1>2. a \in accepted /\ At(a, "none")
  BY <1>1, LenProperties DEF InstancesInv, Typed, QueueFits
<1>3. worker' \in Workers /\ worker'.at = "lookup" /\ worker'.action = a
      /\ worker'.instance = Nothing
  BY <1>1 DEF Claim, Idle, Workers, Places, Actions, Nothing
<1>4. Claimed(a) \in Updates BY <1>1, UpdatesAreTyped DEF InstancesInv
<1>5. sent' \in Seq(Updates) BY <1>4, AppendProperties DEF Claim, InstancesInv, Typed
<1>6. Typed' BY <1>1, <1>3, <1>5 DEF Claim, caches, InstancesInv, Typed
<1>7. QueueFits'
  <2>1. \A k \in DOMAIN queue' : k + 1 \in DOMAIN queue /\ queue'[k] = queue[k + 1]
                                 /\ k \in Nat \ {0} /\ 1 \in DOMAIN queue
    BY <1>1, LenProperties DEF Claim, InstancesInv, Typed
  <2>2. \A k \in DOMAIN queue' : queue'[k] # a BY <1>1, <2>1 DEF InstancesInv, QueueFits
  <2>3. QED BY <1>3, <2>1, <2>2 DEF Claim, InstancesInv, QueueFits, Waits, At
<1>8. WorkerFits' BY <1>1, <1>2, <1>3 DEF Claim, WorkerFits, At
<1>9. ThreadsFit' BY DEF Claim, InstancesInv, ThreadsFit, At
<1>10. WarmFits' BY DEF Claim, caches, InstancesInv, WarmFits
<1>11. QED BY <1>6, <1>7, <1>8, <1>9, <1>10 DEF InstancesInv

LEMMA EnqueueIsKept == ASSUME InstancesInv, NEW a \in Requests, Enqueue(a) PROVE InstancesInv'
<1>1. /\ queue' \in Seq(Requests) /\ Len(queue) \in Nat
      /\ DOMAIN queue = 1 .. Len(queue)
      /\ DOMAIN queue' = DOMAIN queue \cup {Len(queue) + 1}
      /\ queue'[Len(queue) + 1] = a
      /\ \A k \in DOMAIN queue : queue'[k] = queue[k]
  BY AppendProperties, LenProperties DEF Enqueue, InstancesInv, Typed
<1>2. Typed' BY <1>1 DEF Enqueue, caches, InstancesInv, Typed
<1>3. QueueFits'
  <2>1. \A k \in DOMAIN queue : queue[k] # a BY DEF Enqueue, InstancesInv, QueueFits
  <2>2. worker.action # a
    BY RequestsAreNumbers DEF Enqueue, InstancesInv, WorkerFits
  <2>3. ~Waits(worker.action)' BY <1>1, <2>2 DEF Enqueue, InstancesInv, QueueFits, Waits
  <2>4. At(a, "none") BY DEF Enqueue, InstancesInv, QueueFits
  <2>5. \A k \in DOMAIN queue' : queue'[k] \in accepted' /\ call'[queue'[k]].at = "none"
    BY <1>1, <2>4 DEF Enqueue, InstancesInv, QueueFits, At
  <2>6. \A k, l \in DOMAIN queue' : queue'[k] = queue'[l] => k = l
    BY <1>1, <2>1 DEF InstancesInv, QueueFits
  <2>7. QED BY <2>3, <2>5, <2>6 DEF Enqueue, InstancesInv, QueueFits, At
<1>4. WorkerFits' BY DEF Enqueue, InstancesInv, WorkerFits, At, Skill
<1>5. ThreadsFit' BY DEF Enqueue, InstancesInv, ThreadsFit, At
<1>6. WarmFits' BY DEF Enqueue, caches, InstancesInv, WarmFits
<1>7. QED BY <1>2, <1>3, <1>4, <1>5, <1>6 DEF InstancesInv

LEMMA ThreadIsKept == ASSUME InstancesInv, NEW a \in Requests, ThreadStep(a)
                      PROVE  InstancesInv'
<1> DEFINE i == call[a].instance
<1>1. i \in DOMAIN instance /\ call[a] \in Calls /\ instance[i] \in Instances
  BY ThreadsMove DEF InstancesInv
<1>2. PICK c \in Calls, x \in Instances :
        /\ call' = [call EXCEPT ![a] = c]
        /\ instance' = [instance EXCEPT ![i] = x]
        /\ ThreadMoves(a, call[a], instance[i], c, x)
  BY ThreadsMove DEF InstancesInv
<1>3. /\ call' \in [Requests -> Calls] /\ call'[a] = c
      /\ \A b \in Requests : b # a => call'[b] = call[b]
  BY <1>2 DEF InstancesInv, Typed
<1>4. /\ instance' \in Seq(Instances) /\ DOMAIN instance' = DOMAIN instance
      /\ instance'[i] = x /\ \A j \in DOMAIN instance : j # i => instance'[j] = instance[j]
  BY <1>1, <1>2, InstanceChanges DEF InstancesInv
<1>5. c.instance = i /\ x.skill = instance[i].skill /\ call[a].at # "none" /\ c.at # "none"
  BY <1>2 DEF ThreadMoves, FailsAtOnce, Begins, Takes, Ends
<1>6. UNCHANGED <<queue, worker, warm, components, paths, sent, accepted, faults>>
  BY DEF ThreadStep, caches
<1>7. Typed' BY <1>3, <1>4, <1>6 DEF InstancesInv, Typed
<1>8. QueueFits'
  <2>1. \A k \in DOMAIN queue : queue[k] \in Requests /\ queue[k] # a
    BY <1>5, ElementOfSeq, LenProperties DEF InstancesInv, Typed, QueueFits, At
  <2>2. \A b \in Requests : ~At(b, "none")' => b \in accepted
    BY <1>3, <1>5 DEF InstancesInv, QueueFits, At
  <2>3. QED BY <1>3, <1>6, <2>1, <2>2 DEF InstancesInv, QueueFits, Waits, At
<1>9. WorkerFits'
  <2>1. worker.action = a => worker.at \in {"recv", "join", "evict"}
    BY <1>5 DEF InstancesInv, WorkerFits, At
  <2>2. worker.at = "evict" => worker.action # a
    BY <1>2 DEF InstancesInv, WorkerFits, At, ThreadMoves, FailsAtOnce, Begins, Takes, Ends
  <2>3. worker.at \in {"store", "spawn", "join", "evict"} =>
           instance'[worker.instance].skill = Skill
    BY <1>4, <1>5 DEF InstancesInv, WorkerFits
  <2>4. worker.at # "recv" => worker.action \in Requests
    BY DEF InstancesInv, Typed, WorkerFits, Workers, Actions
  <2>5. worker.at \notin {"recv", "join", "evict"} => At(worker.action, "none")'
    BY <1>3, <1>6, <2>1, <2>4 DEF InstancesInv, WorkerFits, At
  <2>6. worker.at \in {"join", "evict"} =>
           ~At(worker.action, "none")' /\ call'[worker.action].instance = worker.instance
    BY <1>3, <1>5, <1>6, <2>4 DEF InstancesInv, WorkerFits, At
  <2>7. worker.at = "evict" => At(worker.action, "error")'
    BY <1>3, <1>6, <2>2, <2>4 DEF InstancesInv, WorkerFits, At
  <2>8. QED
    BY <1>4, <1>6, <2>3, <2>5, <2>6, <2>7 DEF InstancesInv, WorkerFits, Skill
<1>10. ThreadsFit'
  <2>1. \A b \in Requests : /\ At(b, "none")' => call'[b].instance = Nothing
                            /\ ~At(b, "none")' => call'[b].instance \in DOMAIN instance'
    BY <1>1, <1>3, <1>4, <1>5 DEF InstancesInv, ThreadsFit, At
  <2>2. \A j \in DOMAIN instance : instance[j].holder \in Actions
    <3>1. \A j \in DOMAIN instance : instance[j] \in Instances
      BY ElementOfSeq, LenProperties DEF InstancesInv, Typed
    <3>2. QED BY <3>1 DEF Instances
  <2>3. At(a, "calling") => instance[i].holder = a BY DEF InstancesInv, ThreadsFit
  <2>4. ASSUME NEW b \in Requests, At(b, "calling")'
        PROVE  instance'[call'[b].instance].holder = b
    <3>1. CASE b = a
      BY <1>3, <1>4, <1>5, <1>2, <2>4, <3>1
      DEF At, ThreadMoves, FailsAtOnce, Begins, Takes, Ends
    <3>2. CASE b # a
      <4>1. At(b, "calling") /\ call'[b] = call[b] BY <1>3, <2>4, <3>2 DEF At
      <4>2. call[b].instance \in DOMAIN instance /\ instance[call[b].instance].holder = b
        BY <4>1 DEF InstancesInv, ThreadsFit, At
      <4>3. CASE call[b].instance # i BY <1>4, <4>1, <4>2, <4>3
      <4>4. CASE call[b].instance = i
        <5>1. x.holder = instance[i].holder
          BY <1>2, <2>3, <3>2, <4>2, <4>4, RequestsAreNumbers
          DEF At, ThreadMoves, FailsAtOnce, Begins, Takes, Ends
        <5>2. QED BY <1>4, <4>1, <4>2, <4>4, <5>1
      <4>5. QED BY <4>3, <4>4
    <3>3. QED BY <3>1, <3>2
  <2>5. ASSUME NEW j \in DOMAIN instance, instance'[j].holder # Nothing
        PROVE  /\ call'[instance'[j].holder].at = "calling"
               /\ call'[instance'[j].holder].instance = j
    <3> DEFINE h == instance'[j].holder
    <3>1. CASE instance'[j].holder = instance[j].holder /\ h # a
      BY <1>3, <2>2, <2>5, <3>1 DEF InstancesInv, ThreadsFit, At, Actions
    <3>2. CASE instance'[j].holder = instance[j].holder /\ h = a
      <4>1. call[a].at = "calling" /\ j = i
        BY <2>5, <3>2 DEF InstancesInv, ThreadsFit, At
      <4>2. x.holder = Nothing
        BY <1>2, <4>1 DEF ThreadMoves, FailsAtOnce, Begins, Takes, Ends
      <4>3. QED BY <1>4, <2>5, <4>1, <4>2
    <3>3. CASE instance'[j].holder # instance[j].holder
      <4>1. j = i /\ x.holder # instance[i].holder BY <1>4, <3>3
      <4>2. c.at = "calling" /\ x.holder = a
        BY <1>2, <1>4, <2>5, <4>1 DEF ThreadMoves, FailsAtOnce, Begins, Takes, Ends
      <4>3. QED BY <1>3, <1>4, <1>5, <4>1, <4>2
    <3>4. QED BY <3>1, <3>2, <3>3
  <2>6. QED BY <1>4, <2>1, <2>4, <2>5 DEF ThreadsFit, At
<1>11. WarmFits' BY <1>4, <1>5, <1>6 DEF InstancesInv, WarmFits
<1>12. QED BY <1>7, <1>8, <1>9, <1>10, <1>11 DEF InstancesInv

LEMMA InvariantStarts == ASSUME InstancesInit PROVE InstancesInv
<1>1. Idle \in Workers BY DEF Idle, Workers, Places, Actions, Nothing
<1>2. NoCall \in Calls /\ NoCall.at = "none" /\ NoCall.instance = Nothing
  BY DEF NoCall, Calls, Stages, States, Actions, Nothing
<1>3. Typed BY <1>1, <1>2, EmptySeq DEF InstancesInit, Typed, Nothing
<1>4. DOMAIN instance = {} /\ DOMAIN queue = {} BY EmptySeq DEF InstancesInit
<1>5. QueueFits BY <1>2, <1>4 DEF InstancesInit, QueueFits, Waits, At
<1>6. WorkerFits BY DEF InstancesInit, WorkerFits, Idle
<1>7. ThreadsFit BY <1>2, <1>4 DEF InstancesInit, ThreadsFit, At
<1>8. WarmFits BY DEF InstancesInit, WarmFits
<1>9. QED BY <1>3, <1>5, <1>6, <1>7, <1>8 DEF InstancesInv

LEMMA InvariantIsKept == ASSUME InstancesInv, [InstancesNext]_vars PROVE InstancesInv'
<1>1. CASE Claim BY <1>1, ClaimIsKept
<1>2. CASE WorkerStep \/ TimesOut
  <2>1. /\ worker.action \in Requests /\ Skill \in Skills
        /\ components' \subseteq Skills /\ paths' \subseteq Skills /\ faults' \in Nat
        /\ \/ \E u \in Updates : Replies(u)
           \/ \E place \in Places : MovesTo(place)
           \/ Reuses \/ Builds \/ Store \/ Spawn
    BY <1>2, WorkerMoves DEF InstancesInv
  <2>2. QED
    BY <2>1, ReplyIsKept, MoveIsKept, ReuseIsKept, BuildIsKept, StoreIsKept, SpawnIsKept
<1>3. ASSUME NEW a \in Requests, Enqueue(a) PROVE InstancesInv' BY <1>3, EnqueueIsKept
<1>4. ASSUME NEW a \in Requests, ThreadStep(a) PROVE InstancesInv' BY <1>4, ThreadIsKept
<1>5. CASE UNCHANGED vars
  BY <1>5 DEF vars, caches, InstancesInv, Typed, QueueFits, WorkerFits, ThreadsFit, WarmFits,
              Waits, At, Skill
<1>6. QED BY <1>1, <1>2, <1>3, <1>4, <1>5 DEF InstancesNext

(* In every reachable state the queue, the worker, the threads, the        *)
(* instances and the cache fit together as the parts of InstancesInv say.  *)
THEOREM InstancesFit == InstancesSpec => []InstancesInv
<1>1. InstancesInit => InstancesInv BY InvariantStarts
<1>2. InstancesInv /\ [InstancesNext]_vars => InstancesInv' BY InvariantIsKept
<1>3. QED BY <1>1, <1>2, PTL DEF InstancesSpec

(* The variables keep their types, and the mutex of an instance is held by *)
(* exactly the one thread that calls into it, whatever was given up        *)
(* meanwhile (execute_sync in action.rs).                                  *)
THEOREM InstancesAreTyped == InstancesSpec => []InstancesTypeOK
<1>1. ASSUME InstancesInv PROVE InstancesTypeOK
  <2>1. /\ queue \in Seq(Requests) /\ worker.action \in Requests \cup {Nothing}
        /\ worker.at \in Places /\ components \subseteq Skills /\ paths \subseteq Skills
    BY <1>1 DEF InstancesInv, Typed, Workers, Actions
  <2>2. DOMAIN instance = 1 .. Len(instance) /\ Len(instance) \in Nat
    BY <1>1, LenProperties DEF InstancesInv, Typed
  <2>3. warm \in [Skills -> 0 .. Len(instance)]
        /\ \A s \in Skills : warm[s] # Nothing => instance[warm[s]].skill = s
    BY <1>1, <2>2 DEF InstancesInv, Typed, WarmFits, Nothing
  <2>4. ASSUME NEW a \in Requests
        PROVE  /\ call[a].at \in Stages /\ call[a].instance \in 0 .. Len(instance)
               /\ At(a, "calling") <=> \E i \in DOMAIN instance : instance[i].holder = a
               /\ At(a, "calling") => instance[call[a].instance].holder = a
    <3>1. call[a].at \in Stages BY <1>1 DEF InstancesInv, Typed, Calls
    <3>2. call[a].instance \in 0 .. Len(instance)
      BY <1>1, <2>2 DEF InstancesInv, ThreadsFit, Nothing
    <3>3. At(a, "calling") =>
            call[a].instance \in DOMAIN instance /\ instance[call[a].instance].holder = a
      BY <1>1 DEF InstancesInv, ThreadsFit, At
    <3>4. ASSUME NEW i \in DOMAIN instance, instance[i].holder = a PROVE At(a, "calling")
      BY <1>1, <3>4, RequestsAreNumbers DEF InstancesInv, ThreadsFit
    <3>5. QED BY <3>1, <3>2, <3>3, <3>4
  <2>5. QED BY <2>1, <2>3, <2>4 DEF InstancesTypeOK, Places, Stages
<1>2. QED BY <1>1, InstancesFit, PTL

(***************************************************************************)
(* A failed instance answers one later action at most                      *)
(***************************************************************************)

LEMMA SentGrows ==
  ASSUME Typed, NEW u \in Updates, sent' = Append(sent, u)
  PROVE  \E new \in Nat :
           /\ DOMAIN sent' = DOMAIN sent \cup {new} /\ new \notin DOMAIN sent
           /\ sent'[new] = u /\ \A n \in DOMAIN sent : sent'[n] = sent[n]
<1>1. sent \in Seq(Updates) BY DEF Typed
<1>2. Len(sent) + 1 \in Nat /\ DOMAIN sent = 1 .. Len(sent) BY <1>1, LenProperties
<1>3. DOMAIN sent' = 1 .. Len(sent) + 1 /\ sent'[Len(sent) + 1] = u
      /\ \A n \in 1 .. Len(sent) : sent'[n] = sent[n]
  BY <1>1, AppendProperties, LenProperties
<1>4. DOMAIN sent' = DOMAIN sent \cup {Len(sent) + 1} /\ Len(sent) + 1 \notin DOMAIN sent
  BY <1>2, <1>3
<1>5. QED BY <1>2, <1>3, <1>4

LEMMA InstancesAreNumbered ==
  ASSUME Typed PROVE Nothing \notin DOMAIN instance
BY LenProperties DEF Typed, Nothing

LEMMA FoundIsKept == ASSUME InstancesInv, FoundFits, InstancesNext PROVE FoundFits'
<1>1. CASE UNCHANGED <<call, instance>> BY <1>1 DEF FoundFits, At
<1>2. CASE Builds
  <2>1. Fresh(Skill) \in Instances
    BY <1>2, WorkerServes DEF Fresh, Instances, Actions, States, Builds, InstancesInv
  <2>2. \A j \in DOMAIN instance : instance'[j] = instance[j]
    BY <1>2, <2>1, InstanceGrows DEF Builds, InstancesInv
  <2>3. QED BY <1>2, <2>2 DEF Builds, FoundFits, InstancesInv, ThreadsFit, At
<1>3. CASE Spawn
  <2>1. \A b \in Requests :
          call'[b] = call[b] \/ (call'[b].at = "begin" /\ call'[b].found = "sound")
    BY <1>3 DEF Spawn, NoCall, InstancesInv, Typed
  <2>2. QED BY <1>3, <2>1 DEF Spawn, FoundFits, At
<1>4. ASSUME NEW a \in Requests, ThreadStep(a) PROVE FoundFits'
  <2> DEFINE i == call[a].instance
  <2>1. i \in DOMAIN instance BY <1>4, ThreadsMove DEF InstancesInv
  <2>2. PICK c \in Calls, x \in Instances :
          /\ call' = [call EXCEPT ![a] = c]
          /\ instance' = [instance EXCEPT ![i] = x]
          /\ ThreadMoves(a, call[a], instance[i], c, x)
    BY <1>4, ThreadsMove DEF InstancesInv
  <2>3. /\ call'[a] = c /\ c.instance = i
        /\ \A b \in Requests : b # a => call'[b] = call[b]
    BY <2>2 DEF InstancesInv, Typed, ThreadMoves
  <2>4. instance'[i] = x /\ \A j \in DOMAIN instance : j # i => instance'[j] = instance[j]
    BY <2>1, <2>2, InstanceChanges DEF InstancesInv
  <2>5. call[a].at = "calling" => call[a].found = instance[i].state /\ instance[i].holder = a
    BY DEF InstancesInv, ThreadsFit, FoundFits, At
  <2>6. call[a].at \in {"none", "begin", "lock", "panic"} => call[a].found = "sound"
    BY DEF FoundFits
  <2>7. c.at = "calling" => c.found = x.state
    BY <2>2 DEF ThreadMoves, FailsAtOnce, Begins, Takes, Ends
  <2>8. c.at \in {"none", "begin", "lock", "panic"} => c.found = "sound"
    BY <2>2, <2>5, <2>6 DEF ThreadMoves, FailsAtOnce, Begins, Takes, Ends
  <2>9. ASSUME NEW b \in Requests, b # a, call[b].at = "calling"
        PROVE  call[b].found = instance'[call[b].instance].state
    <3>1. /\ call[b].instance \in DOMAIN instance
          /\ instance[call[b].instance].holder = b
          /\ call[b].found = instance[call[b].instance].state
      BY <2>9 DEF InstancesInv, ThreadsFit, FoundFits, At
    <3>2. CASE call[b].instance # i BY <2>4, <3>1, <3>2
    <3>3. CASE call[b].instance = i
      <4>1. x.state = instance[i].state
        BY <2>2, <2>5, <2>9, <3>1, <3>3, RequestsAreNumbers
        DEF ThreadMoves, FailsAtOnce, Begins, Takes, Ends
      <4>2. QED BY <2>4, <3>1, <3>3, <4>1
    <3>4. QED BY <3>2, <3>3
  <2>10. QED BY <2>3, <2>4, <2>7, <2>8, <2>9 DEF FoundFits, At
<1>5. CASE WorkerStep \/ TimesOut
  <2>1. \/ \E u \in Updates : Replies(u)
        \/ \E place \in Places : MovesTo(place)
        \/ Reuses \/ Builds \/ Store \/ Spawn
    BY <1>5, WorkerMoves DEF InstancesInv
  <2>2. QED BY <1>1, <1>2, <1>3, <2>1 DEF Replies, MovesTo, Reuses, Store
<1>6. QED BY <1>1, <1>4, <1>5 DEF InstancesNext, Claim, Enqueue

(* What the worker answers of a spoiled instance, it answers once, when    *)
(* the cache forgets the instance.                                         *)
LEMMA SpoiledReply ==
  ASSUME InstancesInv, FoundFits, NEW u \in Updates, Replies(u), u.found = "spoiled"
  PROVE  /\ u.instance = worker.instance /\ u.instance \in DOMAIN instance
         /\ \A s \in Skills : warm'[s] # worker.instance
<1>1. worker.action \in Requests BY WorkerServes DEF Replies, InstancesInv
<1>2. worker.at = "evict" /\ u = FailedCall(worker.action) /\ Forgets
  BY <1>1, UpdatesSay DEF Replies, InstancesInv, FoundFits, At
<1>3. u.instance = worker.instance /\ worker.instance \in DOMAIN instance
      /\ instance[worker.instance].skill = Skill
  BY <1>1, <1>2, UpdatesSay DEF InstancesInv, WorkerFits
<1>4. ASSUME NEW s \in Skills PROVE warm'[s] # worker.instance
  <2>1. warm'[s] = IF s = Skill THEN Nothing ELSE warm[s]
    BY <1>2 DEF Forgets, InstancesInv, Typed
  <2>2. QED BY <1>3, <2>1, InstancesAreNumbered DEF InstancesInv, WarmFits
<1>5. QED BY <1>3, <1>4

LEMMA SpoiledIsKept ==
  ASSUME InstancesInv, SpoiledInv, InstancesNext
  PROVE  SpoiledIsGone' /\ SpoiledDiffer'
<1> USE DEF SpoiledInv
<1>1. DOMAIN instance \subseteq DOMAIN instance'
  <2>1. CASE Builds
    <3>1. Fresh(Skill) \in Instances
      BY <2>1, WorkerServes DEF Fresh, Instances, Actions, States, Builds, InstancesInv
    <3>2. QED BY <2>1, <3>1, InstanceGrows DEF Builds, InstancesInv
  <2>2. ASSUME NEW a \in Requests, ThreadStep(a) PROVE DOMAIN instance' = DOMAIN instance
    <3>1. PICK x \in Instances : instance' = [instance EXCEPT ![call[a].instance] = x]
      BY <2>2, ThreadsMove DEF InstancesInv
    <3>2. QED BY <3>1
  <2>3. CASE WorkerStep \/ TimesOut
    BY <2>1, <2>3, WorkerMoves DEF InstancesInv, Replies, MovesTo, Reuses, Store, Spawn
  <2>4. QED BY <2>2, <2>3 DEF InstancesNext, Claim, Enqueue
<1>2. ASSUME UNCHANGED sent,
             \A n \in DOMAIN sent : Spoiled(n) => worker'.instance # sent[n].instance,
             \A n \in DOMAIN sent : Spoiled(n) =>
                \A s \in Skills : warm'[s] # sent[n].instance
      PROVE  SpoiledIsGone' /\ SpoiledDiffer'
  <2>1. \A n \in DOMAIN sent : Spoiled(n)' <=> Spoiled(n) BY <1>2 DEF Spoiled, Answers
  <2>2. QED BY <1>1, <1>2, <2>1 DEF SpoiledIsGone, SpoiledDiffer
<1>3. ASSUME NEW u \in Updates, sent' = Append(sent, u), worker'.instance = Nothing,
             \A s \in Skills : warm'[s] = warm[s] \/ warm'[s] = Nothing,
             u.found = "spoiled" =>
                /\ u.instance = worker.instance /\ u.instance \in DOMAIN instance
                /\ \A s \in Skills : warm'[s] # worker.instance
      PROVE  SpoiledIsGone' /\ SpoiledDiffer'
  <2>1. PICK new \in Nat :
          /\ DOMAIN sent' = DOMAIN sent \cup {new} /\ new \notin DOMAIN sent
          /\ sent'[new] = u /\ \A n \in DOMAIN sent : sent'[n] = sent[n]
    BY <1>3, SentGrows DEF InstancesInv
  <2>2. \A n \in DOMAIN sent : Spoiled(n)' <=> Spoiled(n) BY <2>1 DEF Spoiled, Answers
  <2>3. Spoiled(new)' => u.found = "spoiled" BY <2>1 DEF Spoiled
  <2>4. Nothing \notin DOMAIN instance BY InstancesAreNumbered DEF InstancesInv
  <2>5. ASSUME NEW n \in DOMAIN sent, Spoiled(n)
        PROVE  /\ sent[n].instance \in DOMAIN instance
               /\ worker.instance # sent[n].instance /\ worker'.instance # sent[n].instance
               /\ \A s \in Skills : warm'[s] # sent[n].instance
    BY <1>3, <2>4, <2>5 DEF SpoiledIsGone
  <2>6. SpoiledIsGone' BY <1>1, <1>3, <2>1, <2>2, <2>3, <2>4, <2>5 DEF SpoiledIsGone
  <2>7. SpoiledDiffer' BY <1>3, <2>1, <2>2, <2>3, <2>5 DEF SpoiledDiffer
  <2>8. QED BY <2>6, <2>7
<1>4. CASE Claim
  <2>1. Head(queue) \in Requests BY <1>4, HeadTailProperties DEF Claim, InstancesInv, Typed
  <2>2. Claimed(Head(queue)) \in Updates /\ Claimed(Head(queue)).found = "sound"
    BY <2>1, UpdatesAreTyped, UpdatesSay DEF InstancesInv
  <2>3. worker'.instance = Nothing BY <1>4 DEF Claim, Idle
  <2>4. QED BY <1>3, <1>4, <2>2, <2>3 DEF Claim, caches
<1>5. ASSUME NEW u \in Updates, Replies(u) PROVE SpoiledIsGone' /\ SpoiledDiffer'
  <2>1. sent' = Append(sent, u) /\ worker'.instance = Nothing BY <1>5 DEF Replies, Answer, Idle
  <2>2. \A s \in Skills : warm'[s] = warm[s] \/ warm'[s] = Nothing
    BY <1>5 DEF Replies, Forgets, InstancesInv, Typed
  <2>3. QED BY <1>3, <1>5, <2>1, <2>2, SpoiledReply
<1>6. ASSUME NEW place \in Places, MovesTo(place) PROVE SpoiledIsGone' /\ SpoiledDiffer'
  <2>1. worker'.instance = worker.instance BY <1>6 DEF MovesTo, InstancesInv, Typed, Workers
  <2>2. QED BY <1>2, <1>6, <2>1 DEF MovesTo, SpoiledIsGone
<1>7. CASE Reuses
  <2>1. worker'.instance = warm[Skill] /\ Skill \in Skills
    BY <1>7, WorkerServes DEF Reuses, InstancesInv, Typed, Workers
  <2>2. QED BY <1>2, <1>7, <2>1 DEF Reuses, SpoiledIsGone
<1>8. CASE Builds
  <2>1. Fresh(Skill) \in Instances
    BY <1>8, WorkerServes DEF Fresh, Instances, Actions, States, Builds, InstancesInv
  <2>2. Len(instance') \notin DOMAIN instance
    BY <1>8, <2>1, InstanceGrows DEF Builds, InstancesInv
  <2>3. worker'.instance = Len(instance')
    BY <1>8 DEF Builds, InstancesInv, Typed, Workers
  <2>4. QED BY <1>2, <1>8, <2>2, <2>3 DEF Builds, SpoiledIsGone
<1>9. CASE Store
  <2>1. Skill \in Skills BY <1>9, WorkerServes DEF Store, InstancesInv
  <2>2. \A s \in Skills : warm'[s] = warm[s] \/ warm'[s] = worker.instance
    BY <1>9 DEF Store, InstancesInv, Typed
  <2>3. worker'.instance = warm'[Skill] BY <1>9 DEF Store, InstancesInv, Typed, Workers
  <2>4. QED BY <1>2, <1>9, <2>1, <2>2, <2>3 DEF Store, SpoiledIsGone
<1>10. CASE Spawn
  <2>1. worker'.instance = worker.instance BY <1>10 DEF Spawn, Goes, InstancesInv, Typed, Workers
  <2>2. QED BY <1>2, <1>10, <2>1 DEF Spawn, Goes, caches, SpoiledIsGone
<1>11. CASE WorkerStep \/ TimesOut
  <2>1. \/ \E u \in Updates : Replies(u)
        \/ \E place \in Places : MovesTo(place)
        \/ Reuses \/ Builds \/ Store \/ Spawn
    BY <1>11, WorkerMoves DEF InstancesInv
  <2>2. QED BY <1>5, <1>6, <1>7, <1>8, <1>9, <1>10, <2>1
<1>12. CASE UNCHANGED <<sent, worker, warm>> BY <1>2, <1>12 DEF SpoiledIsGone
<1>13. QED BY <1>4, <1>11, <1>12 DEF InstancesNext, Enqueue, ThreadStep, caches

LEMMA SpoiledInvariant == InstancesSpec => []SpoiledInv
<1>1. ASSUME InstancesInit PROVE SpoiledInv
  <2>1. DOMAIN sent = {} BY <1>1, EmptySeq DEF InstancesInit
  <2>2. FoundFits BY <1>1 DEF InstancesInit, FoundFits, NoCall, At
  <2>3. QED BY <2>1, <2>2 DEF SpoiledInv, SpoiledIsGone, SpoiledDiffer
<1>2. ASSUME InstancesInv, SpoiledInv, [InstancesNext]_vars PROVE SpoiledInv'
  <2>1. CASE InstancesNext
    BY <1>2, <2>1, FoundIsKept, SpoiledIsKept DEF SpoiledInv
  <2>2. CASE UNCHANGED vars
    BY <1>2, <2>2
    DEF vars, caches, SpoiledInv, FoundFits, SpoiledIsGone, SpoiledDiffer, Spoiled, Answers, At
  <2>3. QED BY <1>2, <2>1, <2>2
<1>3. QED BY <1>1, <1>2, InstancesFit, PTL DEF InstancesSpec

(* An instance that failed answers at most one later action with its own   *)
(* failure, counting the actions that were not given up: the eviction that *)
(* goes with the answer takes it out of reach for good (execute in         *)
(* action.rs).                                                             *)
THEOREM SpoiledAnswersOnce == InstancesSpec => []SpoiledOnce
<1>1. ASSUME Typed, SpoiledDiffer PROVE SpoiledOnce
  <2> SUFFICES ASSUME NEW i \in DOMAIN instance
               PROVE  Cardinality({n \in Answers : sent[n].instance = i
                                                    /\ sent[n].found = "spoiled"}) <= 1
    BY DEF SpoiledOnce
  <2> DEFINE S == {n \in Answers : sent[n].instance = i /\ sent[n].found = "spoiled"}
  <2>1. \A m, n \in S : m = n BY <1>1 DEF SpoiledDiffer, Spoiled, Answers
  <2>2. CASE S = {}
    <3>1. Cardinality(S) = 0 BY <2>2, FS_EmptySet
    <3>2. QED BY <3>1
  <2>3. CASE S # {}
    <3>1. PICK n \in S : S = {n} BY <2>1, <2>3
    <3>2. Cardinality(S) = 1 BY <3>1, FS_Singleton
    <3>3. QED BY <3>2
  <2>4. QED BY <2>2, <2>3
<1>2. InstancesInv /\ SpoiledInv => SpoiledOnce BY <1>1 DEF InstancesInv, SpoiledInv
<1>3. QED BY <1>2, InstancesFit, SpoiledInvariant, PTL

(***************************************************************************)
(* Whose invocation a completed action reports                             *)
(***************************************************************************)

(* A thread keeps its instance, and a given up action stays given up. *)
LEMMA SharedStays ==
  ASSUME InstancesInv, InstancesNext
  PROVE  TimedOut \subseteq TimedOut' /\ Shared \subseteq Shared'
<1>1. \A a \in Requests : ~At(a, "none") =>
         call'[a].at # "none" /\ call'[a].instance = call[a].instance
  <2>1. CASE UNCHANGED call BY <2>1 DEF At
  <2>2. CASE Spawn
    <3>1. At(worker.action, "none") BY <2>2 DEF Spawn, InstancesInv, WorkerFits
    <3>2. QED BY <2>2, <3>1 DEF Spawn, InstancesInv, Typed, At
  <2>3. ASSUME NEW a \in Requests, ThreadStep(a)
        PROVE  \A b \in Requests : ~At(b, "none") =>
                  call'[b].at # "none" /\ call'[b].instance = call[b].instance
    <3>1. PICK c \in Calls, x \in Instances :
            /\ call' = [call EXCEPT ![a] = c]
            /\ ThreadMoves(a, call[a], instance[call[a].instance], c, x)
      BY <2>3, ThreadsMove DEF InstancesInv
    <3>2. QED
      BY <3>1 DEF InstancesInv, Typed, At, ThreadMoves, FailsAtOnce, Begins, Takes, Ends
  <2>4. CASE WorkerStep \/ TimesOut
    BY <2>1, <2>2, <2>4, WorkerMoves
    DEF InstancesInv, Replies, MovesTo, Reuses, Builds, Store
  <2>5. QED BY <2>1, <2>3, <2>4 DEF InstancesNext, Claim, Enqueue
<1>2. \A n \in DOMAIN sent : n \in DOMAIN sent' /\ sent'[n] = sent[n]
  <2>1. ASSUME NEW u \in Updates, sent' = Append(sent, u)
        PROVE  \A n \in DOMAIN sent : n \in DOMAIN sent' /\ sent'[n] = sent[n]
    BY <2>1, SentGrows DEF InstancesInv
  <2>2. CASE Claim
    <3>1. Claimed(Head(queue)) \in Updates
      BY <2>2, HeadTailProperties, UpdatesAreTyped DEF Claim, InstancesInv, Typed
    <3>2. QED BY <2>1, <2>2, <3>1 DEF Claim
  <2>3. CASE WorkerStep \/ TimesOut
    BY <2>1, <2>3, WorkerMoves
    DEF InstancesInv, Replies, Answer, MovesTo, Reuses, Builds, Store, Spawn, Goes
  <2>4. QED BY <2>2, <2>3 DEF InstancesNext, Enqueue, ThreadStep
<1>3. \A n \in Answers : n \in Answers' /\ sent'[n] = sent[n] BY <1>2 DEF Answers
<1>4. ASSUME NEW a \in TimedOut PROVE a \in TimedOut' /\ call'[a].instance = call[a].instance
  BY <1>1, <1>3 DEF TimedOut, At
<1>5. QED BY <1>4 DEF Shared

LEMMA RunningIsKept == ASSUME InstancesInv, RunningIsKnown, InstancesNext PROVE RunningIsKnown'
<1>1. TimedOut \subseteq TimedOut' BY SharedStays
<1>2. ASSUME UNCHANGED call, worker.at # "join" \/ UNCHANGED worker PROVE RunningIsKnown'
  BY <1>1, <1>2 DEF RunningIsKnown
<1>3. ASSUME NEW u \in Updates, Replies(u) PROVE RunningIsKnown'
  <2>1. worker.action \in Requests BY <1>3, WorkerServes DEF Replies, InstancesInv
  <2>2. ASSUME call[worker.action].at \in Running PROVE worker.action \in TimedOut'
    <3>1. u = Failed(worker.action)
      BY <1>3, <2>2 DEF Replies, At, Running, InstancesInv, WorkerFits
    <3>2. u.kind = "Failed" /\ u.action = worker.action /\ u.instance = Nothing
      BY <2>1, <3>1, UpdatesSay DEF InstancesInv
    <3>3. sent' = Append(sent, u) /\ call' = call BY <1>3 DEF Replies, Answer
    <3>4. PICK new \in DOMAIN sent' : sent'[new] = u BY <3>3, SentGrows DEF InstancesInv
    <3>5. new \in Answers' BY <3>2, <3>4 DEF Answers
    <3>6. QED BY <2>1, <2>2, <3>2, <3>3, <3>4, <3>5 DEF TimedOut, Running
  <2>3. QED BY <1>1, <1>3, <2>2 DEF Replies, RunningIsKnown
<1>4. ASSUME NEW place \in Places, MovesTo(place) PROVE RunningIsKnown'
  BY <1>1, <1>4 DEF MovesTo, RunningIsKnown, Running, At
<1>5. CASE Spawn
  <2>1. worker'.at = "join" /\ worker'.action = worker.action
    BY <1>5 DEF Spawn, Goes, InstancesInv, Typed, Workers
  <2>2. \A b \in Requests : b # worker.action => call'[b] = call[b]
    BY <1>5 DEF Spawn, InstancesInv, Typed
  <2>3. worker.at # "join" BY <1>5 DEF Spawn
  <2>4. QED BY <1>1, <2>1, <2>2, <2>3 DEF RunningIsKnown
<1>6. ASSUME NEW a \in Requests, ThreadStep(a) PROVE RunningIsKnown'
  <2>1. PICK c \in Calls, x \in Instances :
          /\ call' = [call EXCEPT ![a] = c]
          /\ ThreadMoves(a, call[a], instance[call[a].instance], c, x)
    BY <1>6, ThreadsMove DEF InstancesInv
  <2>2. \A b \in Requests : call'[b].at \in Running => call[b].at \in Running
    BY <2>1 DEF InstancesInv, Typed, Running, ThreadMoves, FailsAtOnce, Begins, Takes, Ends
  <2>3. QED BY <1>1, <1>6, <2>2 DEF ThreadStep, RunningIsKnown
<1>7. CASE WorkerStep \/ TimesOut
  <2>1. \/ \E u \in Updates : Replies(u)
        \/ \E place \in Places : MovesTo(place)
        \/ Reuses \/ Builds \/ Store \/ Spawn
    BY <1>7, WorkerMoves DEF InstancesInv
  <2>2. QED BY <1>2, <1>3, <1>4, <1>5, <2>1 DEF Reuses, Builds, Store
<1>8. QED BY <1>2, <1>6, <1>7 DEF InstancesNext, Claim, Enqueue

LEMMA ContextIsKept ==
  ASSUME InstancesInv, RunningIsKnown, ContextFits, InstancesNext PROVE ContextFits'
<1>1. Shared \subseteq Shared' BY SharedStays
<1>2. CASE worker'.at # "join" BY <1>2 DEF ContextFits
<1>3. ASSUME UNCHANGED <<worker, call, instance>> PROVE ContextFits'
  <2>1. worker.instance \in Nat BY DEF InstancesInv, Typed, Workers
  <2>2. QED BY <1>1, <1>3, <2>1 DEF ContextFits, At
<1>4. CASE Spawn
  <2>1. worker'.at = "join" /\ worker'.action = worker.action /\ worker.action \in Requests
    BY <1>4, WorkerServes DEF Spawn, Goes, InstancesInv, Typed, Workers
  <2>2. call'[worker.action].at = "begin" BY <1>4, <2>1 DEF Spawn, NoCall, InstancesInv, Typed
  <2>3. QED BY <2>1, <2>2 DEF ContextFits, At
<1>5. ASSUME NEW a \in Requests, ThreadStep(a), worker.at = "join" PROVE ContextFits'
  <2> DEFINE i == call[a].instance
             w == worker.action
             j == worker.instance
  <2>1. i \in DOMAIN instance BY <1>5, ThreadsMove DEF InstancesInv
  <2>2. PICK c \in Calls, x \in Instances :
          /\ call' = [call EXCEPT ![a] = c]
          /\ instance' = [instance EXCEPT ![i] = x]
          /\ ThreadMoves(a, call[a], instance[i], c, x)
    BY <1>5, ThreadsMove DEF InstancesInv
  <2>3. call'[a] = c /\ \A b \in Requests : b # a => call'[b] = call[b]
    BY <2>2 DEF InstancesInv, Typed
  <2>4. instance'[i] = x /\ \A k \in DOMAIN instance : k # i => instance'[k] = instance[k]
    BY <2>1, <2>2, InstanceChanges DEF InstancesInv
  <2>5. w \in Requests /\ j \in Nat /\ j \in DOMAIN instance /\ call[w].instance = j
    BY <1>5, WorkerServes DEF InstancesInv, Typed, Workers, WorkerFits
  <2>6. UNCHANGED worker BY <1>5 DEF ThreadStep
  <2>7. /\ call[w].at \in {"lock", "calling"} => instance[j].context = w \/ j \in Shared
        /\ call[w].at = "ok" => call[w].context = w \/ j \in Shared
    BY <1>5 DEF ContextFits, At
  <2>8. SUFFICES /\ call'[w].at \in {"lock", "calling"} =>
                       instance'[j].context = w \/ j \in Shared'
                 /\ call'[w].at = "ok" => call'[w].context = w \/ j \in Shared'
    BY <2>6 DEF ContextFits, At
  <2>9. CASE a = w
    <3>1. i = j BY <2>5, <2>9
    <3>2. c.at \in {"lock", "calling"} => x.context = w \/ j \in Shared
      BY <2>2, <2>7, <2>9, <3>1 DEF ThreadMoves, FailsAtOnce, Begins, Takes, Ends
    <3>3. c.at = "ok" => c.context = w \/ j \in Shared
      BY <2>2, <2>7, <2>9, <3>1 DEF ThreadMoves, FailsAtOnce, Begins, Takes, Ends
    <3>4. QED BY <1>1, <2>3, <2>4, <2>5, <2>9, <3>1, <3>2, <3>3
  <2>10. CASE a # w
    <3>1. call'[w] = call[w] BY <2>3, <2>5, <2>10
    <3>2. CASE i # j BY <1>1, <2>4, <2>5, <2>7, <3>1, <3>2
    <3>3. CASE i = j
      <4>1. call[a].at \in Running
        BY <2>2 DEF Running, ThreadMoves, FailsAtOnce, Begins, Takes, Ends
      <4>2. a \in TimedOut BY <2>10, <4>1 DEF RunningIsKnown
      <4>3. j \in Shared BY <3>3, <4>2 DEF Shared
      <4>4. QED BY <1>1, <2>5, <4>3
    <3>4. QED BY <3>2, <3>3
  <2>11. QED BY <2>9, <2>10
<1>6. CASE WorkerStep \/ TimesOut
  <2>1. \/ \E u \in Updates : Replies(u)
        \/ \E place \in Places : MovesTo(place)
        \/ Reuses \/ Builds \/ Store \/ Spawn
    BY <1>6, WorkerMoves DEF InstancesInv
  <2>2. ASSUME ~Spawn PROVE worker'.at # "join"
    <3>1. worker \in Workers BY DEF InstancesInv, Typed
    <3>2. ASSUME NEW u \in Updates, Replies(u) PROVE worker'.at # "join"
      BY <3>2 DEF Replies, Answer, Idle
    <3>3. ASSUME NEW place \in Places, MovesTo(place) PROVE worker'.at # "join"
      BY <3>1, <3>3 DEF MovesTo, Workers
    <3>4. CASE Reuses \/ Builds \/ Store BY <3>1, <3>4 DEF Reuses, Builds, Store, Workers
    <3>5. QED BY <2>1, <2>2, <3>2, <3>3, <3>4
  <2>3. QED BY <1>2, <1>4, <2>2
<1>7. CASE Claim BY <1>2, <1>7 DEF Claim, Idle
<1>8. QED BY <1>2, <1>3, <1>5, <1>6, <1>7 DEF InstancesNext, Enqueue, ThreadStep

LEMMA DiagnosticsAreKept ==
  ASSUME InstancesInv, ContextFits, DiagnosticsAreOwn, InstancesNext PROVE DiagnosticsAreOwn'
<1>1. Shared \subseteq Shared' BY SharedStays
<1> DEFINE Own(u) == u.kind = "Completed" /\ u.context # u.action => u.instance \in Shared
<1>2. \A n \in Answers : Own(sent[n]) BY DEF DiagnosticsAreOwn, Shared
<1>3. \A n \in DOMAIN sent : sent[n] \in Updates
  BY ElementOfSeq, LenProperties DEF InstancesInv, Typed
<1>4. \A n \in Answers : sent[n].instance \in Nat BY <1>3 DEF Answers, Updates
<1>5. SUFFICES \A n \in Answers' : sent'[n].kind = "Completed"
                                   /\ sent'[n].context # sent'[n].action
                                => sent'[n].instance \in Shared'
  BY DEF DiagnosticsAreOwn, Shared
<1>6. ASSUME NEW u \in Updates, sent' = Append(sent, u), Own(u)
      PROVE  \A n \in Answers' : sent'[n].kind = "Completed"
                                   /\ sent'[n].context # sent'[n].action
                                => sent'[n].instance \in Shared'
  <2>1. PICK new \in Nat :
          /\ DOMAIN sent' = DOMAIN sent \cup {new} /\ new \notin DOMAIN sent
          /\ sent'[new] = u /\ \A n \in DOMAIN sent : sent'[n] = sent[n]
    BY <1>6, SentGrows DEF InstancesInv
  <2>2. u.instance \in Nat BY DEF Updates
  <2>3. QED BY <1>1, <1>2, <1>4, <1>6, <2>1, <2>2 DEF Answers
<1>7. ASSUME UNCHANGED sent
      PROVE  \A n \in Answers' : sent'[n].kind = "Completed"
                                   /\ sent'[n].context # sent'[n].action
                                => sent'[n].instance \in Shared'
  BY <1>1, <1>2, <1>4, <1>7 DEF Answers
<1>8. CASE Claim
  <2>1. Head(queue) \in Requests BY <1>8, HeadTailProperties DEF Claim, InstancesInv, Typed
  <2>2. Claimed(Head(queue)) \in Updates /\ Claimed(Head(queue)).kind = "Claimed"
    BY <2>1, UpdatesAreTyped, UpdatesSay DEF InstancesInv
  <2>3. QED BY <1>6, <1>8, <2>2 DEF Claim
<1>9. ASSUME NEW u \in Updates, Replies(u) PROVE sent' = Append(sent, u) /\ Own(u)
  <2>1. worker.action \in Requests BY <1>9, WorkerServes DEF Replies, InstancesInv
  <2>2. CASE u = Failed(worker.action) \/ u = FailedCall(worker.action)
    BY <1>9, <2>1, <2>2, UpdatesSay DEF Replies, Answer, InstancesInv
  <2>3. CASE worker.at = "join" /\ At(worker.action, "ok") /\ u = Completed(worker.action)
    BY <1>9, <2>1, <2>3, UpdatesSay
    DEF Replies, Answer, InstancesInv, WorkerFits, ContextFits
  <2>4. QED BY <1>9, <2>2, <2>3 DEF Replies
<1>10. CASE WorkerStep \/ TimesOut
  <2>1. \/ \E u \in Updates : Replies(u)
        \/ \E place \in Places : MovesTo(place)
        \/ Reuses \/ Builds \/ Store \/ Spawn
    BY <1>10, WorkerMoves DEF InstancesInv
  <2>2. QED BY <1>6, <1>7, <1>9, <2>1 DEF MovesTo, Reuses, Builds, Store, Spawn, Goes
<1>11. QED BY <1>7, <1>8, <1>10 DEF InstancesNext, Enqueue, ThreadStep

(* What a completed action reports about its invocation is its own, unless *)
(* a thread the worker had given up used the instance as well: one that    *)
(* runs outside the worker's own call was given up (execute_sync in        *)
(* action.rs).                                                             *)
THEOREM ReportsAreOwn == InstancesSpec => []DiagnosticsAreOwn
<1>1. ASSUME InstancesInit PROVE ContextInv
  <2>1. DOMAIN sent = {} BY <1>1, EmptySeq DEF InstancesInit
  <2>2. RunningIsKnown /\ ContextFits
    BY <1>1 DEF InstancesInit, RunningIsKnown, Running, NoCall, ContextFits, Idle
  <2>3. DiagnosticsAreOwn BY <2>1 DEF DiagnosticsAreOwn, Answers
  <2>4. QED BY <2>2, <2>3 DEF ContextInv
<1>2. ASSUME InstancesInv, ContextInv, [InstancesNext]_vars PROVE ContextInv'
  <2>1. CASE InstancesNext
    BY <1>2, <2>1, RunningIsKept, ContextIsKept, DiagnosticsAreKept DEF ContextInv
  <2>2. CASE UNCHANGED vars
    <3>1. UNCHANGED TimedOut /\ UNCHANGED Answers BY <2>2 DEF vars, caches, TimedOut, Answers
    <3>2. RunningIsKnown' BY <1>2, <2>2, <3>1 DEF vars, caches, ContextInv, RunningIsKnown
    <3>3. ContextFits' BY <1>2, <2>2, <3>1 DEF vars, caches, ContextInv, ContextFits, Shared, At
    <3>4. DiagnosticsAreOwn' BY <1>2, <2>2, <3>1 DEF vars, caches, ContextInv, DiagnosticsAreOwn
    <3>5. QED BY <3>2, <3>3, <3>4 DEF ContextInv
  <2>3. QED BY <1>2, <2>1, <2>2
<1>3. ContextInv => DiagnosticsAreOwn BY DEF ContextInv
<1>4. QED BY <1>1, <1>2, <1>3, InstancesFit, PTL DEF InstancesSpec

(***************************************************************************)
(* What the worker keeps of ActionQueue                                    *)
(***************************************************************************)

Told == {"Claimed", "Answered"} \X Actions
told == [n \in DOMAIN sent |-> ToldAs(sent[n])]

LEMMA ToldIsTyped == ASSUME NEW u \in Updates PROVE ToldAs(u) \in Told
BY DEF ToldAs, Told, Updates

LEMMA ToldIsASequence ==
  ASSUME NEW s \in Seq(Updates)
  PROVE  /\ [n \in DOMAIN s |-> ToldAs(s[n])] \in Seq(Told)
         /\ Len([n \in DOMAIN s |-> ToldAs(s[n])]) = Len(s)
<1> DEFINE t == [n \in DOMAIN s |-> ToldAs(s[n])]
<1>1. Len(s) \in Nat /\ DOMAIN s = 1 .. Len(s) BY LenProperties
<1>2. \A n \in 1 .. Len(s) : s[n] \in Updates BY ElementOfSeq
<1>3. \A n \in 1 .. Len(s) : ToldAs(s[n]) \in Told BY <1>2, ToldIsTyped
<1>4. t = [n \in 1 .. Len(s) |-> ToldAs(s[n])] BY <1>1
<1>5. t \in [1 .. Len(s) -> Told] BY <1>3, <1>4
<1> HIDE DEF t
<1>6. t \in Seq(Told) BY <1>1, <1>5, SeqDef
<1>7. Len(t) = Len(s)
  <2>1. DOMAIN t = 1 .. Len(s) BY <1>5
  <2>2. DOMAIN t = 1 .. Len(t) /\ Len(t) \in Nat BY <1>6, LenProperties
  <2>3. QED BY <1>1, <2>1, <2>2
<1>8. QED BY <1>6, <1>7 DEF t

(* An update that is sent is told. *)
LEMMA ToldGrows ==
  ASSUME Typed, NEW u \in Updates, sent' = Append(sent, u)
  PROVE  told' = Append(told, ToldAs(u))
<1>1. sent \in Seq(Updates) /\ sent' \in Seq(Updates) /\ Len(sent') = Len(sent) + 1
      /\ Len(sent) \in Nat
  BY AppendProperties, LenProperties DEF Typed
<1>2. told \in Seq(Told) /\ Len(told) = Len(sent) BY <1>1, ToldIsASequence DEF told
<1>3. told' \in Seq(Told) /\ Len(told') = Len(sent) + 1 BY <1>1, ToldIsASequence DEF told
<1>4. ToldAs(u) \in Told BY ToldIsTyped
<1>5. Append(told, ToldAs(u)) \in Seq(Told) /\ Len(Append(told, ToldAs(u))) = Len(sent) + 1
  BY <1>2, <1>4, AppendProperties
<1>6. ASSUME NEW n \in 1 .. Len(sent) + 1 PROVE told'[n] = Append(told, ToldAs(u))[n]
  <2>1. DOMAIN sent = 1 .. Len(sent) /\ DOMAIN sent' = 1 .. Len(sent) + 1
    BY <1>1, LenProperties
  <2>2. told'[n] = ToldAs(sent'[n]) BY <2>1 DEF told
  <2>3. CASE n = Len(sent) + 1
    BY <1>1, <1>2, <1>4, <2>2, <2>3, AppendProperties
  <2>4. CASE n # Len(sent) + 1
    <3>1. n \in 1 .. Len(sent) BY <1>1, <2>4
    <3>2. sent'[n] = sent[n] BY <1>1, <3>1, AppendProperties
    <3>3. told[n] = ToldAs(sent[n]) BY <2>1, <3>1 DEF told
    <3>4. Append(told, ToldAs(u))[n] = told[n] BY <1>2, <1>4, <3>1, AppendProperties
    <3>5. QED BY <2>2, <3>2, <3>3, <3>4
  <2>5. QED BY <2>3, <2>4
<1>7. QED BY <1>3, <1>5, <1>6, SeqEqual

(* Whatever its executions do, the worker claims the actions one at a time *)
(* in the order they were enqueued and answers each of them once, before   *)
(* it claims the next (ActionWorker::run in action.rs).                    *)
THEOREM WorkerServesQueue ==
  InstancesSpec => Promised!Init /\ [][Promised!Next]_(Promised!qVars)
<1>1. ASSUME InstancesInit PROVE Promised!Init
  <2>1. told = <<>> BY <1>1 DEF InstancesInit, told
  <2>2. QED BY <1>1, <2>1 DEF InstancesInit, Promised!Init, Promised!Nothing, Nothing, Idle, told
<1>2. ASSUME InstancesInv, [InstancesNext]_vars
      PROVE  [Promised!Next]_(Promised!qVars)
  <2>1. CASE UNCHANGED <<accepted, queue, worker, sent>>
    BY <2>1 DEF Promised!qVars
  <2>2. CASE Claim
    <3> DEFINE a == Head(queue)
    <3>1. a \in Requests BY <1>2, <2>2, HeadTailProperties DEF Claim, InstancesInv, Typed
    <3>2. Claimed(a) \in Updates /\ ToldAs(Claimed(a)) = <<"Claimed", a>>
      BY <1>2, <3>1, UpdatesAreTyped, UpdatesSay DEF InstancesInv, ToldAs
    <3>3. told' = Append(told, <<"Claimed", a>>)
      BY <1>2, <2>2, <3>2, ToldGrows DEF Claim, InstancesInv
    <3>4. worker.action = Nothing /\ worker'.action = a
      BY <1>2, <2>2 DEF Claim, Idle, InstancesInv, WorkerFits
    <3>5. Promised!Claim
      BY <2>2, <3>3, <3>4 DEF Claim, Promised!Claim, Promised!Nothing, Nothing, told
    <3>6. QED BY <3>5 DEF Promised!Next
  <2>3. ASSUME NEW u \in Updates, Replies(u) PROVE Promised!Next
    <3>1. worker.action \in Requests BY <1>2, <2>3, WorkerServes DEF Replies, InstancesInv
    <3>2. u.kind # "Claimed" /\ u.action = worker.action
      BY <1>2, <2>3, <3>1, UpdatesSay DEF Replies, InstancesInv
    <3>3. told' = Append(told, <<"Answered", worker.action>>)
      BY <1>2, <2>3, <3>2, ToldGrows DEF Replies, Answer, ToldAs, InstancesInv
    <3>4. worker'.action = Nothing BY <2>3 DEF Replies, Answer, Idle
    <3>5. worker.action # Nothing BY <3>1, RequestsAreNumbers
    <3>6. Promised!Answer
      BY <2>3, <3>3, <3>4, <3>5 DEF Replies, Promised!Answer, Promised!Nothing, Nothing, told
    <3>7. QED BY <3>6 DEF Promised!Next
  <2>4. ASSUME NEW a \in Requests, Enqueue(a) PROVE Promised!Next
    <3>1. Promised!Accept(a) BY <2>4 DEF Enqueue, Promised!Accept
    <3>2. QED BY <3>1 DEF Promised!Next
  <2>5. ASSUME worker'.action = worker.action, UNCHANGED <<accepted, queue, sent>>
        PROVE  UNCHANGED Promised!qVars
    BY <2>5 DEF Promised!qVars
  <2>6. CASE WorkerStep \/ TimesOut
    <3>1. \/ \E u \in Updates : Replies(u)
          \/ \E place \in Places : MovesTo(place)
          \/ Reuses \/ Builds \/ Store \/ Spawn
      BY <1>2, <2>6, WorkerMoves DEF InstancesInv
    <3>2. worker \in Workers BY <1>2 DEF InstancesInv, Typed
    <3>3. ASSUME NEW place \in Places, MovesTo(place)
          PROVE  worker'.action = worker.action /\ UNCHANGED <<accepted, queue, sent>>
      BY <3>2, <3>3 DEF MovesTo, Workers
    <3>4. CASE Reuses \/ Builds \/ Store \/ Spawn
      <4>1. worker'.action = worker.action /\ UNCHANGED <<accepted, queue, sent>>
        BY <3>2, <3>4 DEF Reuses, Builds, Store, Spawn, Goes, Workers
      <4>2. QED BY <2>5, <4>1
    <3>5. QED BY <2>3, <2>5, <3>1, <3>3, <3>4
  <2>7. ASSUME NEW a \in Requests, ThreadStep(a) PROVE UNCHANGED Promised!qVars
    BY <2>1, <2>7 DEF ThreadStep, Promised!qVars
  <2>8. CASE UNCHANGED vars BY <2>1, <2>8 DEF vars, Promised!qVars
  <2>9. QED BY <1>2, <2>2, <2>4, <2>6, <2>7, <2>8 DEF InstancesNext
<1>3. QED BY <1>1, <1>2, InstancesFit, PTL DEF InstancesSpec
=============================================================================
