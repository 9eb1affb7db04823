--------------------------- MODULE SkillInstances ---------------------------
(***************************************************************************)
(* How the action worker (crates/runtime/src/action.rs) executes skill     *)
(* actions on the warm component instances of the skill runtime            *)
(* (crates/runtime/src/catalog.rs).  The worker is one task that serves    *)
(* one action at a time under a timeout.  The call itself runs on a        *)
(* blocking thread, which nothing stops: after a timeout it goes on, or    *)
(* hangs, with the instance's mutex held, while the worker has given its   *)
(* action up and turns to the next one.                                    *)
(***************************************************************************)
EXTENDS Naturals, Sequences, FiniteSets

CONSTANTS
    Requests,      \* the actions the engine may enqueue, numbered from 1
    Skills, SkillOf,
    Capabilities,  \* capabilities the profile of each skill declares
    Imports,       \* interfaces its component imports
    Databases,     \* number of sqlite databases its profile defines
    MaxFaults      \* bound on component files that cannot be loaded

ASSUME InstancesAssumption ==
    /\ Requests = 1 .. Cardinality(Requests) /\ SkillOf \in [Requests -> Skills]
    /\ Capabilities \in [Skills -> SUBSET {"sqlite", "ui", "other"}]
    /\ Imports \in [Skills -> SUBSET {"plain", "sqlite", "ui", "other"}]
    /\ Databases \in [Skills -> Nat] /\ MaxFaults \in Nat

VARIABLES
    queue,       \* action_rx
    worker,      \* where the worker is, its action and the instance it got
    call,        \* each action's execute_sync on its blocking thread
    instance,    \* every instance built so far
    warm,        \* warm_instance_cache: an instance of each skill, or None
    components,  \* component_cache
    paths,       \* sqlite_path_cache
    sent,        \* the updates sent to the engine
    \* history and bounds
    accepted, faults

caches == <<warm, components, paths>>
vars == <<queue, worker, call, instance, caches, sent, accepted, faults>>

Nothing == 0

Idle == [at |-> "recv", action |-> Nothing, instance |-> Nothing]
NoCall == [at |-> "none", instance |-> Nothing, found |-> "sound", context |-> Nothing]

(* A new instance: its mutex is free, and the invocation it records is the *)
(* bootstrap's.                                                            *)
Fresh(s) == [skill |-> s, holder |-> Nothing, context |-> Nothing,
             state |-> "sound", poisoned |-> FALSE]

Claimed(a) ==
    [kind |-> "Claimed", action |-> a, context |-> Nothing, instance |-> Nothing, found |-> "sound"]
Completed(a) ==
    [Claimed(a) EXCEPT !.kind = "Completed", !.context = call[a].context,
                       !.instance = call[a].instance]
Failed(a) == [Claimed(a) EXCEPT !.kind = "Failed"]
FailedCall(a) == [Failed(a) EXCEPT !.instance = call[a].instance, !.found = call[a].found]

(***************************************************************************)
(* The worker (ActionWorker::run) and its executor (execute)               *)
(***************************************************************************)

Enqueue(a) ==
    /\ a \notin accepted
    /\ accepted' = accepted \cup {a}
    /\ queue' = Append(queue, a)
    /\ UNCHANGED <<worker, call, instance, caches, sent, faults>>

Claim ==
    /\ worker.at = "recv" /\ queue # <<>>
    /\ worker' = [Idle EXCEPT !.at = "lookup", !.action = Head(queue)]
    /\ queue' = Tail(queue)
    /\ sent' = Append(sent, Claimed(Head(queue)))
    /\ UNCHANGED <<call, instance, caches, accepted, faults>>

Answer(update) ==
    /\ sent' = Append(sent, update)
    /\ worker' = Idle

Goes(at) == worker' = [worker EXCEPT !.at = at] /\ UNCHANGED sent

Skill == SkillOf[worker.action]

(* warm_instance: a warm instance of the skill, or the way to one. *)
Lookup ==
    /\ worker.at = "lookup"
    /\ IF warm[Skill] # Nothing
       THEN worker' = [worker EXCEPT !.at = "spawn", !.instance = warm[Skill]]
       ELSE worker' = [worker EXCEPT !.at = "load"]
    /\ UNCHANGED <<queue, call, instance, caches, sent, accepted, faults>>

(* load_component: from the cache, or read and compiled. *)
LoadComponent ==
    /\ worker.at = "load"
    /\ \/ /\ components' = components \cup {Skill}
          /\ Goes("providers")
          /\ UNCHANGED faults
       \/ /\ Skill \notin components /\ faults < MaxFaults
          /\ faults' = faults + 1
          /\ Answer(Failed(worker.action))
          /\ UNCHANGED components
    /\ UNCHANGED <<queue, call, instance, warm, paths, accepted>>

(* capability_providers: the first capability that is not known or that    *)
(* has no single database fails the action.                                *)
CapabilityProviders ==
    /\ worker.at = "providers"
    /\ LET ok == /\ Capabilities[Skill] \subseteq {"sqlite", "ui"}
                 /\ "sqlite" \in Capabilities[Skill] => Databases[Skill] = 1
       IN  IF ok THEN Goes("build") ELSE Answer(Failed(worker.action))
    /\ paths' = IF "sqlite" \in Capabilities[Skill] /\ Databases[Skill] = 1
                THEN paths \cup {Skill} ELSE paths
    /\ UNCHANGED <<queue, call, instance, warm, components, accepted, faults>>

(* build_warm_instance: every import is plain or served by a provider. *)
Build ==
    /\ worker.at = "build"
    /\ IF Imports[Skill] \ {"plain"} \subseteq Capabilities[Skill] \cap {"sqlite", "ui"}
       THEN /\ instance' = Append(instance, Fresh(Skill))
            /\ worker' = [worker EXCEPT !.at = "store", !.instance = Len(instance')]
            /\ UNCHANGED sent
       ELSE Answer(Failed(worker.action)) /\ UNCHANGED instance
    /\ UNCHANGED <<queue, call, caches, accepted, faults>>

(* An instance that is in the cache by now is preferred. *)
Store ==
    /\ worker.at = "store"
    /\ warm' = [warm EXCEPT ![Skill] = IF @ = Nothing THEN worker.instance ELSE @]
    /\ worker' = [worker EXCEPT !.at = "spawn", !.instance = warm'[Skill]]
    /\ UNCHANGED <<queue, call, instance, components, paths, sent, accepted, faults>>

Spawn ==
    /\ worker.at = "spawn"
    /\ call' = [call EXCEPT ![worker.action] =
                   [NoCall EXCEPT !.at = "begin", !.instance = worker.instance]]
    /\ Goes("join")
    /\ UNCHANGED <<queue, instance, caches, accepted, faults>>

(* The blocking thread has ended.  An error evicts the instance before it  *)
(* is answered; a panic does not.                                          *)
Join ==
    /\ worker.at = "join"
    /\ LET a == worker.action IN
       \/ call[a].at = "ok" /\ Answer(Completed(a))
       \/ call[a].at = "error" /\ Goes("evict")
       \/ call[a].at = "panic" /\ Answer(FailedCall(a))
    /\ UNCHANGED <<queue, call, instance, caches, accepted, faults>>

(* A slip: a failed instance stays in the cache. *)
EvictNothing ==
    /\ worker.at = "evict"
    /\ Answer(FailedCall(worker.action))
    /\ UNCHANGED <<queue, call, instance, caches, accepted, faults>>

(* evict_warm_instance: whatever the cache has for the skill. *)
Evict ==
    /\ worker.at = "evict"
    /\ warm' = [warm EXCEPT ![Skill] = Nothing]
    /\ Answer(FailedCall(worker.action))
    /\ UNCHANGED <<queue, call, instance, components, paths, accepted, faults>>

(* A slip: only the call is under the timeout. *)
TimesOutJoinOnly ==
    /\ worker.at = "evict"
    /\ Answer(Failed(worker.action))
    /\ UNCHANGED <<queue, call, instance, caches, accepted, faults>>

(* The timeout covers all of execute, whose future is dropped wherever it  *)
(* is: the thread goes on, an instance that is not stored yet is lost, and *)
(* an eviction that is due does not happen.                                *)
TimesOut ==
    /\ worker.at # "recv"
    /\ Answer(Failed(worker.action))
    /\ UNCHANGED <<queue, call, instance, caches, accepted, faults>>

WorkerStep ==
    \/ Lookup \/ LoadComponent \/ CapabilityProviders \/ Build \/ Store \/ Spawn
    \/ Join \/ Evict

(***************************************************************************)
(* The blocking threads (execute_sync)                                     *)
(***************************************************************************)

At(a, place) == call[a].at = place

ThreadEnds(a, at) == call' = [call EXCEPT ![a].at = at]

(* A slip: the invocation is not begun, so its context is the last one's. *)
BeginsNothing(a) ==
    /\ At(a, "begin") /\ instance[call[a].instance].holder = Nothing
    /\ ThreadEnds(a, "lock")
    /\ UNCHANGED instance

(* The mutex is taken once to begin the invocation, whose context replaces *)
(* the one before, and released.                                           *)
BeginInvocation(a) ==
    /\ At(a, "begin") /\ instance[call[a].instance].holder = Nothing
    /\ LET i == call[a].instance IN
       IF instance[i].poisoned
       THEN /\ call' = [call EXCEPT ![a].at = "error", ![a].found = "spoiled"]
            /\ UNCHANGED instance
       ELSE /\ ThreadEnds(a, "lock")
            /\ instance' = [instance EXCEPT ![i].context = a]

(* A slip: the call does not wait for the mutex again. *)
TakesUnlocked(a) ==
    /\ At(a, "lock")
    /\ LET i == call[a].instance IN
       /\ call' = [call EXCEPT ![a].at = "calling", ![a].found = instance[i].state]
       /\ instance' = [instance EXCEPT ![i].holder = a]

(* It is taken again for the call, and kept until the result is decoded. *)
TakeInstance(a) ==
    /\ At(a, "lock") /\ instance[call[a].instance].holder = Nothing
    /\ LET i == call[a].instance IN
       IF instance[i].poisoned
       THEN /\ call' = [call EXCEPT ![a].at = "error", ![a].found = "spoiled"]
            /\ UNCHANGED instance
       ELSE /\ call' = [call EXCEPT ![a].at = "calling", ![a].found = instance[i].state]
            /\ instance' = [instance EXCEPT ![i].holder = a]

Released(i) == [instance[i] EXCEPT !.holder = Nothing]

(* The component returns.  Its result is reported with the invocation as   *)
(* the instance has recorded it, or it cannot be decoded.                  *)
Return(a) ==
    /\ At(a, "calling") /\ instance[call[a].instance].state = "sound"
    /\ \/ call' = [call EXCEPT ![a].at = "ok", ![a].context = instance[call[a].instance].context]
       \/ ThreadEnds(a, "error")
    /\ instance' = [instance EXCEPT ![call[a].instance] = Released(call[a].instance)]

(* A trap, or a provider's error, ends the call; the component cannot be   *)
(* entered again, and every later call on it fails.                        *)
Trap(a) ==
    /\ At(a, "calling")
    /\ ThreadEnds(a, "error")
    /\ instance' = [instance EXCEPT ![call[a].instance] =
                       [Released(call[a].instance) EXCEPT !.state = "spoiled"]]

(* A panic in a provider, which a sound component calls, poisons the mutex *)
(* that the thread holds.                                                  *)
Panic(a) ==
    /\ At(a, "calling") /\ instance[call[a].instance].state = "sound"
    /\ ThreadEnds(a, "panic")
    /\ instance' = [instance EXCEPT ![call[a].instance] =
                       [Released(call[a].instance) EXCEPT !.poisoned = TRUE]]

ThreadStep(a) ==
    /\ BeginInvocation(a) \/ TakeInstance(a) \/ Return(a) \/ Trap(a) \/ Panic(a)
    /\ UNCHANGED <<queue, worker, caches, sent, accepted, faults>>

InstancesInit ==
    /\ queue = <<>> /\ worker = Idle /\ sent = <<>>
    /\ call = [a \in Requests |-> NoCall]
    /\ instance = <<>>
    /\ warm = [s \in Skills |-> Nothing] /\ components = {} /\ paths = {}
    /\ accepted = {} /\ faults = 0

InstancesNext ==
    \/ Claim \/ WorkerStep \/ TimesOut
    \/ \E a \in Requests : Enqueue(a) \/ ThreadStep(a)

(* The worker's task is scheduled and its timer fires.  Nothing is assumed *)
(* of the threads: a component may compute or wait for ever.               *)
InstancesSpec ==
    /\ InstancesInit /\ [][InstancesNext]_vars
    /\ WF_vars(Claim) /\ WF_vars(WorkerStep) /\ WF_vars(TimesOut)

(***************************************************************************)
(* Properties                                                              *)
(***************************************************************************)

Answers == {n \in DOMAIN sent : sent[n].kind # "Claimed"}
TimedOut == {a \in Requests : /\ call[a].at # "none"
                              /\ \E n \in Answers : sent[n].action = a /\ sent[n].instance = Nothing}

(* The variables have their types, and the mutex of an instance is held by *)
(* the one thread that calls into it, also while others were given up.     *)
InstancesTypeOK ==
    /\ queue \in Seq(Requests) /\ worker.action \in Requests \cup {Nothing}
    /\ worker.at \in {"recv", "lookup", "load", "providers", "build", "store", "spawn", "join",
                      "evict"}
    /\ \A a \in Requests :
         /\ call[a].at \in {"none", "begin", "lock", "calling", "ok", "error", "panic"}
         /\ call[a].instance \in 0 .. Len(instance)
         /\ At(a, "calling") <=> \E i \in DOMAIN instance : instance[i].holder = a
         /\ At(a, "calling") => instance[call[a].instance].holder = a
    /\ warm \in [Skills -> 0 .. Len(instance)]
    /\ \A s \in Skills : warm[s] # Nothing => instance[warm[s]].skill = s
    /\ components \subseteq Skills /\ paths \subseteq Skills

(* An instance that failed answers at most one later action: that action's *)
(* failure evicts it.  It stays in the cache when its own failure came     *)
(* after the worker had given up, or by a panic; actions given up without  *)
(* an answer of their own are not counted (execute in action.rs).          *)
SpoiledOnce ==
    \A i \in DOMAIN instance :
        Cardinality({n \in Answers : sent[n].instance = i /\ sent[n].found = "spoiled"}) <= 1

(* What a completed action reports about its invocation is its own, unless *)
(* a thread that was given up used the instance as well: it may begin its  *)
(* invocation between this action's two locks (execute_sync in action.rs). *)
DiagnosticsAreOwn ==
    \A n \in Answers : sent[n].kind = "Completed" /\ sent[n].context # sent[n].action =>
        \E a \in TimedOut : call[a].instance = sent[n].instance

(* The worker keeps what ActionQueue promises the engine, whatever its     *)
(* executions do: every action is claimed in order and answered once.      *)
ToldAs(u) == <<IF u.kind = "Claimed" THEN "Claimed" ELSE "Answered", u.action>>

Promised == INSTANCE ActionQueue WITH
    serving <- worker.action,
    told <- [n \in DOMAIN sent |-> ToldAs(sent[n])]

ServesQueue == Promised!Spec
=============================================================================
