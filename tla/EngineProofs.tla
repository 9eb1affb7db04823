---------------------------- MODULE EngineProofs ----------------------------
(***************************************************************************)
(* Proofs about the execution engine, for every set of runs and any number *)
(* of external calls, restarts and failing writes.                         *)
(*                                                                         *)
(* The handlers of the engine task are sequences of writes with failures   *)
(* and kills between them, so the invariants speak of the writes still to  *)
(* come: which of them are left, in which order, and what store and log    *)
(* must already say before each.                                           *)
(***************************************************************************)
EXTENDS ExecutionEngine, SequenceTheorems, TLAPS

(***************************************************************************)
(* The shape of a handler                                                  *)
(***************************************************************************)
WriteRun(w) == IF w.op \in {"SaveAction", "Enqueue"} THEN RunOf(w.action) ELSE w.run
IsPublish(w) == w.op = "Publish"
CanFail(w) == w.op \in {"SaveRun", "SaveAction", "Publish"}

(* The writes that only make sense for one session of the run, and which.  *)
HasTarget(w) ==
    \/ w.op \in {"SaveRun", "RecordStatus", "Enqueue"}
    \/ w.op = "Publish" /\ w.event.kind \in TerminalEvents
Target(w) ==
    CASE w.op \in {"SaveRun", "RecordStatus"} -> w.session
      [] w.op = "Enqueue" -> Waiting(w.action)
      [] w.op = "Publish" /\ w.event.kind = "RunCompleted" -> Completed
      [] OTHER -> Failed

(* What is left of a handler for run r and the action c, at any point of it: *)
(* it is about r alone and heads for one session; that session is saved      *)
(* before it is recorded, and at once unless it is a failure; what ends the  *)
(* run for its subscribers is the last write that can fail; a reply is last. *)
Orderly(p, r, c) ==
    /\ \A i \in 1 .. Len(p) : WriteRun(p[i]) = r
    /\ \A i, j \in 1 .. Len(p) :
          HasTarget(p[i]) /\ HasTarget(p[j]) => Target(p[i]) = Target(p[j])
    /\ \A i \in 1 .. Len(p) : p[i].op = "SaveRun" =>
          /\ p[i].session # Unknown
          /\ \E j \in 1 .. Len(p) : j > i /\ p[j].op = "RecordStatus"
          /\ p[i].session # Failed => i = 1
          /\ IsWaiting(p[i].session) =>
                \E j \in 1 .. Len(p) : j > i /\ p[j] = Enqueue(p[i].session.action)
    /\ \A i, j \in 1 .. Len(p) : i < j =>
          /\ p[i].op = "RecordStatus" => ~CanFail(p[j])
          /\ p[i].op = "Publish" /\ p[i].event.kind = "RunCompleted" => ~CanFail(p[j])
          /\ ~(p[i].op = "Enqueue" /\ p[j].op = "Enqueue")
    /\ \A i \in 1 .. Len(p) : p[i].op = "Reply" => i = Len(p)
    /\ \A i \in 1 .. Len(p) : p[i].op = "SaveAction" /\ p[i].state = "Completed" =>
          p[i].action = c

(* A whole handler saves the session it heads for before anything else      *)
(* depends on it.                                                            *)
Led(p, r) ==
    \A i \in 1 .. Len(p) : HasTarget(p[i]) =>
       \E j \in 1 .. i : p[j] = SaveRun(r, Target(p[i]))

(***************************************************************************)
(* Concatenations                                                          *)
(***************************************************************************)
LEMMA TwoParts ==
    ASSUME NEW S, NEW s \in Seq(S), NEW t \in Seq(S)
    PROVE  /\ s \o t \in Seq(S) /\ Len(s \o t) = Len(s) + Len(t)
           /\ \A i \in 1 .. Len(s) : (s \o t)[i] = s[i]
           /\ \A i \in 1 .. Len(t) : (s \o t)[Len(s) + i] = t[i]
<1>1. /\ s \o t \in Seq(S) /\ Len(s \o t) = Len(s) + Len(t)
      /\ \A i \in 1 .. Len(s) + Len(t) :
            (s \o t)[i] = IF i <= Len(s) THEN s[i] ELSE t[i - Len(s)]
  BY ConcatProperties
<1>2. Len(s) \in Nat /\ Len(t) \in Nat BY LenProperties
<1>3. ASSUME NEW i \in 1 .. Len(t) PROVE (s \o t)[Len(s) + i] = t[i]
  <2>1. /\ Len(s) + i \in 1 .. Len(s) + Len(t) /\ ~(Len(s) + i <= Len(s))
        /\ Len(s) + i - Len(s) = i
    BY <1>2
  <2>2. QED BY <1>1, <2>1
<1>4. QED BY <1>1, <1>2, <1>3

LEMMA FourParts ==
    ASSUME NEW S, NEW s \in Seq(S), NEW t \in Seq(S), NEW u \in Seq(S), NEW v \in Seq(S),
           NEW w, w = s \o t \o u \o v
    PROVE  /\ w \in Seq(S) /\ Len(w) = Len(s) + Len(t) + Len(u) + Len(v)
           /\ \A i \in 1 .. Len(s) : w[i] = s[i]
           /\ \A i \in 1 .. Len(t) : w[Len(s) + i] = t[i]
           /\ \A i \in 1 .. Len(u) : w[Len(s) + Len(t) + i] = u[i]
           /\ \A i \in 1 .. Len(v) : w[Len(s) + Len(t) + Len(u) + i] = v[i]
<1> DEFINE st == s \o t
           stu == st \o u
<1>0. w = stu \o v OBVIOUS
<1>1. /\ st \in Seq(S) /\ Len(st) = Len(s) + Len(t)
      /\ \A i \in 1 .. Len(s) : st[i] = s[i]
      /\ \A i \in 1 .. Len(t) : st[Len(s) + i] = t[i]
  BY TwoParts
<1> HIDE DEF st
<1>2. /\ stu \in Seq(S) /\ Len(stu) = Len(st) + Len(u)
      /\ \A i \in 1 .. Len(st) : stu[i] = st[i]
      /\ \A i \in 1 .. Len(u) : stu[Len(st) + i] = u[i]
  <2>1. st \in Seq(S) BY <1>1
  <2>2. QED BY <2>1, TwoParts
<1> HIDE DEF stu
<1>3. /\ w \in Seq(S) /\ Len(w) = Len(stu) + Len(v)
      /\ \A i \in 1 .. Len(stu) : w[i] = stu[i]
      /\ \A i \in 1 .. Len(v) : w[Len(stu) + i] = v[i]
  <2>1. stu \in Seq(S) BY <1>2
  <2>2. QED BY <1>0, <2>1, TwoParts
<1>4. Len(s) \in Nat /\ Len(t) \in Nat /\ Len(u) \in Nat /\ Len(v) \in Nat
  BY LenProperties
<1>5. \A i \in 1 .. Len(s) : i \in 1 .. Len(st) /\ i \in 1 .. Len(stu)
  BY <1>1, <1>2, <1>4
<1>6. \A i \in 1 .. Len(t) : Len(s) + i \in 1 .. Len(st) /\ Len(s) + i \in 1 .. Len(stu)
  BY <1>1, <1>2, <1>4
<1>7. \A i \in 1 .. Len(u) : Len(st) + i \in 1 .. Len(stu)
  BY <1>1, <1>2, <1>4
<1>8. QED BY <1>1, <1>2, <1>3, <1>4, <1>5, <1>6, <1>7

(***************************************************************************)
(* The handlers, write by write                                            *)
(***************************************************************************)
LEMMA WriteTypes ==
    /\ \A r \in Runs, session \in Sessions :
          SaveRun(r, session) \in Writes /\ RecordStatus(r, session) \in Writes
    /\ \A a \in ActionId :
          /\ \A state \in {"Pending", "Completed", "Failed"} : SaveAction(a, state) \in Writes
          /\ Enqueue(a) \in Writes /\ a # NoAction /\ RunOf(a) \in Runs
          /\ Waiting(a) \in Sessions
    /\ \A r \in Runs, k \in {"RunCompleted", "RunFailed", "RunSubmitted", "RunStarted",
                             "RunResumed", "ActionEnqueued", "ActionClaimed",
                             "ActionCompleted", "ActionFailed"},
          a \in ActionId \cup {NoAction} :
          Publish(r, k, a) \in Writes
    /\ \A r \in Runs, answer \in {"Ok", "Err"} : Reply(r, answer) \in Writes
    /\ {Unknown, Completed, Failed} \subseteq Sessions
<1>1. \A r \in Runs, k \in {"RunCompleted", "RunFailed", "RunSubmitted", "RunStarted",
                            "RunResumed", "ActionEnqueued", "ActionClaimed",
                            "ActionCompleted", "ActionFailed"},
         a \in ActionId \cup {NoAction} :
         Publish(r, k, a) \in Writes
  <2>1. SUFFICES ASSUME NEW r \in Runs,
                        NEW k \in {"RunCompleted", "RunFailed", "RunSubmitted", "RunStarted",
                                   "RunResumed", "ActionEnqueued", "ActionClaimed",
                                   "ActionCompleted", "ActionFailed"},
                        NEW a \in ActionId \cup {NoAction}
                 PROVE  Publish(r, k, a) \in Writes
    OBVIOUS
  <2> DEFINE e == [kind |-> k, action |-> a]
  <2>2. e \in Events BY DEF Events, TerminalEvents
  <2>3. e.kind = k /\ e.action = a OBVIOUS
  <2>4. QED BY <2>2, <2>3 DEF Writes
<1>2. \A r \in Runs, session \in Sessions :
         SaveRun(r, session) \in Writes /\ RecordStatus(r, session) \in Writes
  BY DEF Writes
<1>3. \A a \in ActionId :
         /\ \A state \in {"Pending", "Completed", "Failed"} : SaveAction(a, state) \in Writes
         /\ Enqueue(a) \in Writes
  BY DEF Writes
<1>4. \A a \in ActionId : a # NoAction /\ RunOf(a) \in Runs /\ Waiting(a) \in Sessions
  BY DEF ActionId, NoAction, RunOf, Sessions
<1>5. \A r \in Runs, answer \in {"Ok", "Err"} : Reply(r, answer) \in Writes
  BY DEF Writes
<1>6. QED BY <1>1, <1>2, <1>3, <1>4, <1>5 DEF Sessions

LEMMA ActionWritesElements ==
    ASSUME NEW c \in ActionId \cup {NoAction}, NEW a \in ActionId \cup {NoAction}
    PROVE  LET t == ActionWrites(c, a)
           IN  /\ t \in Seq(Writes)
               /\ c = NoAction /\ a = NoAction => Len(t) = 0
               /\ c = NoAction /\ a # NoAction =>
                     Len(t) = 2 /\ t[1] = SaveAction(a, "Pending") /\ t[2] = Enqueue(a)
               /\ c # NoAction /\ a = NoAction => Len(t) = 1 /\ t[1] = SaveAction(c, "Completed")
               /\ c # NoAction /\ a # NoAction =>
                     /\ Len(t) = 3 /\ t[1] = SaveAction(c, "Completed")
                     /\ t[2] = SaveAction(a, "Pending") /\ t[3] = Enqueue(a)
<1> DEFINE s == IF c # NoAction THEN <<SaveAction(c, "Completed")>> ELSE <<>>
           u == IF a # NoAction THEN <<SaveAction(a, "Pending"), Enqueue(a)>> ELSE <<>>
<1>1. /\ s \in Seq(Writes)
      /\ c = NoAction => Len(s) = 0
      /\ c # NoAction => Len(s) = 1 /\ s[1] = SaveAction(c, "Completed")
  <2>1. c # NoAction => SaveAction(c, "Completed") \in Writes BY WriteTypes
  <2>2. QED BY <2>1
<1>2. /\ u \in Seq(Writes)
      /\ a = NoAction => Len(u) = 0
      /\ a # NoAction => Len(u) = 2 /\ u[1] = SaveAction(a, "Pending") /\ u[2] = Enqueue(a)
  <2>1. a # NoAction => SaveAction(a, "Pending") \in Writes /\ Enqueue(a) \in Writes
    BY WriteTypes
  <2>2. QED BY <2>1
<1>3. ActionWrites(c, a) = s \o u BY DEF ActionWrites
<1> HIDE DEF s, u
<1>4. /\ s \o u \in Seq(Writes) /\ Len(s \o u) = Len(s) + Len(u)
      /\ \A i \in 1 .. Len(s) : (s \o u)[i] = s[i]
      /\ \A i \in 1 .. Len(u) : (s \o u)[Len(s) + i] = u[i]
  <2>1. s \in Seq(Writes) /\ u \in Seq(Writes) BY <1>1, <1>2
  <2>2. QED BY <2>1, TwoParts
<1> DEFINE t == s \o u
<1> HIDE DEF t
<1>5. /\ t \in Seq(Writes) /\ Len(t) = Len(s) + Len(u)
      /\ \A i \in 1 .. Len(s) : t[i] = s[i]
      /\ \A i \in 1 .. Len(u) : t[Len(s) + i] = u[i]
  BY <1>4 DEF t
<1>6. ActionWrites(c, a) = t BY <1>3 DEF t
<1>7. CASE c = NoAction BY <1>1, <1>2, <1>5, <1>6, <1>7
<1>8. CASE c # NoAction
  <2>1. Len(s) = 1 /\ t[1] = s[1]
    <3>1. Len(s) = 1 /\ 1 \in 1 .. 1 BY <1>1, <1>8
    <3>2. QED BY <1>5, <3>1
  <2>2. CASE a = NoAction BY <1>1, <1>2, <1>5, <1>6, <1>8, <2>1, <2>2
  <2>3. CASE a # NoAction
    <3>1. Len(u) = 2 /\ t[1 + 1] = u[1] /\ t[1 + 2] = u[2] BY <1>2, <1>5, <2>1, <2>3
    <3>2. t[2] = u[1] /\ t[3] = u[2] BY <3>1
    <3>3. QED BY <1>1, <1>2, <1>5, <1>6, <1>8, <2>1, <2>3, <3>1, <3>2
  <2>4. QED BY <2>2, <2>3
<1>9. QED BY <1>7, <1>8

LEMMA TransitionEventsElements ==
    ASSUME NEW r \in Runs, NEW c \in ActionId \cup {NoAction}, NEW a \in ActionId \cup {NoAction}
    PROVE  LET u == TransitionEvents(r, c, a)
           IN  /\ u \in Seq(Writes) /\ Len(u) = 3
               /\ u[1] = IF c # NoAction THEN Publish(r, "ActionCompleted", c)
                                         ELSE Publish(r, "RunSubmitted", NoAction)
               /\ u[2] = IF c # NoAction THEN Publish(r, "RunResumed", NoAction)
                                         ELSE Publish(r, "RunStarted", NoAction)
               /\ u[3] = IF a # NoAction THEN Publish(r, "ActionEnqueued", a)
                                         ELSE Publish(r, "RunCompleted", NoAction)
<1> DEFINE x == IF c # NoAction THEN Publish(r, "ActionCompleted", c)
                                ELSE Publish(r, "RunSubmitted", NoAction)
           y == IF c # NoAction THEN Publish(r, "RunResumed", NoAction)
                                ELSE Publish(r, "RunStarted", NoAction)
           z == IF a # NoAction THEN Publish(r, "ActionEnqueued", a)
                                ELSE Publish(r, "RunCompleted", NoAction)
           s == <<x, y>>
           v == <<z>>
           u == s \o v
<1>1. x \in Writes /\ y \in Writes /\ z \in Writes BY WriteTypes
<1>2. TransitionEvents(r, c, a) = u BY DEF TransitionEvents
<1> HIDE DEF x, y, z
<1>3. s \in Seq(Writes) /\ v \in Seq(Writes) BY <1>1
<1>4. Len(s) = 2 /\ Len(v) = 1 /\ s[1] = x /\ s[2] = y /\ v[1] = z OBVIOUS
<1> HIDE DEF s, v
<1>5. /\ u \in Seq(Writes) /\ Len(u) = Len(s) + Len(v)
      /\ \A i \in 1 .. Len(s) : u[i] = s[i]
      /\ \A i \in 1 .. Len(v) : u[Len(s) + i] = v[i]
  BY <1>3, TwoParts
<1> HIDE DEF u
<1>6. Len(u) = 3 /\ u[1] = x /\ u[2] = y /\ u[2 + 1] = z BY <1>4, <1>5
<1>7. u[3] = z BY <1>6
<1>8. QED BY <1>2, <1>5, <1>6, <1>7 DEF x, y, z

LEMMA StepElements ==
    ASSUME NEW r \in Runs, NEW c \in ActionId \cup {NoAction}, NEW a \in ActionId \cup {NoAction}
    PROVE  LET p == Step(r, c, a)
               n == Len(p)
           IN  /\ p \in Seq(Writes)
               /\ n = 5 + (IF c # NoAction THEN 1 ELSE 0) + (IF a # NoAction THEN 2 ELSE 0)
               /\ p[1] = SaveRun(r, SessionAfter(a))
               /\ c # NoAction => p[2] = SaveAction(c, "Completed")
               /\ a # NoAction =>
                     p[n - 5] = SaveAction(a, "Pending") /\ p[n - 4] = Enqueue(a)
               /\ p[n - 3] = IF c # NoAction THEN Publish(r, "ActionCompleted", c)
                                             ELSE Publish(r, "RunSubmitted", NoAction)
               /\ p[n - 2] = IF c # NoAction THEN Publish(r, "RunResumed", NoAction)
                                             ELSE Publish(r, "RunStarted", NoAction)
               /\ p[n - 1] = IF a # NoAction THEN Publish(r, "ActionEnqueued", a)
                                             ELSE Publish(r, "RunCompleted", NoAction)
               /\ p[n] = RecordStatus(r, SessionAfter(a))
<1> DEFINE s == <<SaveRun(r, SessionAfter(a))>>
           t == ActionWrites(c, a)
           u == TransitionEvents(r, c, a)
           v == <<RecordStatus(r, SessionAfter(a))>>
           p == s \o t \o u \o v
<1>1. Step(r, c, a) = p BY DEF Step
<1>2. SessionAfter(a) \in Sessions BY WriteTypes DEF SessionAfter
<1>3. /\ s \in Seq(Writes) /\ Len(s) = 1 /\ s[1] = SaveRun(r, SessionAfter(a))
      /\ v \in Seq(Writes) /\ Len(v) = 1 /\ v[1] = RecordStatus(r, SessionAfter(a))
  BY <1>2, WriteTypes
<1>4. t \in Seq(Writes) /\ u \in Seq(Writes) /\ Len(u) = 3
  BY ActionWritesElements, TransitionEventsElements
<1>5. /\ p \in Seq(Writes) /\ Len(p) = Len(s) + Len(t) + Len(u) + Len(v)
      /\ \A i \in 1 .. Len(s) : p[i] = s[i]
      /\ \A i \in 1 .. Len(t) : p[Len(s) + i] = t[i]
      /\ \A i \in 1 .. Len(u) : p[Len(s) + Len(t) + i] = u[i]
      /\ \A i \in 1 .. Len(v) : p[Len(s) + Len(t) + Len(u) + i] = v[i]
  <2> HIDE DEF s, t, u, v
  <2>1. s \in Seq(Writes) /\ t \in Seq(Writes) /\ u \in Seq(Writes) /\ v \in Seq(Writes)
    BY <1>3, <1>4
  <2>2. p = s \o t \o u \o v OBVIOUS
  <2> HIDE DEF p
  <2>3. QED BY <2>1, <2>2, FourParts, SMTT(60)
<1> HIDE DEF s, t, u, v, p
<1>6. Len(t) \in Nat BY <1>4, LenProperties
<1> DEFINE n == Len(p)
<1>7. n = 5 + Len(t) /\ n \in Nat BY <1>3, <1>4, <1>5, <1>6
<1>8. p[1] = s[1] /\ p[n] = v[1]
  <2>1. 1 \in 1 .. Len(s) /\ 1 \in 1 .. Len(v) /\ n = Len(s) + Len(t) + Len(u) + 1
    BY <1>3, <1>4, <1>6, <1>7
  <2>2. QED BY <1>5, <2>1
<1>9. p[n - 3] = u[1] /\ p[n - 2] = u[2] /\ p[n - 1] = u[3]
  <2>1. 1 \in 1 .. Len(u) /\ 2 \in 1 .. Len(u) /\ 3 \in 1 .. Len(u) BY <1>4
  <2>2. /\ Len(s) + Len(t) + 1 = n - 3 /\ Len(s) + Len(t) + 2 = n - 2
        /\ Len(s) + Len(t) + 3 = n - 1
    BY <1>3, <1>6, <1>7
  <2>3. QED BY <1>5, <2>1, <2>2
<1>10. /\ Len(t) = (IF c # NoAction THEN 1 ELSE 0) + (IF a # NoAction THEN 2 ELSE 0)
       /\ c # NoAction => t[1] = SaveAction(c, "Completed")
       /\ a # NoAction =>
             t[Len(t) - 1] = SaveAction(a, "Pending") /\ t[Len(t)] = Enqueue(a)
  <2>1. CASE c = NoAction /\ a = NoAction BY <2>1, ActionWritesElements DEF t
  <2>2. CASE c = NoAction /\ a # NoAction
    <3>1. Len(t) = 2 /\ t[1] = SaveAction(a, "Pending") /\ t[2] = Enqueue(a)
      BY <2>2, ActionWritesElements DEF t
    <3>2. QED BY <2>2, <3>1
  <2>3. CASE c # NoAction /\ a = NoAction BY <2>3, ActionWritesElements DEF t
  <2>4. CASE c # NoAction /\ a # NoAction
    <3>1. /\ Len(t) = 3 /\ t[1] = SaveAction(c, "Completed")
          /\ t[2] = SaveAction(a, "Pending") /\ t[3] = Enqueue(a)
      BY <2>4, ActionWritesElements DEF t
    <3>2. QED BY <2>4, <3>1
  <2>5. QED BY <2>1, <2>2, <2>3, <2>4
<1>11. c # NoAction => p[2] = t[1]
  <2>1. c # NoAction => 1 \in 1 .. Len(t) /\ Len(s) + 1 = 2 BY <1>3, <1>6, <1>10
  <2>2. QED BY <1>5, <2>1
<1>12. a # NoAction => p[n - 5] = t[Len(t) - 1] /\ p[n - 4] = t[Len(t)]
  <2>1. a # NoAction =>
          /\ Len(t) - 1 \in 1 .. Len(t) /\ Len(t) \in 1 .. Len(t)
          /\ Len(s) + (Len(t) - 1) = n - 5 /\ Len(s) + Len(t) = n - 4
    BY <1>3, <1>6, <1>7, <1>10
  <2>2. QED BY <1>5, <2>1
<1>13. /\ u[1] = IF c # NoAction THEN Publish(r, "ActionCompleted", c)
                                 ELSE Publish(r, "RunSubmitted", NoAction)
       /\ u[2] = IF c # NoAction THEN Publish(r, "RunResumed", NoAction)
                                 ELSE Publish(r, "RunStarted", NoAction)
       /\ u[3] = IF a # NoAction THEN Publish(r, "ActionEnqueued", a)
                                 ELSE Publish(r, "RunCompleted", NoAction)
  BY TransitionEventsElements DEF u
<1>14. n = 5 + (IF c # NoAction THEN 1 ELSE 0) + (IF a # NoAction THEN 2 ELSE 0)
  BY <1>7, <1>10
<1>15. QED
  BY <1>1, <1>3, <1>5, <1>8, <1>9, <1>10, <1>11, <1>12, <1>13, <1>14

LEMMA FailActionElements ==
    ASSUME NEW a \in ActionId, NEW saveFirst \in BOOLEAN
    PROVE  LET p == FailAction(a, saveFirst)
               save == SaveAction(a, "Failed")
               report == Publish(RunOf(a), "ActionFailed", a)
           IN  /\ p \in Seq(Writes) /\ Len(p) = 5
               /\ p[1] = (IF saveFirst THEN save ELSE report)
               /\ p[2] = (IF saveFirst THEN report ELSE save)
               /\ p[3] = SaveRun(RunOf(a), Failed)
               /\ p[4] = Publish(RunOf(a), "RunFailed", NoAction)
               /\ p[5] = RecordStatus(RunOf(a), Failed)
<1> DEFINE save == SaveAction(a, "Failed")
           report == Publish(RunOf(a), "ActionFailed", a)
           x == IF saveFirst THEN save ELSE report
           y == IF saveFirst THEN report ELSE save
           s == <<x>>
           t == <<y>>
           u == FailRun(RunOf(a))
           p == s \o t \o u
<1>1. save \in Writes /\ report \in Writes BY WriteTypes
<1>2. /\ s \in Seq(Writes) /\ Len(s) = 1 /\ s[1] = x
      /\ t \in Seq(Writes) /\ Len(t) = 1 /\ t[1] = y
  BY <1>1
<1>3. /\ u \in Seq(Writes) /\ Len(u) = 3 /\ u[1] = SaveRun(RunOf(a), Failed)
      /\ u[2] = Publish(RunOf(a), "RunFailed", NoAction)
      /\ u[3] = RecordStatus(RunOf(a), Failed)
  <2>1. /\ SaveRun(RunOf(a), Failed) \in Writes
        /\ Publish(RunOf(a), "RunFailed", NoAction) \in Writes
        /\ RecordStatus(RunOf(a), Failed) \in Writes
    BY WriteTypes
  <2>2. QED BY <2>1 DEF FailRun
<1>4. FailAction(a, saveFirst) = p BY DEF FailAction
<1> HIDE DEF x, y, s, t, u
<1> DEFINE st == s \o t
<1>5. /\ st \in Seq(Writes) /\ Len(st) = Len(s) + Len(t)
      /\ \A i \in 1 .. Len(s) : st[i] = s[i]
      /\ \A i \in 1 .. Len(t) : st[Len(s) + i] = t[i]
  <2>1. s \in Seq(Writes) /\ t \in Seq(Writes) BY <1>2
  <2>2. QED BY <2>1, TwoParts
<1> HIDE DEF st
<1>6. Len(st) = 2 /\ st[1] = x /\ st[2] = y
  <2>1. 1 \in 1 .. Len(s) /\ 1 \in 1 .. Len(t) /\ Len(s) + 1 = 2 BY <1>2
  <2>2. QED BY <1>2, <1>5, <2>1
<1>7. /\ st \o u \in Seq(Writes) /\ Len(st \o u) = Len(st) + Len(u)
      /\ \A i \in 1 .. Len(st) : (st \o u)[i] = st[i]
      /\ \A i \in 1 .. Len(u) : (st \o u)[Len(st) + i] = u[i]
  <2>1. st \in Seq(Writes) /\ u \in Seq(Writes) BY <1>3, <1>5
  <2>2. QED BY <2>1, TwoParts
<1>8. p = st \o u BY DEF st
<1> HIDE DEF p
<1>9. /\ p \in Seq(Writes) /\ Len(p) = 5 /\ p[1] = x /\ p[2] = y
      /\ p[3] = u[1] /\ p[4] = u[2] /\ p[5] = u[3]
  <2>1. Len(p) = 5 /\ Len(st) = 2 /\ Len(u) = 3 BY <1>3, <1>6, <1>7, <1>8
  <2>2. /\ 1 \in 1 .. 2 /\ 2 \in 1 .. 2 /\ 1 \in 1 .. 3 /\ 2 \in 1 .. 3 /\ 3 \in 1 .. 3
        /\ 2 + 1 = 3 /\ 2 + 2 = 4 /\ 2 + 3 = 5
    OBVIOUS
  <2>3. QED BY <1>6, <1>7, <1>8, <2>1, <2>2
<1>10. QED BY <1>3, <1>4, <1>9 DEF x, y

(***************************************************************************)
(* Type correctness                                                        *)
(***************************************************************************)
LEMMA WriteFields ==
    ASSUME NEW w \in Writes
    PROVE  /\ w.op \in {"SaveRun", "RecordStatus", "SaveAction", "Enqueue", "Publish", "Reply"}
           /\ w.op \in {"SaveRun", "RecordStatus"} => w.run \in Runs /\ w.session \in Sessions
           /\ w.op = "SaveAction" =>
                 w.action \in ActionId /\ w.state \in {"Pending", "Completed", "Failed"}
           /\ w.op = "Enqueue" => w.action \in ActionId
           /\ w.op = "Publish" => w.run \in Runs /\ w.event \in Events
           /\ w.op = "Reply" => w.run \in Runs /\ w.answer \in {"Ok", "Err"}
<1>1. CASE w \in {Publish(r, e.kind, e.action) : r \in Runs, e \in Events}
  <2>1. PICK r \in Runs, e \in Events : w = Publish(r, e.kind, e.action) BY <1>1
  <2>2. [kind |-> e.kind, action |-> e.action] = e BY DEF Events
  <2>3. QED BY <2>1, <2>2 DEF Publish
<1>2. CASE w \in {SaveRun(r, session) : r \in Runs, session \in Sessions}
            \cup {RecordStatus(r, session) : r \in Runs, session \in Sessions}
  BY <1>2 DEF SaveRun, RecordStatus
<1>3. CASE w \in {SaveAction(a, state) : a \in ActionId,
                                         state \in {"Pending", "Completed", "Failed"}}
  BY <1>3 DEF SaveAction
<1>4. CASE w \in {Enqueue(a) : a \in ActionId} BY <1>4 DEF Enqueue
<1>5. CASE w \in {Reply(r, answer) : r \in Runs, answer \in {"Ok", "Err"}}
  BY <1>5 DEF Reply
<1>6. QED BY <1>1, <1>2, <1>3, <1>4, <1>5 DEF Writes

LEMMA CutOffType ==
    ASSUME TypeOK, NEW w \in Writes, CutOff(w)
    PROVE  /\ records' \in [ActionId -> {"Absent", "Pending", "Completed", "Failed"}]
           /\ log' \in [Runs -> SUBSET TerminalEvents]
<1>1. CASE UNCHANGED <<records, log>> BY <1>1 DEF TypeOK
<1>2. CASE FirstFile(w)
  <2>1. records' \in [ActionId -> {"Absent", "Pending", "Completed", "Failed"}]
    BY <1>2, WriteFields DEF FirstFile, TypeOK
  <2>2. log' \in [Runs -> SUBSET TerminalEvents]
    <3>1. CASE w.op = "Publish"
      <4>1. w.run \in Runs BY <3>1, WriteFields
      <4>2. log[w.run] \cup ({w.event.kind} \cap TerminalEvents) \in SUBSET TerminalEvents
        BY <4>1 DEF TypeOK
      <4>3. QED BY <1>2, <3>1, <4>1, <4>2 DEF FirstFile, TypeOK
    <3>2. CASE w.op # "Publish" BY <1>2, <3>2 DEF FirstFile, TypeOK
    <3>3. QED BY <3>1, <3>2
  <2>3. QED BY <2>1, <2>2
<1>3. QED BY <1>1, <1>2 DEF CutOff

LEMMA PerformType ==
    ASSUME TypeOK, NEW w \in Writes, Perform(w)
    PROVE  /\ store' \in [Runs -> Sessions] /\ status' \in [Runs -> Sessions]
           /\ records' \in [ActionId -> {"Absent", "Pending", "Completed", "Failed"}]
           /\ log' \in [Runs -> SUBSET TerminalEvents]
           /\ feed' \in [Runs -> Seq(Events)]
           /\ reply' \in [Runs -> {"None", "Ok", "Err"}]
           /\ actionQueue' \in Seq(ActionId)
<1>1. store' \in [Runs -> Sessions] /\ status' \in [Runs -> Sessions]
  BY WriteFields DEF Perform, TypeOK
<1>2. /\ records' \in [ActionId -> {"Absent", "Pending", "Completed", "Failed"}]
      /\ log' \in [Runs -> SUBSET TerminalEvents]
  BY CutOffType DEF Perform, CutOff
<1>3. feed' \in [Runs -> Seq(Events)]
  <2>1. CASE w.op = "Publish"
    <3>1. w.run \in Runs /\ w.event \in Events BY <2>1, WriteFields
    <3>2. Append(feed[w.run], w.event) \in Seq(Events) BY <3>1, AppendProperties DEF TypeOK
    <3>3. QED BY <2>1, <3>2 DEF Perform, TypeOK
  <2>2. CASE w.op # "Publish" BY <2>2 DEF Perform, TypeOK
  <2>3. QED BY <2>1, <2>2
<1>4. reply' \in [Runs -> {"None", "Ok", "Err"}]
  BY WriteFields DEF Perform, TypeOK
<1>5. actionQueue' \in Seq(ActionId)
  BY WriteFields, AppendProperties DEF Perform, TypeOK
<1>6. QED BY <1>1, <1>2, <1>3, <1>4, <1>5

(* Sessions, causes and updates are told apart by their kinds. *)
LEMMA SessionFields ==
    /\ \A session \in Sessions : IsWaiting(session) =>
          session.action \in ActionId /\ session = Waiting(session.action)
    /\ \A a \in ActionId : IsWaiting(Waiting(a)) /\ Waiting(a).action = a
    /\ \A a \in ActionId : Waiting(a) \notin {Unknown, Completed, Failed}
    /\ ~IsWaiting(Unknown) /\ ~IsWaiting(Completed) /\ ~IsWaiting(Failed)
    /\ Unknown # Completed /\ Unknown # Failed /\ Completed # Failed
BY DEF Sessions, IsWaiting, Waiting, Unknown, Completed, Failed

LEMMA CauseFields ==
    ASSUME NEW c \in Updates \cup {Submission(r) : r \in Runs} \cup {Idle}, c # Idle
    PROVE  /\ RunOf(c.action) \in Runs
           /\ c.kind \in {"Submit", "Claimed", "Completed", "Failed"}
           /\ c.kind # "Submit" => c \in Updates /\ c.action \in ActionId
           /\ c.kind = "Submit" => c = Submission(RunOf(c.action)) /\ c.action \notin ActionId
<1>1. CASE c \in Updates
  BY <1>1 DEF Updates, ActionId, RunOf
<1>2. CASE c \in {Submission(r) : r \in Runs}
  BY <1>2 DEF Submission, RunOf, ActionId
<1>3. QED BY <1>1, <1>2

LEMMA NotIdle ==
    /\ \A u \in Updates : u # Idle
    /\ \A r \in Runs : Submission(r) # Idle
BY DEF Updates, Idle, Submission

LEMMA NextActionType ==
    ASSUME TypeOK, NEW r \in Runs, issued[r] < MaxCalls
    PROVE  NextAction(r) \in ActionId /\ issued[r] + 1 \in 0 .. MaxCalls
BY EngineAssumption DEF TypeOK, NextAction, ActionId

(***************************************************************************)
(* Every handler is orderly, and stays so while it is worked off            *)
(***************************************************************************)
LEMMA TailElements ==
    ASSUME NEW S, NEW p \in Seq(S), p # <<>>
    PROVE  /\ Head(p) = p[1] /\ p[1] \in S /\ Len(p) \in Nat \ {0}
           /\ Tail(p) \in Seq(S) /\ Len(Tail(p)) = Len(p) - 1
           /\ \A i \in 1 .. Len(Tail(p)) : i + 1 \in 1 .. Len(p) /\ Tail(p)[i] = p[i + 1]
           /\ \A j \in 1 .. Len(p) : j > 1 =>
                 j - 1 \in 1 .. Len(Tail(p)) /\ Tail(p)[j - 1] = p[j]
<1>1. /\ Tail(p) \in Seq(S) /\ Len(Tail(p)) = Len(p) - 1
      /\ \A i \in 1 .. Len(Tail(p)) : Tail(p)[i] = p[i + 1]
      /\ Head(p) \in S
  BY HeadTailProperties
<1>2. Len(p) \in Nat \ {0} BY EmptySeq
<1>3. Head(p) = p[1] OBVIOUS
<1>4. \A i \in 1 .. Len(Tail(p)) : i + 1 \in 1 .. Len(p) BY <1>1, <1>2
<1>5. \A j \in 1 .. Len(p) : j > 1 =>
         j - 1 \in 1 .. Len(Tail(p)) /\ (j - 1) + 1 = j
  BY <1>1, <1>2
<1>6. QED BY <1>1, <1>2, <1>3, <1>4, <1>5

LEMMA OrderlyTail ==
    ASSUME NEW p \in Seq(Writes), p # <<>>, NEW r, NEW c, Orderly(p, r, c)
    PROVE  Orderly(Tail(p), r, c)
<1> DEFINE q == Tail(p)
<1>1. /\ Len(p) \in Nat \ {0} /\ Len(q) = Len(p) - 1
      /\ \A i \in 1 .. Len(q) : i + 1 \in 1 .. Len(p) /\ q[i] = p[i + 1]
      /\ \A j \in 1 .. Len(p) : j > 1 => j - 1 \in 1 .. Len(q) /\ q[j - 1] = p[j]
  BY TailElements
<1> HIDE DEF q
<1>2. \A i \in 1 .. Len(q) : WriteRun(q[i]) = r BY <1>1 DEF Orderly
<1>3. \A i, j \in 1 .. Len(q) :
         HasTarget(q[i]) /\ HasTarget(q[j]) => Target(q[i]) = Target(q[j])
  BY <1>1 DEF Orderly
<1>4. ASSUME NEW i \in 1 .. Len(q), q[i].op = "SaveRun"
      PROVE  /\ q[i].session # Unknown /\ q[i].session = Failed
             /\ \E j \in 1 .. Len(q) : j > i /\ q[j].op = "RecordStatus"
             /\ IsWaiting(q[i].session) =>
                   \E j \in 1 .. Len(q) : j > i /\ q[j] = Enqueue(q[i].session.action)
  <2>1. i + 1 \in 1 .. Len(p) /\ p[i + 1].op = "SaveRun" /\ q[i] = p[i + 1] BY <1>1, <1>4
  <2>2. /\ q[i].session # Unknown
        /\ \E j \in 1 .. Len(p) : j > i + 1 /\ p[j].op = "RecordStatus"
        /\ q[i].session # Failed => i + 1 = 1
        /\ IsWaiting(q[i].session) =>
              \E j \in 1 .. Len(p) : j > i + 1 /\ p[j] = Enqueue(q[i].session.action)
    BY <2>1 DEF Orderly
  <2>3. ASSUME NEW j \in 1 .. Len(p), j > i + 1
        PROVE  j - 1 \in 1 .. Len(q) /\ j - 1 > i /\ q[j - 1] = p[j]
    BY <1>1, <2>3
  <2>4. \E j \in 1 .. Len(q) : j > i /\ q[j].op = "RecordStatus" BY <2>2, <2>3
  <2>5. IsWaiting(q[i].session) =>
           \E j \in 1 .. Len(q) : j > i /\ q[j] = Enqueue(q[i].session.action)
    BY <2>2, <2>3
  <2>6. QED BY <2>2, <2>4, <2>5
<1>5. \A i, j \in 1 .. Len(q) : i < j =>
         /\ q[i].op = "RecordStatus" => ~CanFail(q[j])
         /\ q[i].op = "Publish" /\ q[i].event.kind = "RunCompleted" => ~CanFail(q[j])
         /\ ~(q[i].op = "Enqueue" /\ q[j].op = "Enqueue")
  BY <1>1 DEF Orderly
<1>6. \A i \in 1 .. Len(q) : q[i].op = "Reply" => i = Len(q) BY <1>1 DEF Orderly
<1>7. \A i \in 1 .. Len(q) : q[i].op = "SaveAction" /\ q[i].state = "Completed" =>
         q[i].action = c
  BY <1>1 DEF Orderly
<1>8. Orderly(q, r, c) BY <1>2, <1>3, <1>4, <1>5, <1>6, <1>7 DEF Orderly
<1>9. QED BY <1>8 DEF q

(* The writes of a step at their places, n being that of the last but for a  *)
(* reply.                                                                    *)
StepAt(p, n, i, r, c, a) ==
    \/ i = 1 /\ p[i] = SaveRun(r, SessionAfter(a))
    \/ i = 2 /\ c # NoAction /\ p[i] = SaveAction(c, "Completed")
    \/ i = n - 5 /\ a # NoAction /\ p[i] = SaveAction(a, "Pending")
    \/ i = n - 4 /\ a # NoAction /\ p[i] = Enqueue(a)
    \/ i = n - 3 /\ p[i] = IF c # NoAction THEN Publish(r, "ActionCompleted", c)
                                            ELSE Publish(r, "RunSubmitted", NoAction)
    \/ i = n - 2 /\ p[i] = IF c # NoAction THEN Publish(r, "RunResumed", NoAction)
                                            ELSE Publish(r, "RunStarted", NoAction)
    \/ i = n - 1 /\ p[i] = IF a # NoAction THEN Publish(r, "ActionEnqueued", a)
                                            ELSE Publish(r, "RunCompleted", NoAction)
    \/ i = n /\ p[i] = RecordStatus(r, SessionAfter(a))
    \/ i = n + 1 /\ c = NoAction /\ p[i] = Reply(r, "Ok")

Stepwise(p, n, r, c, a) ==
    /\ p \in Seq(Writes) /\ n \in 5 .. 8 /\ Len(p) \in n .. n + 1
    /\ \A i \in 1 .. Len(p) : StepAt(p, n, i, r, c, a)
    /\ p[1] = SaveRun(r, SessionAfter(a))
    /\ a # NoAction => n > 6 /\ p[n - 4] = Enqueue(a)
    /\ c # NoAction => n > 5
    /\ a # NoAction /\ c # NoAction => n > 7
    /\ p[n] = RecordStatus(r, SessionAfter(a))

LEMMA StepIsStepwise ==
    ASSUME NEW r \in Runs, NEW c \in ActionId \cup {NoAction}, NEW a \in ActionId \cup {NoAction}
    PROVE  Stepwise(Step(r, c, a), Len(Step(r, c, a)), r, c, a)
<1> DEFINE p == Step(r, c, a)
           n == Len(p)
<1>1. /\ p \in Seq(Writes)
      /\ n = 5 + (IF c # NoAction THEN 1 ELSE 0) + (IF a # NoAction THEN 2 ELSE 0)
      /\ p[1] = SaveRun(r, SessionAfter(a))
      /\ c # NoAction => p[2] = SaveAction(c, "Completed")
      /\ a # NoAction =>
            p[n - 5] = SaveAction(a, "Pending") /\ p[n - 4] = Enqueue(a)
      /\ p[n - 3] = IF c # NoAction THEN Publish(r, "ActionCompleted", c)
                                    ELSE Publish(r, "RunSubmitted", NoAction)
      /\ p[n - 2] = IF c # NoAction THEN Publish(r, "RunResumed", NoAction)
                                    ELSE Publish(r, "RunStarted", NoAction)
      /\ p[n - 1] = IF a # NoAction THEN Publish(r, "ActionEnqueued", a)
                                    ELSE Publish(r, "RunCompleted", NoAction)
      /\ p[n] = RecordStatus(r, SessionAfter(a))
  BY StepElements
<1> HIDE DEF p
<1>2. /\ n \in 5 .. 8
      /\ a # NoAction => n > 6
      /\ c # NoAction => n > 5
      /\ a # NoAction /\ c # NoAction => n > 7
  BY <1>1
<1>3. \A i \in 1 .. n :
         \/ i = 1 \/ (i = 2 /\ c # NoAction)
         \/ (i = n - 5 /\ a # NoAction) \/ (i = n - 4 /\ a # NoAction)
         \/ i = n - 3 \/ i = n - 2 \/ i = n - 1 \/ i = n
  BY <1>1
<1>4. ASSUME NEW i \in 1 .. n PROVE StepAt(p, n, i, r, c, a)
  BY <1>1, <1>3 DEF StepAt
<1>5. Stepwise(p, n, r, c, a) BY <1>1, <1>2, <1>4 DEF Stepwise
<1>6. QED BY <1>5 DEF p

LEMMA RepliedStepIsStepwise ==
    ASSUME NEW r \in Runs, NEW a \in ActionId \cup {NoAction}
    PROVE  Stepwise(Step(r, NoAction, a) \o <<Reply(r, "Ok")>>, Len(Step(r, NoAction, a)),
                    r, NoAction, a)
<1> DEFINE q == Step(r, NoAction, a)
           n == Len(q)
           t == <<Reply(r, "Ok")>>
           p == q \o t
<1>1. Stepwise(q, n, r, NoAction, a) BY StepIsStepwise
<1>2. t \in Seq(Writes) /\ Len(t) = 1 /\ t[1] = Reply(r, "Ok") BY WriteTypes
<1>3. q \in Seq(Writes) BY <1>1 DEF Stepwise
<1> HIDE DEF q, t
<1>4. /\ p \in Seq(Writes) /\ Len(p) = Len(q) + Len(t)
      /\ \A i \in 1 .. Len(q) : p[i] = q[i]
      /\ \A i \in 1 .. Len(t) : p[Len(q) + i] = t[i]
  BY <1>2, <1>3, TwoParts
<1> HIDE DEF p
<1>5. n \in 5 .. 8 /\ Len(p) = n + 1 /\ p[n + 1] = Reply(r, "Ok")
      /\ \A i \in 1 .. n : p[i] = q[i]
  BY <1>1, <1>2, <1>4 DEF Stepwise
<1>6. ASSUME NEW i \in 1 .. Len(p) PROVE StepAt(p, n, i, r, NoAction, a)
  <2>1. CASE i = n + 1 BY <1>5, <2>1 DEF StepAt
  <2>2. CASE i # n + 1
    <3>1. i \in 1 .. n /\ p[i] = q[i] BY <1>5, <2>2
    <3>2. StepAt(q, n, i, r, NoAction, a) BY <1>1, <3>1 DEF Stepwise
    <3>3. QED BY <3>1, <3>2 DEF StepAt
  <2>3. QED BY <2>1, <2>2
<1>7. /\ q[1] = SaveRun(r, SessionAfter(a)) /\ q[n] = RecordStatus(r, SessionAfter(a))
      /\ a # NoAction => n > 6 /\ q[n - 4] = Enqueue(a)
  BY <1>1 DEF Stepwise
<1>8. /\ p[1] = q[1] /\ p[n] = q[n]
      /\ a # NoAction => p[n - 4] = q[n - 4]
  BY <1>5, <1>7
<1>9. Stepwise(p, n, r, NoAction, a) BY <1>4, <1>5, <1>6, <1>7, <1>8 DEF Stepwise
<1>10. QED BY <1>9 DEF p, q, t

(* The fields of the writes of a step. *)
FieldsAt(p, n, i, r, c, a) ==
    /\ \/ i = 1 /\ p[i].op = "SaveRun" /\ p[i].session = SessionAfter(a)
       \/ i = 2 /\ p[i].op = "SaveAction" /\ p[i].action = c
          /\ p[i].state = "Completed" /\ c # NoAction
       \/ i = n - 5 /\ p[i].op = "SaveAction" /\ p[i].action = a
          /\ p[i].state = "Pending" /\ a # NoAction
       \/ i = n - 4 /\ p[i].op = "Enqueue" /\ p[i].action = a /\ a # NoAction
       \/ i = n - 3 /\ p[i].op = "Publish" /\ p[i].event.kind =
             IF c # NoAction THEN "ActionCompleted" ELSE "RunSubmitted"
       \/ i = n - 2 /\ p[i].op = "Publish" /\ p[i].event.kind =
             IF c # NoAction THEN "RunResumed" ELSE "RunStarted"
       \/ i = n - 1 /\ p[i].op = "Publish" /\ p[i].event.kind =
             IF a # NoAction THEN "ActionEnqueued" ELSE "RunCompleted"
       \/ i = n /\ p[i].op = "RecordStatus" /\ p[i].session = SessionAfter(a)
       \/ i = n + 1 /\ p[i].op = "Reply" /\ c = NoAction
    /\ p[i].op \in {"SaveRun", "RecordStatus", "Publish", "Reply"} => p[i].run = r

LEMMA StepFields ==
    ASSUME NEW r, NEW c, NEW a, NEW p, NEW n, Stepwise(p, n, r, c, a)
    PROVE  \A i \in 1 .. Len(p) : FieldsAt(p, n, i, r, c, a)
<1>1. SUFFICES ASSUME NEW i \in 1 .. Len(p) PROVE FieldsAt(p, n, i, r, c, a)
  OBVIOUS
<1>2. StepAt(p, n, i, r, c, a) BY DEF Stepwise
<1>3. QED
  BY <1>2 DEF StepAt, FieldsAt, SaveRun, RecordStatus, SaveAction, Enqueue, Publish, Reply

LEMMA StepIsOrderly ==
    ASSUME NEW r \in Runs, NEW c \in ActionId \cup {NoAction}, NEW a \in ActionId \cup {NoAction},
           c # NoAction => RunOf(c) = r, a # NoAction => RunOf(a) = r,
           NEW p, NEW n, Stepwise(p, n, r, c, a)
    PROVE  Orderly(p, r, c) /\ Led(p, r)
<1>1. /\ p \in Seq(Writes) /\ n \in 5 .. 8 /\ Len(p) \in n .. n + 1
      /\ p[1] = SaveRun(r, SessionAfter(a))
      /\ a # NoAction => n > 6 /\ p[n - 4] = Enqueue(a)
      /\ c # NoAction => n > 5
      /\ a # NoAction /\ c # NoAction => n > 7
      /\ p[n] = RecordStatus(r, SessionAfter(a))
  BY DEF Stepwise
<1> DEFINE Fields(i) == FieldsAt(p, n, i, r, c, a)
<1>2. \A i \in 1 .. Len(p) : Fields(i) BY StepFields
<1>3. /\ SessionAfter(a) = IF a # NoAction THEN Waiting(a) ELSE Completed
      /\ SessionAfter(a) # Unknown
      /\ IsWaiting(SessionAfter(a)) => a # NoAction /\ SessionAfter(a).action = a
  BY SessionFields DEF SessionAfter
<1>4. \A i \in 1 .. Len(p) : WriteRun(p[i]) = r
  BY <1>2 DEF WriteRun, FieldsAt
<1>5. \A i \in 1 .. Len(p) : HasTarget(p[i]) => Target(p[i]) = SessionAfter(a)
  <2>1. SUFFICES ASSUME NEW i \in 1 .. Len(p), HasTarget(p[i])
                 PROVE  Target(p[i]) = SessionAfter(a)
    OBVIOUS
  <2>2. Fields(i) BY <1>2
  <2>3. CASE p[i].op \in {"SaveRun", "RecordStatus"}
    BY <2>2, <2>3 DEF Target, FieldsAt
  <2>4. CASE p[i].op = "Enqueue" BY <1>3, <2>2, <2>4 DEF Target, FieldsAt
  <2>5. CASE p[i].op = "Publish"
    <3>1. p[i].event.kind \in TerminalEvents BY <2>1, <2>5 DEF HasTarget
    <3>2. p[i].event.kind = "RunCompleted" /\ a = NoAction
      BY <2>2, <2>5, <3>1 DEF FieldsAt, TerminalEvents
    <3>3. QED BY <1>3, <2>5, <3>2 DEF Target
  <2>6. QED BY <2>1, <2>3, <2>4, <2>5 DEF HasTarget
<1>6. ASSUME NEW i \in 1 .. Len(p), p[i].op = "SaveRun"
      PROVE  /\ p[i].session # Unknown
             /\ \E j \in 1 .. Len(p) : j > i /\ p[j].op = "RecordStatus"
             /\ p[i].session # Failed => i = 1
             /\ IsWaiting(p[i].session) =>
                   \E j \in 1 .. Len(p) : j > i /\ p[j] = Enqueue(p[i].session.action)
  <2>1. i = 1 /\ p[i].session = SessionAfter(a) BY <1>2, <1>6 DEF FieldsAt
  <2>2. n \in 1 .. Len(p) /\ n > 1 /\ p[n].op = "RecordStatus" BY <1>1 DEF RecordStatus
  <2>3. a # NoAction => n - 4 \in 1 .. Len(p) /\ n - 4 > 1 /\ p[n - 4] = Enqueue(a) BY <1>1
  <2>4. QED BY <1>3, <2>1, <2>2, <2>3
<1>7. \A i, j \in 1 .. Len(p) : i < j =>
         /\ p[i].op = "RecordStatus" => ~CanFail(p[j])
         /\ p[i].op = "Publish" /\ p[i].event.kind = "RunCompleted" => ~CanFail(p[j])
         /\ ~(p[i].op = "Enqueue" /\ p[j].op = "Enqueue")
  <2>1. SUFFICES ASSUME NEW i \in 1 .. Len(p), NEW j \in 1 .. Len(p), i < j
                 PROVE  /\ p[i].op = "RecordStatus" => ~CanFail(p[j])
                        /\ p[i].op = "Publish" /\ p[i].event.kind = "RunCompleted" =>
                              ~CanFail(p[j])
                        /\ ~(p[i].op = "Enqueue" /\ p[j].op = "Enqueue")
    OBVIOUS
  <2>2. Fields(i) /\ Fields(j) BY <1>2
  <2>3. n \in 5 .. 8 /\ (a # NoAction => n > 6) /\ (c # NoAction => n > 5) BY <1>1
  <2>4. p[i].op = "RecordStatus" => i = n BY <2>2 DEF FieldsAt
  <2>5. p[i].op = "Publish" /\ p[i].event.kind = "RunCompleted" => i = n - 1 BY <2>2 DEF FieldsAt
  <2>6. j >= n => p[j].op \in {"RecordStatus", "Reply"} BY <2>2, <2>3 DEF FieldsAt
  <2>7. /\ p[i].op = "Enqueue" => i = n - 4
        /\ p[j].op = "Enqueue" => j = n - 4
    BY <2>2 DEF FieldsAt
  <2>8. QED BY <2>1, <2>3, <2>4, <2>5, <2>6, <2>7 DEF CanFail
<1>8. \A i \in 1 .. Len(p) : p[i].op = "Reply" => i = Len(p) BY <1>1, <1>2 DEF FieldsAt
<1>9. \A i \in 1 .. Len(p) : p[i].op = "SaveAction" /\ p[i].state = "Completed" =>
         p[i].action = c
  BY <1>2 DEF FieldsAt
<1>10. Orderly(p, r, c) BY <1>4, <1>5, <1>6, <1>7, <1>8, <1>9 DEF Orderly
<1>11. Led(p, r) BY <1>1, <1>5 DEF Led
<1>12. QED BY <1>10, <1>11

LEMMA FailActionIsOrderly ==
    ASSUME NEW a \in ActionId, NEW saveFirst \in BOOLEAN
    PROVE  Orderly(FailAction(a, saveFirst), RunOf(a), a) /\ Led(FailAction(a, saveFirst), RunOf(a))
<1> DEFINE p == FailAction(a, saveFirst)
           r == RunOf(a)
           save == SaveAction(a, "Failed")
           report == Publish(r, "ActionFailed", a)
<1>1. /\ p \in Seq(Writes) /\ Len(p) = 5
      /\ p[1] = (IF saveFirst THEN save ELSE report)
      /\ p[2] = (IF saveFirst THEN report ELSE save)
      /\ p[3] = SaveRun(r, Failed) /\ p[4] = Publish(r, "RunFailed", NoAction)
      /\ p[5] = RecordStatus(r, Failed)
  BY FailActionElements
<1> HIDE DEF p
<1>2. \A i \in 1 .. Len(p) :
         \/ i \in {1, 2} /\ p[i].op = "SaveAction" /\ p[i].action = a /\ p[i].state = "Failed"
         \/ i \in {1, 2} /\ p[i].op = "Publish" /\ p[i].run = r /\ p[i].event.kind = "ActionFailed"
         \/ i = 3 /\ p[i].op = "SaveRun" /\ p[i].run = r /\ p[i].session = Failed
         \/ i = 4 /\ p[i].op = "Publish" /\ p[i].run = r /\ p[i].event.kind = "RunFailed"
         \/ i = 5 /\ p[i].op = "RecordStatus" /\ p[i].run = r /\ p[i].session = Failed
  <2>1. SUFFICES ASSUME NEW i \in 1 .. 5
                 PROVE
                   \/ i \in {1, 2} /\ p[i].op = "SaveAction" /\ p[i].action = a
                      /\ p[i].state = "Failed"
                   \/ i \in {1, 2} /\ p[i].op = "Publish" /\ p[i].run = r
                      /\ p[i].event.kind = "ActionFailed"
                   \/ i = 3 /\ p[i].op = "SaveRun" /\ p[i].run = r /\ p[i].session = Failed
                   \/ i = 4 /\ p[i].op = "Publish" /\ p[i].run = r
                      /\ p[i].event.kind = "RunFailed"
                   \/ i = 5 /\ p[i].op = "RecordStatus" /\ p[i].run = r
                      /\ p[i].session = Failed
    BY <1>1
  <2>2. \/ i = 1 \/ i = 2 \/ i = 3 \/ i = 4 \/ i = 5 OBVIOUS
  <2>3. QED BY <1>1, <2>2 DEF SaveAction, Publish, SaveRun, RecordStatus
<1>3. \A i \in 1 .. Len(p) : WriteRun(p[i]) = r BY <1>2 DEF WriteRun
<1>4. \A i \in 1 .. Len(p) : HasTarget(p[i]) => i >= 3 /\ Target(p[i]) = Failed
  BY <1>2 DEF HasTarget, Target, TerminalEvents
<1>5. ASSUME NEW i \in 1 .. Len(p), p[i].op = "SaveRun"
      PROVE  /\ p[i].session # Unknown
             /\ \E j \in 1 .. Len(p) : j > i /\ p[j].op = "RecordStatus"
             /\ p[i].session # Failed => i = 1
             /\ IsWaiting(p[i].session) =>
                   \E j \in 1 .. Len(p) : j > i /\ p[j] = Enqueue(p[i].session.action)
  <2>1. i = 3 /\ p[i].session = Failed BY <1>2, <1>5
  <2>2. 5 \in 1 .. Len(p) /\ 5 > 3 /\ p[5].op = "RecordStatus" BY <1>1 DEF RecordStatus
  <2>3. QED BY <2>1, <2>2, SessionFields
<1>6. \A i, j \in 1 .. Len(p) : i < j =>
         /\ p[i].op = "RecordStatus" => ~CanFail(p[j])
         /\ p[i].op = "Publish" /\ p[i].event.kind = "RunCompleted" => ~CanFail(p[j])
         /\ ~(p[i].op = "Enqueue" /\ p[j].op = "Enqueue")
  BY <1>1, <1>2
<1>7. \A i \in 1 .. Len(p) :
         /\ p[i].op # "Reply"
         /\ ~(p[i].op = "SaveAction" /\ p[i].state = "Completed")
  BY <1>2
<1>8. Orderly(p, r, a) BY <1>3, <1>4, <1>5, <1>6, <1>7 DEF Orderly
<1>9. Led(p, r) BY <1>1, <1>4 DEF Led
<1>10. QED BY <1>8, <1>9 DEF p

(* What a handler is when it begins: for run r, about the action c, and the *)
(* new action x if the run suspends.                                         *)
Handler(p, r, c, x) ==
    /\ p \in Seq(Writes) /\ p # <<>>
    /\ Orderly(p, r, c) /\ Led(p, r)
    /\ \A i \in 1 .. Len(p) :
          /\ p[i].op = "Enqueue" => p[i].action = x
          /\ p[i].op = "SaveAction" => p[i].action \in {c, x}
          /\ p[i].op = "SaveRun" => p[i].session \in {Failed, SessionAfter(x)}
          /\ p[i].op = "SaveAction" /\ p[i].state = "Completed" => p[1].op = "SaveRun"

Saves(p) == \E i, j \in 1 .. Len(p) : p[i].op = "SaveRun" /\ p[j].op = "RecordStatus"
Resumes(p) == \E i \in 1 .. Len(p) : p[i].op = "SaveRun" /\ p[i].session # Failed
Replies(p) == \E i \in 1 .. Len(p) : p[i].op = "Reply"

LEMMA StepHandles ==
    ASSUME NEW r \in Runs, NEW c \in ActionId \cup {NoAction}, NEW x \in ActionId \cup {NoAction},
           c # NoAction => RunOf(c) = r, x # NoAction => RunOf(x) = r,
           NEW p, NEW n, Stepwise(p, n, r, c, x), NEW d, c # NoAction => d = c
    PROVE  /\ Handler(p, r, d, x) /\ Saves(p) /\ p[1] = SaveRun(r, SessionAfter(x))
           /\ c # NoAction => ~Replies(p)
<1>1. Orderly(p, r, c) /\ Led(p, r) BY StepIsOrderly
<1>2. /\ p \in Seq(Writes) /\ n \in 5 .. 8 /\ Len(p) \in n .. n + 1
      /\ p[1] = SaveRun(r, SessionAfter(x)) /\ p[n] = RecordStatus(r, SessionAfter(x))
      /\ c # NoAction => n > 5
      /\ x # NoAction /\ c # NoAction => n > 7
  BY DEF Stepwise
<1>3. \A i \in 1 .. Len(p) : FieldsAt(p, n, i, r, c, x) BY StepFields
<1>4. p # <<>> BY <1>2
<1>5. \A i \in 1 .. Len(p) : p[i].op = "SaveAction" /\ p[i].state = "Completed" =>
         p[i].action = d
  BY <1>3 DEF FieldsAt
<1>6. Orderly(p, r, d) BY <1>1, <1>5 DEF Orderly
<1>7. p[1].op = "SaveRun" BY <1>2 DEF SaveRun
<1>8. \A i \in 1 .. Len(p) :
         /\ p[i].op = "Enqueue" => p[i].action = x
         /\ p[i].op = "SaveAction" => p[i].action \in {d, x}
         /\ p[i].op = "SaveRun" => p[i].session \in {Failed, SessionAfter(x)}
  BY <1>3 DEF FieldsAt
<1>9. 1 \in 1 .. Len(p) /\ n \in 1 .. Len(p) /\ p[n].op = "RecordStatus"
  BY <1>2 DEF RecordStatus
<1>10. Saves(p) BY <1>7, <1>9 DEF Saves
<1>11. c # NoAction => ~Replies(p)
  BY <1>3 DEF FieldsAt, Replies
<1>12. QED BY <1>1, <1>2, <1>4, <1>6, <1>7, <1>8, <1>10, <1>11 DEF Handler

LEMMA FailActionHandles ==
    ASSUME NEW a \in ActionId, NEW saveFirst \in BOOLEAN,
           NEW p, p = FailAction(a, saveFirst)
    PROVE  Handler(p, RunOf(a), a, NoAction) /\ Saves(p) /\ ~Replies(p) /\ ~Resumes(p)
<1>1. Orderly(p, RunOf(a), a) /\ Led(p, RunOf(a)) BY FailActionIsOrderly
<1> DEFINE save == SaveAction(a, "Failed")
           report == Publish(RunOf(a), "ActionFailed", a)
<1>2. /\ p \in Seq(Writes) /\ Len(p) = 5
      /\ p[1] = (IF saveFirst THEN save ELSE report)
      /\ p[2] = (IF saveFirst THEN report ELSE save)
      /\ p[3] = SaveRun(RunOf(a), Failed) /\ p[4] = Publish(RunOf(a), "RunFailed", NoAction)
      /\ p[5] = RecordStatus(RunOf(a), Failed)
  BY FailActionElements
<1>3. p # <<>>
  <2>1. Len(p) = 5 BY <1>2
  <2>2. QED BY <2>1, EmptySeq
<1>4. \A i \in 1 .. Len(p) : i = 1 \/ i = 2 \/ i = 3 \/ i = 4 \/ i = 5
  BY <1>2
<1>5. \A i \in 1 .. Len(p) :
         /\ p[i].op \in {"SaveAction", "Publish", "SaveRun", "RecordStatus"}
         /\ p[i].op = "SaveAction" => p[i].action = a /\ p[i].state = "Failed"
         /\ p[i].op = "SaveRun" => p[i].session = Failed
  BY <1>2, <1>4 DEF SaveAction, Publish, SaveRun, RecordStatus
<1>6. Saves(p)
  <2>1. 3 \in 1 .. Len(p) /\ 5 \in 1 .. Len(p) BY <1>2
  <2>2. p[3].op = "SaveRun" /\ p[5].op = "RecordStatus" BY <1>2 DEF SaveRun, RecordStatus
  <2>3. QED BY <2>1, <2>2 DEF Saves
<1>7. ~Replies(p) BY <1>5 DEF Replies
<1>8. Handler(p, RunOf(a), a, NoAction) BY <1>1, <1>2, <1>3, <1>5 DEF Handler
<1>9. QED BY <1>5, <1>6, <1>7, <1>8 DEF Resumes

LEMMA ReplyHandles ==
    ASSUME NEW r \in Runs, NEW d, NEW p, p = <<Reply(r, "Err")>>
    PROVE  /\ Handler(p, r, d, NoAction) /\ Len(p) = 1 /\ p[1] = Reply(r, "Err")
           /\ p[1].op = "Reply" /\ ~Resumes(p)
<1>1. p \in Seq(Writes) /\ Len(p) = 1 /\ p[1] = Reply(r, "Err") /\ p # <<>>
  <2>1. Reply(r, "Err") \in Writes BY WriteTypes
  <2>2. QED BY <2>1
<1>2. p[1].op = "Reply" /\ p[1].run = r BY <1>1 DEF Reply
<1>3. \A i \in 1 .. Len(p) : i = 1 BY <1>1
<1>4. Orderly(p, r, d) BY <1>1, <1>2, <1>3 DEF Orderly, WriteRun, HasTarget, CanFail
<1>5. Led(p, r) BY <1>2, <1>3 DEF Led, HasTarget
<1>6. ~Resumes(p) BY <1>2, <1>3 DEF Resumes
<1>7. QED BY <1>1, <1>2, <1>3, <1>4, <1>5, <1>6 DEF Handler

LEMMA ClaimHandles ==
    ASSUME NEW a \in ActionId, NEW p, p = <<Publish(RunOf(a), "ActionClaimed", a)>>
    PROVE  /\ Handler(p, RunOf(a), a, NoAction) /\ ~Replies(p) /\ Len(p) = 1
           /\ p[1] = Publish(RunOf(a), "ActionClaimed", a) /\ p[1].op = "Publish"
           /\ p[1].event.kind = "ActionClaimed" /\ ~Resumes(p)
<1>1. /\ p \in Seq(Writes) /\ Len(p) = 1 /\ p[1] = Publish(RunOf(a), "ActionClaimed", a)
      /\ p # <<>>
  <2>1. Publish(RunOf(a), "ActionClaimed", a) \in Writes BY WriteTypes
  <2>2. QED BY <2>1
<1>2. p[1].op = "Publish" /\ p[1].run = RunOf(a) /\ p[1].event.kind = "ActionClaimed"
  BY <1>1 DEF Publish
<1>3. \A i \in 1 .. Len(p) : i = 1 BY <1>1
<1>4. \A i \in 1 .. Len(p) : ~HasTarget(p[i]) BY <1>2, <1>3 DEF HasTarget, TerminalEvents
<1>5. Orderly(p, RunOf(a), a)
  BY <1>1, <1>2, <1>3, <1>4 DEF Orderly, WriteRun
<1>6. Led(p, RunOf(a)) BY <1>4 DEF Led
<1>7. QED BY <1>1, <1>2, <1>3, <1>5, <1>6 DEF Handler, Replies, Resumes

(* The new action of a handler that begins, if any. *)
Issues(r, x) ==
    \/ x = NoAction /\ issued' = issued
    \/ x = NextAction(r) /\ Suspends(r)

LEMMA IssuesType ==
    ASSUME TypeOK, NEW r \in Runs, NEW x, Issues(r, x)
    PROVE  /\ x \in ActionId \cup {NoAction} /\ (x # NoAction => RunOf(x) = r)
           /\ issued' \in [Runs -> 0 .. MaxCalls]
<1>1. CASE x = NoAction /\ issued' = issued BY <1>1 DEF TypeOK
<1>2. CASE x = NextAction(r) /\ Suspends(r)
  <2>1. issued[r] < MaxCalls /\ issued' = [issued EXCEPT ![r] = issued[r] + 1]
    BY <1>2 DEF Suspends
  <2>2. NextAction(r) \in ActionId /\ issued[r] + 1 \in 0 .. MaxCalls
    BY <2>1, NextActionType
  <2>3. RunOf(NextAction(r)) = r BY DEF NextAction, RunOf
  <2>4. QED BY <1>2, <2>1, <2>2, <2>3 DEF TypeOK
<1>3. QED BY <1>1, <1>2 DEF Issues

LEMMA SubmitBegins ==
    ASSUME TypeOK, HandleSubmit
    PROVE  LET r == Head(commands)
           IN  /\ r \in Runs /\ cause' = Submission(r)
               /\ \E x \in ActionId \cup {NoAction} :
                    /\ Issues(r, x) /\ Handler(todo', r, <<r, 0>>, x)
                    /\ todo'[1] \in {SaveRun(r, SessionAfter(x)), Reply(r, "Err")}
<1> DEFINE r == Head(commands)
<1>1. commands # <<>> /\ commands \in Seq(Runs) BY DEF HandleSubmit, TypeOK
<1>2. r \in Runs BY <1>1, TailElements
<1> HIDE DEF r
<1>3. \/ /\ Suspends(r)
         /\ Begin(Submission(r), Step(r, NoAction, NextAction(r)) \o <<Reply(r, "Ok")>>, FALSE)
      \/ /\ Begin(Submission(r), Step(r, NoAction, NoAction) \o <<Reply(r, "Ok")>>, FALSE)
         /\ UNCHANGED issued
      \/ /\ Begin(Submission(r), <<Reply(r, "Err")>>, FALSE)
         /\ UNCHANGED issued
  BY DEF HandleSubmit, r
<1>4. cause' = Submission(r) BY <1>3 DEF Begin
<1>5. ASSUME NEW x, Issues(r, x), todo' = Step(r, NoAction, x) \o <<Reply(r, "Ok")>>
      PROVE  /\ x \in ActionId \cup {NoAction} /\ Handler(todo', r, <<r, 0>>, x)
             /\ todo'[1] = SaveRun(r, SessionAfter(x))
  <2>1. x \in ActionId \cup {NoAction} /\ (x # NoAction => RunOf(x) = r)
    BY <1>2, <1>5, IssuesType
  <2>2. Stepwise(todo', Len(Step(r, NoAction, x)), r, NoAction, x)
    BY <1>2, <1>5, <2>1, RepliedStepIsStepwise
  <2>3. NoAction \in ActionId \cup {NoAction} OBVIOUS
  <2>4. QED BY <1>2, <2>1, <2>2, <2>3, StepHandles
<1>6. CASE /\ Suspends(r)
           /\ Begin(Submission(r), Step(r, NoAction, NextAction(r)) \o <<Reply(r, "Ok")>>, FALSE)
  <2>1. Issues(r, NextAction(r)) BY <1>6 DEF Issues
  <2>2. todo' = Step(r, NoAction, NextAction(r)) \o <<Reply(r, "Ok")>> BY <1>6 DEF Begin
  <2>3. QED BY <1>2, <1>4, <1>5, <2>1, <2>2 DEF r
<1>7. CASE /\ Begin(Submission(r), Step(r, NoAction, NoAction) \o <<Reply(r, "Ok")>>, FALSE)
           /\ UNCHANGED issued
  <2>1. Issues(r, NoAction) BY <1>7 DEF Issues
  <2>2. todo' = Step(r, NoAction, NoAction) \o <<Reply(r, "Ok")>> BY <1>7 DEF Begin
  <2>3. QED BY <1>2, <1>4, <1>5, <2>1, <2>2 DEF r
<1>8. CASE Begin(Submission(r), <<Reply(r, "Err")>>, FALSE) /\ UNCHANGED issued
  <2>1. Issues(r, NoAction) BY <1>8 DEF Issues
  <2>2. todo' = <<Reply(r, "Err")>> BY <1>8 DEF Begin
  <2>3. Handler(todo', r, <<r, 0>>, NoAction) /\ todo'[1] = Reply(r, "Err")
    BY <1>2, <2>2, ReplyHandles
  <2>4. NoAction \in ActionId \cup {NoAction} OBVIOUS
  <2>5. QED BY <1>2, <1>4, <2>1, <2>3, <2>4 DEF r
<1>9. QED BY <1>3, <1>6, <1>7, <1>8

LEMMA UpdateBegins ==
    ASSUME TypeOK, HandleUpdate
    PROVE  LET u == Head(updates)
               a == u.action
               r == RunOf(a)
           IN  /\ u \in Updates /\ a \in ActionId /\ r \in Runs /\ cause' = u
               /\ \E x \in ActionId \cup {NoAction} :
                    /\ Issues(r, x) /\ Handler(todo', r, a, x) /\ ~Replies(todo')
                    /\ Resumes(todo') \/ x # NoAction =>
                          u.kind = "Completed" /\ HasSnapshot(store[r])
                    /\ u.kind # "Claimed" => Saves(todo')
                    /\ u.kind = "Claimed" =>
                          \A i \in 1 .. Len(todo') : todo'[i].op = "Publish"
                    /\ \/ /\ u.kind = "Completed" /\ HasSnapshot(store[r])
                          /\ \E n : Stepwise(todo', n, r, a, x)
                       \/ /\ u.kind # "Claimed" /\ x = NoAction
                          /\ todo' = FailAction(a, u.kind = "Completed")
                       \/ /\ u.kind = "Claimed" /\ x = NoAction
                          /\ todo' = <<Publish(r, "ActionClaimed", a)>>
<1> DEFINE u == Head(updates)
           a == u.action
           r == RunOf(a)
           Goal(x) ==
                    /\ Issues(r, x) /\ Handler(todo', r, a, x) /\ ~Replies(todo')
                    /\ Resumes(todo') \/ x # NoAction =>
                          u.kind = "Completed" /\ HasSnapshot(store[r])
                    /\ u.kind # "Claimed" => Saves(todo')
                    /\ u.kind = "Claimed" =>
                          \A i \in 1 .. Len(todo') : todo'[i].op = "Publish"
                    /\ \/ /\ u.kind = "Completed" /\ HasSnapshot(store[r])
                          /\ \E n : Stepwise(todo', n, r, a, x)
                       \/ /\ u.kind # "Claimed" /\ x = NoAction
                          /\ todo' = FailAction(a, u.kind = "Completed")
                       \/ /\ u.kind = "Claimed" /\ x = NoAction
                          /\ todo' = <<Publish(r, "ActionClaimed", a)>>
<1>1. updates # <<>> /\ updates \in Seq(Updates) BY DEF HandleUpdate, TypeOK
<1>2. u \in Updates BY <1>1, TailElements
<1>3. a \in ActionId /\ r \in Runs /\ u.kind \in {"Claimed", "Completed", "Failed"}
  BY <1>2 DEF Updates, ActionId, RunOf
<1>4. CASE u.kind = "Claimed"
  <2>1. Begin(u, <<Publish(r, "ActionClaimed", a)>>, FALSE) /\ issued' = issued
    BY <1>4 DEF HandleUpdate
  <2>2. todo' = <<Publish(r, "ActionClaimed", a)>> /\ cause' = u BY <2>1 DEF Begin
  <2>3. /\ Handler(todo', r, a, NoAction) /\ ~Replies(todo') /\ ~Resumes(todo')
        /\ \A i \in 1 .. Len(todo') : todo'[i].op = "Publish"
    BY <1>3, <2>2, ClaimHandles
  <2>4. Goal(NoAction) BY <1>4, <2>1, <2>2, <2>3 DEF Issues
  <2>5. NoAction \in ActionId \cup {NoAction} OBVIOUS
  <2>6. QED BY <1>2, <1>3, <2>2, <2>4, <2>5
<1>5. CASE u.kind # "Claimed" /\ issued' = issued
           /\ \E isError : Begin(u, FailAction(a, u.kind = "Completed"), isError)
  <2>1. todo' = FailAction(a, u.kind = "Completed") /\ cause' = u BY <1>5 DEF Begin
  <2>2. /\ Handler(todo', r, a, NoAction) /\ Saves(todo') /\ ~Replies(todo')
        /\ ~Resumes(todo')
    <3>1. (u.kind = "Completed") \in BOOLEAN OBVIOUS
    <3>2. QED BY <1>3, <2>1, <3>1, FailActionHandles
  <2>3. Goal(NoAction) BY <1>5, <2>1, <2>2 DEF Issues
  <2>4. NoAction \in ActionId \cup {NoAction} OBVIOUS
  <2>5. QED BY <1>2, <1>3, <2>1, <2>3, <2>4
<1>6. ASSUME u.kind = "Completed", HasSnapshot(store[r]), NEW x, Issues(r, x),
             Begin(u, Step(r, a, x), FALSE)
      PROVE  x \in ActionId \cup {NoAction} /\ cause' = u /\ Goal(x)
  <2>1. x \in ActionId \cup {NoAction} /\ (x # NoAction => RunOf(x) = r)
    BY <1>3, <1>6, IssuesType
  <2>2. todo' = Step(r, a, x) /\ cause' = u BY <1>6 DEF Begin
  <2>3. a \in ActionId \cup {NoAction} /\ a # NoAction BY <1>3, WriteTypes
  <2>4. Stepwise(todo', Len(todo'), r, a, x) BY <1>3, <2>1, <2>2, <2>3, StepIsStepwise
  <2>5. Handler(todo', r, a, x) /\ Saves(todo') /\ ~Replies(todo')
    <3> HIDE DEF a, r
    <3>1. RunOf(a) = r BY DEF r
    <3>2. QED BY <1>3, <2>1, <2>3, <2>4, <3>1, StepHandles
  <2>6. QED BY <1>6, <2>1, <2>2, <2>4, <2>5
<1>7. CASE u.kind = "Failed"
  <2>1. Begin(u, FailAction(a, FALSE), FALSE) /\ issued' = issued
    BY <1>7 DEF HandleUpdate
  <2>2. (u.kind = "Completed") = FALSE BY <1>7
  <2>3. QED BY <1>5, <1>7, <2>1, <2>2
<1>8. CASE u.kind = "Completed"
  <2>1. \/ /\ HasSnapshot(store[r])
           /\ \/ /\ Suspends(r)
                 /\ Begin(u, Step(r, a, NextAction(r)), FALSE)
              \/ /\ Begin(u, Step(r, a, NoAction), FALSE)
                 /\ UNCHANGED issued
        \/ /\ Begin(u, FailAction(a, TRUE), TRUE)
           /\ UNCHANGED issued
    BY <1>8 DEF HandleUpdate
  <2>2. CASE HasSnapshot(store[r]) /\ Suspends(r) /\ Begin(u, Step(r, a, NextAction(r)), FALSE)
    <3>1. Issues(r, NextAction(r)) BY <2>2 DEF Issues
    <3>2. NextAction(r) \in ActionId \cup {NoAction} /\ cause' = u /\ Goal(NextAction(r))
      BY <1>6, <1>8, <2>2, <3>1
    <3>3. QED BY <1>2, <1>3, <3>2
  <2>3. CASE HasSnapshot(store[r]) /\ Begin(u, Step(r, a, NoAction), FALSE) /\ issued' = issued
    <3>1. Issues(r, NoAction) BY <2>3 DEF Issues
    <3>2. NoAction \in ActionId \cup {NoAction} /\ cause' = u /\ Goal(NoAction)
      BY <1>6, <1>8, <2>3, <3>1
    <3>3. QED BY <1>2, <1>3, <3>2
  <2>4. CASE Begin(u, FailAction(a, TRUE), TRUE) /\ issued' = issued
    <3>1. (u.kind = "Completed") = TRUE BY <1>8
    <3>2. QED BY <1>5, <1>8, <2>4, <3>1
  <2>5. QED BY <2>1, <2>2, <2>3, <2>4
<1>9. QED BY <1>3, <1>4, <1>7, <1>8

LEMMA FailureBegins ==
    ASSUME TypeOK, WriteFails
    PROVE  LET r == RunOf(cause.action)
           IN  /\ r \in Runs /\ faults' > 0 /\ issued' = issued
               /\ \/ /\ cause' = cause /\ abandoned' = abandoned
                     /\ Handler(todo', r, cause.action, NoAction) /\ ~Resumes(todo')
                     /\ \/ cause.kind = "Submit" /\ todo' = <<Reply(r, "Err")>>
                        \/ /\ cause.kind # "Submit" /\ cause.action \in ActionId
                           /\ todo' = FailAction(cause.action, cause.kind = "Completed")
                           /\ ~Replies(todo') /\ Saves(todo')
                  \/ /\ cause.kind # "Submit" /\ cause' = Idle /\ todo' = <<>>
                     /\ abandoned' = abandoned \cup {r}
<1> DEFINE r == RunOf(cause.action)
<1>1. todo # <<>> /\ cause # Idle BY DEF WriteFails, TypeOK
<1>2. cause \in Updates \cup {Submission(q) : q \in Runs} \cup {Idle} BY DEF TypeOK
<1>3. r \in Runs /\ (cause.kind # "Submit" => cause.action \in ActionId)
  BY <1>1, <1>2, CauseFields
<1>4. faults' > 0 /\ issued' = issued
  BY EngineAssumption DEF WriteFails, TypeOK
<1>5. CASE cause.kind = "Submit"
  <2>1. todo' = <<Reply(r, "Err")>> /\ cause' = cause /\ abandoned' = abandoned
    BY <1>5 DEF WriteFails
  <2>2. /\ Handler(todo', r, cause.action, NoAction) /\ Len(todo') = 1
        /\ todo'[1].op = "Reply" /\ ~Resumes(todo')
    BY <1>3, <2>1, ReplyHandles
  <2>3. QED BY <1>3, <1>4, <1>5, <2>1, <2>2
<1>6. CASE cause.kind # "Submit" /\ ~failing
  <2>1. /\ todo' = FailAction(cause.action, cause.kind = "Completed")
        /\ cause' = cause /\ abandoned' = abandoned
    BY <1>6 DEF WriteFails
  <2>2. (cause.kind = "Completed") \in BOOLEAN OBVIOUS
  <2>3. /\ Handler(todo', r, cause.action, NoAction) /\ Saves(todo') /\ ~Replies(todo')
        /\ ~Resumes(todo')
    <3>1. cause.action \in ActionId BY <1>3, <1>6
    <3>2. QED BY <2>1, <2>2, <3>1, FailActionHandles
  <2>4. QED BY <1>3, <1>4, <1>6, <2>1, <2>3
<1>7. CASE cause.kind # "Submit" /\ failing
  <2>1. abandoned' = abandoned \cup {r} /\ todo' = <<>> /\ cause' = Idle
    BY <1>7 DEF WriteFails
  <2>2. QED BY <1>3, <1>4, <1>7, <2>1
<1>8. QED BY <1>5, <1>6, <1>7

LEMMA TypeInit == Init => TypeOK
<1>1. SUFFICES ASSUME Init PROVE TypeOK OBVIOUS
<1>2. Unknown \in Sessions BY DEF Sessions
<1>3. /\ <<>> \in Seq(Events) /\ <<>> \in Seq(Runs) /\ <<>> \in Seq(Writes)
      /\ <<>> \in Seq(ActionId) /\ <<>> \in Seq(Updates)
  BY EmptySeq
<1>4. 0 \in 0 .. MaxCalls /\ 0 \in 0 .. MaxCrashes /\ 0 \in 0 .. MaxFaults
  BY EngineAssumption
<1>5. /\ store \in [Runs -> Sessions] /\ status \in [Runs -> Sessions]
      /\ records \in [ActionId -> {"Absent", "Pending", "Completed", "Failed"}]
      /\ log \in [Runs -> SUBSET TerminalEvents]
      /\ feed \in [Runs -> Seq(Events)] /\ issued \in [Runs -> 0 .. MaxCalls]
      /\ reply \in [Runs -> {"None", "Ok", "Err"}]
  BY <1>1, <1>2, <1>3, <1>4 DEF Init
<1>6. QED BY <1>1, <1>3, <1>4, <1>5 DEF Init, TypeOK

LEMMA SubmitType == ASSUME TypeOK, NEW r \in Runs, Submit(r) PROVE TypeOK'
<1>1. commands' \in Seq(Runs) BY AppendProperties DEF Submit, TypeOK
<1>2. QED BY <1>1 DEF Submit, TypeOK, durable, worker, bounds

LEMMA HandleSubmitType == ASSUME TypeOK, HandleSubmit PROVE TypeOK'
<1> DEFINE r == Head(commands)
<1>1. /\ r \in Runs /\ cause' = Submission(r)
      /\ \E x \in ActionId \cup {NoAction} : Issues(r, x) /\ Handler(todo', r, <<r, 0>>, x)
  BY SubmitBegins
<1>2. issued' \in [Runs -> 0 .. MaxCalls] /\ todo' \in Seq(Writes) /\ todo' # <<>>
  BY <1>1, IssuesType DEF Handler
<1>3. commands' \in Seq(Runs)
  <2>1. commands # <<>> /\ commands \in Seq(Runs) /\ commands' = Tail(commands)
    BY DEF HandleSubmit, TypeOK
  <2>2. QED BY <2>1, TailElements
<1>4. cause' # Idle BY <1>1, NotIdle
<1>5. /\ failing' = FALSE
      /\ UNCHANGED <<store, records, log, feed, reply, phase, unrecovered, status, abandoned, bounds,
                     worker>>
  BY DEF HandleSubmit, Begin
<1>6. QED BY <1>1, <1>2, <1>3, <1>4, <1>5 DEF TypeOK, bounds, worker

LEMMA HandleUpdateType == ASSUME TypeOK, HandleUpdate PROVE TypeOK'
<1> DEFINE u == Head(updates)
           r == RunOf(u.action)
<1>1. /\ u \in Updates /\ r \in Runs /\ cause' = u
      /\ \E x \in ActionId \cup {NoAction} : Issues(r, x) /\ Handler(todo', r, u.action, x)
  BY UpdateBegins
<1>2. issued' \in [Runs -> 0 .. MaxCalls] /\ todo' \in Seq(Writes) /\ todo' # <<>>
  BY <1>1, IssuesType DEF Handler
<1>3. updates' \in Seq(Updates)
  <2>1. updates # <<>> /\ updates \in Seq(Updates) /\ updates' = Tail(updates)
    BY DEF HandleUpdate, TypeOK
  <2>2. QED BY <2>1, TailElements
<1>4. cause' # Idle BY <1>1, NotIdle
<1>5. /\ failing' \in BOOLEAN
      /\ UNCHANGED <<store, records, log, feed, reply, phase, unrecovered, status, abandoned, bounds,
                     commands, actionQueue, executing>>
  <2>1. u.kind \in {"Claimed", "Completed", "Failed"} BY <1>1 DEF Updates
  <2>2. QED BY <2>1 DEF HandleUpdate, Begin
<1>6. QED BY <1>1, <1>2, <1>3, <1>4, <1>5 DEF TypeOK, bounds

LEMMA WriteType == ASSUME TypeOK, Write PROVE TypeOK'
<1> DEFINE w == Head(todo)
<1>1. todo # <<>> /\ todo \in Seq(Writes) BY DEF Write, TypeOK
<1>2. w \in Writes /\ Tail(todo) \in Seq(Writes) BY <1>1, TailElements
<1>3. Perform(w) BY DEF Write
<1>4. /\ store' \in [Runs -> Sessions] /\ status' \in [Runs -> Sessions]
      /\ records' \in [ActionId -> {"Absent", "Pending", "Completed", "Failed"}]
      /\ log' \in [Runs -> SUBSET TerminalEvents] /\ feed' \in [Runs -> Seq(Events)]
      /\ reply' \in [Runs -> {"None", "Ok", "Err"}]
      /\ actionQueue' \in Seq(ActionId)
  <2> HIDE DEF w
  <2>1. QED BY <1>2, <1>3, PerformType
<1>5. /\ todo' = Tail(todo)
      /\ (todo' = <<>>) => cause' = Idle /\ failing' = FALSE
      /\ (todo' # <<>>) => cause' = cause /\ failing' = failing
  BY DEF Write
<1>6. UNCHANGED <<issued, phase, unrecovered, commands, abandoned, executing, updates, bounds>>
  BY DEF Write
<1>7. /\ cause' \in Updates \cup {Submission(r) : r \in Runs} \cup {Idle}
      /\ failing' \in BOOLEAN
      /\ (todo' = <<>>) <=> (cause' = Idle)
  BY <1>1, <1>5 DEF TypeOK
<1>8. QED BY <1>2, <1>4, <1>5, <1>6, <1>7 DEF TypeOK, bounds

LEMMA WriteFailsType == ASSUME TypeOK, WriteFails PROVE TypeOK'
<1>1. /\ UNCHANGED <<store, feed, issued, reply, phase, unrecovered, commands, status, worker,
                     crashes>>
      /\ CutOff(Head(todo))
      /\ faults' = faults + 1 /\ faults < MaxFaults /\ todo # <<>>
  BY DEF WriteFails
<1>2. faults' \in 0 .. MaxFaults BY <1>1, EngineAssumption DEF TypeOK
<1>3. failing' \in BOOLEAN BY DEF WriteFails, TypeOK
<1>4. /\ todo' \in Seq(Writes)
      /\ (todo' = <<>>) <=> (cause' = Idle)
      /\ cause' \in {cause, Idle} /\ abandoned' \subseteq Runs
  <2>1. cause # Idle BY <1>1 DEF TypeOK
  <2>2. abandoned \subseteq Runs /\ RunOf(cause.action) \in Runs
    BY FailureBegins DEF TypeOK
  <2>3. QED BY <2>1, <2>2, FailureBegins, EmptySeq DEF Handler
<1>5. cause' \in Updates \cup {Submission(r) : r \in Runs} \cup {Idle} BY <1>4 DEF TypeOK
<1>6. UNCHANGED <<store, feed, issued, reply, phase, unrecovered, commands, status,
                  actionQueue, executing, updates, crashes>>
  BY <1>1 DEF worker
<1>7. /\ records' \in [ActionId -> {"Absent", "Pending", "Completed", "Failed"}]
      /\ log' \in [Runs -> SUBSET TerminalEvents]
  <2>1. Head(todo) \in Writes BY <1>1, TailElements DEF TypeOK
  <2>2. QED BY <1>1, <2>1, CutOffType
<1>8. QED BY <1>2, <1>3, <1>4, <1>5, <1>6, <1>7 DEF TypeOK

LEMMA ClaimType == ASSUME TypeOK, Claim PROVE TypeOK'
<1>1. /\ executing' = Head(actionQueue) /\ actionQueue' = Tail(actionQueue)
      /\ updates' = Append(updates, Update("Claimed", executing'))
      /\ actionQueue # <<>> /\ UNCHANGED <<durable, engine, bounds>>
  BY DEF Claim
<1>2. executing' \in ActionId /\ actionQueue' \in Seq(ActionId)
  BY <1>1, TailElements DEF TypeOK
<1>3. updates' \in Seq(Updates)
  <2>1. Update("Claimed", executing') \in Updates BY <1>2 DEF Update, Updates
  <2>2. QED BY <1>1, <2>1, AppendProperties DEF TypeOK
<1>4. QED BY <1>1, <1>2, <1>3 DEF TypeOK, durable, engine, bounds

LEMMA ExecuteType == ASSUME TypeOK, Execute PROVE TypeOK'
<1>1. /\ \E kind \in {"Completed", "Failed"} : updates' = Append(updates, Update(kind, executing))
      /\ executing' = NoAction /\ executing # NoAction
      /\ UNCHANGED <<durable, engine, actionQueue, bounds>>
  BY DEF Execute
<1>2. executing \in ActionId BY <1>1 DEF TypeOK
<1>3. updates' \in Seq(Updates)
  <2>1. PICK kind \in {"Completed", "Failed"} :
                updates' = Append(updates, Update(kind, executing))
    BY <1>1
  <2>2. Update(kind, executing) \in Updates BY <1>2 DEF Update, Updates
  <2>3. QED BY <2>1, <2>2, AppendProperties DEF TypeOK
<1>4. QED BY <1>1, <1>3 DEF TypeOK, durable, engine, bounds

LEMMA RestartType == ASSUME TypeOK, Restart PROVE TypeOK'
<1>1. crashes' \in 0 .. MaxCrashes BY EngineAssumption DEF Restart, TypeOK
<1>2. Unknown \in Sessions BY DEF Sessions
<1>3. \A S : <<>> \in Seq(S) BY EmptySeq
<1>4. /\ records' \in [ActionId -> {"Absent", "Pending", "Completed", "Failed"}]
      /\ log' \in [Runs -> SUBSET TerminalEvents]
  <2>1. CASE todo # <<>>
    <3>1. Head(todo) \in Writes BY <2>1, TailElements DEF TypeOK
    <3>2. QED BY <2>1, <3>1, CutOffType DEF Restart
  <2>2. CASE todo = <<>> BY <2>2 DEF Restart, TypeOK
  <2>3. QED BY <2>1, <2>2
<1>5. QED BY <1>1, <1>2, <1>3, <1>4 DEF Restart, TypeOK

LEMMA RecoverRunType == ASSUME TypeOK, NEW r \in Runs, RecoverRun(r) PROVE TypeOK'
<1>1. actionQueue' \in Seq(ActionId)
  <2>1. IsWaiting(store[r]) => store[r].action \in ActionId BY SessionFields DEF TypeOK
  <2>2. \/ actionQueue' = actionQueue
        \/ IsWaiting(store[r]) /\ actionQueue' = Append(actionQueue, store[r].action)
    BY DEF RecoverRun
  <2>3. actionQueue \in Seq(ActionId) BY DEF TypeOK
  <2>4. QED BY <2>1, <2>2, <2>3, AppendProperties
<1>2. phase' \in {"recovering", "serving", "refused"} BY DEF RecoverRun, TypeOK
<1>3. status' \in [Runs -> Sessions] BY DEF RecoverRun, TypeOK
<1>4. UNCHANGED <<durable, commands, cause, failing, todo, abandoned, executing, updates, bounds>>
  BY DEF RecoverRun
<1>5. unrecovered' \subseteq Runs BY DEF RecoverRun, TypeOK
<1>6. QED BY <1>1, <1>2, <1>3, <1>4, <1>5 DEF TypeOK, durable, bounds

LEMMA TypeStep == TypeOK /\ [Next]_vars => TypeOK'
<1>1. SUFFICES ASSUME TypeOK, [Next]_vars PROVE TypeOK' OBVIOUS
<1>2. CASE \E r \in Runs : Submit(r) BY <1>1, <1>2, SubmitType
<1>3. CASE HandleSubmit BY <1>1, <1>3, HandleSubmitType
<1>4. CASE HandleUpdate BY <1>1, <1>4, HandleUpdateType
<1>5. CASE Write BY <1>1, <1>5, WriteType
<1>6. CASE \E r \in Runs : RecoverRun(r) BY <1>1, <1>6, RecoverRunType
<1>7. CASE Recovered
  BY <1>1, <1>7 DEF Recovered, TypeOK, durable, worker, bounds
<1>8. CASE WriteFails BY <1>1, <1>8, WriteFailsType
<1>9. CASE Claim BY <1>1, <1>9, ClaimType
<1>10. CASE Execute BY <1>1, <1>10, ExecuteType
<1>11. CASE Restart BY <1>1, <1>11, RestartType
<1>12. CASE UNCHANGED vars
  BY <1>1, <1>12 DEF vars, TypeOK, durable, engine, worker, bounds
<1>13. QED
  BY <1>1, <1>2, <1>3, <1>4, <1>5, <1>6, <1>7, <1>8, <1>9, <1>10, <1>11, <1>12
     DEF Next, EngineStep, Recover

(* The state is well formed, and the engine task is busy exactly while it    *)
(* has writes to do.                                                         *)
THEOREM EngineIsTyped == Spec => []TypeOK
BY TypeInit, TypeStep, PTL DEF Spec

(***************************************************************************)
(* THE SAFETY PROPERTIES                                                   *)
(***************************************************************************)
(* The safety properties of the execution engine, from one inductive       *)
(* invariant: what is left of the handler fits what was already saved;     *)
(* the worker holds at most one action of a run, and only one its run      *)
(* waits for, unless the run has failed; no action id is used twice.       *)
(***************************************************************************)

(***************************************************************************)
(* The inductive invariant                                                 *)
(***************************************************************************)

(* The run the engine task is working on, and the writes it has yet to do.  *)
Current == RunOf(cause.action)
Todo == 1 .. Len(todo)

(* The session a handler heads for is saved, or saving it comes first; a     *)
(* run that is over is at most saved as failed; only a submission is         *)
(* answered, and was not yet; a run is unknown only until its submission     *)
(* saves it.                                                                 *)
HandlerFits ==
    todo # <<>> =>
      /\ Orderly(todo, Current, cause.action)
      /\ \A i \in Todo : HasTarget(todo[i]) =>
            \/ store[Current] = Target(todo[i])
            \/ \E j \in 1 .. i : todo[j] = SaveRun(Current, Target(todo[i]))
      /\ Resumes(todo) => store[Current] \notin Terminal
      /\ Replies(todo) => cause.kind = "Submit"
      /\ cause.kind = "Submit" => reply[Current] = "None"
      /\ store[Current] = Unknown =>
            /\ cause.kind = "Submit"
            /\ todo[1].op = "SaveRun" \/ todo[1] = Reply(Current, "Err")
      /\ \A i \in Todo : todo[i].op = "SaveAction" /\ todo[i].state = "Completed" =>
            store[Current] # Waiting(cause.action) \/ todo[1].op = "SaveRun"

(* Nothing is submitted twice, nor while the engine recovers. *)
CommandsFit ==
    /\ phase = "recovering" => cause = Idle /\ commands = <<>>
    /\ \A i \in 1 .. Len(commands) :
          /\ store[commands[i]] = Unknown /\ reply[commands[i]] = "None"
          /\ cause # Submission(commands[i])
    /\ \A i, j \in 1 .. Len(commands) : commands[i] = commands[j] => i = j

(* The actions that are queued, executed, or answered and not yet handled. *)
Queued(a) == \E i \in 1 .. Len(actionQueue) : actionQueue[i] = a
IsAnswer(u) == u.kind # "Claimed"
Answered(a) == \E i \in 1 .. Len(updates) : IsAnswer(updates[i]) /\ updates[i].action = a
InWork(a) == Queued(a) \/ executing = a \/ Answered(a)
Working(r) == \E a \in ActionId : RunOf(a) = r /\ InWork(a)

(* The worker has at most one action of each run, in one place, and every    *)
(* claim is followed by its answer.                                          *)
OneByRun ==
    /\ \A i, j \in 1 .. Len(actionQueue) :
          RunOf(actionQueue[i]) = RunOf(actionQueue[j]) => i = j
    /\ \A i, j \in 1 .. Len(updates) :
          (IsAnswer(updates[i]) /\ IsAnswer(updates[j])
             /\ RunOf(updates[i].action) = RunOf(updates[j].action)) => i = j
    /\ \A a \in ActionId : executing # NoAction /\ (Queued(a) \/ Answered(a)) =>
          RunOf(a) # RunOf(executing)
    /\ \A a, b \in ActionId : Queued(a) /\ Answered(b) => RunOf(a) # RunOf(b)
ClaimsAnswered ==
    /\ \A i \in 1 .. Len(updates) : ~IsAnswer(updates[i]) =>
          \/ executing = updates[i].action
          \/ \E j \in 1 .. Len(updates) :
                j > i /\ IsAnswer(updates[j]) /\ updates[j].action = updates[i].action
    /\ \A i, j \in 1 .. Len(updates) :
          (~IsAnswer(updates[i]) /\ ~IsAnswer(updates[j])
             /\ RunOf(updates[i].action) = RunOf(updates[j].action)) => i = j

Due(a) == \E i \in Todo : todo[i] = Enqueue(a)

(* What is in work was asked for, and is still wanted unless the run failed; *)
(* what is being handled or about to be enqueued is not in work.             *)
WorkFits ==
    /\ \A a \in ActionId : InWork(a) =>
          /\ store[RunOf(a)] \in {Failed, Waiting(a)}
          /\ faults = 0 => store[RunOf(a)] = Waiting(a)
          /\ phase = "recovering" => RunOf(a) \notin unrecovered
          /\ cause.kind \in {"Completed", "Failed"} => a # cause.action
    /\ \A a \in ActionId : Due(a) => ~Working(RunOf(a)) /\ a # cause.action
    /\ \A i \in Todo : (todo[i].op = "SaveRun" /\ (todo[i].session # Failed \/ faults = 0)) =>
          ~Working(Current)

(* Action ids are issued in order; nothing is recorded of those to come, and *)
(* what a run waits for is not completed.                                    *)
Within(ids, a) == a[2] <= ids[RunOf(a)]
IdsFit ==
    /\ \A r \in Runs : IsWaiting(store[r]) =>
          /\ RunOf(store[r].action) = r /\ Within(issued, store[r].action)
          /\ records[store[r].action] # "Completed"
    /\ \A a \in ActionId : InWork(a) \/ Due(a) \/ cause.action = a => Within(issued, a)
    /\ \A i \in Todo : todo[i].op = "SaveAction" => Within(issued, todo[i].action)
    /\ \A a \in ActionId : ~Within(issued, a) => records[a] = "Absent"
    /\ \A i \in Todo : todo[i].op = "SaveRun" /\ IsWaiting(todo[i].session) =>
          records[todo[i].session.action] # "Completed"

EngineInv ==
    TypeOK /\ HandlerFits /\ CommandsFit /\ OneByRun /\ ClaimsAnswered /\ WorkFits /\ IdsFit

LEMMA EngineInit == Init => EngineInv
<1>1. SUFFICES ASSUME Init PROVE EngineInv OBVIOUS
<1>2. TypeOK BY <1>1, TypeInit
<1>3. Len(todo) = 0 /\ Len(commands) = 0 /\ Len(actionQueue) = 0 /\ Len(updates) = 0
  BY <1>1, EmptySeq DEF Init
<1>4. HandlerFits BY <1>1 DEF Init, HandlerFits
<1>5. CommandsFit BY <1>1, <1>3 DEF Init, CommandsFit
<1>6. \A a \in ActionId : ~InWork(a)
  BY <1>1, <1>3, WriteTypes DEF Init, InWork, Queued, Answered
<1>7. OneByRun /\ ClaimsAnswered
  BY <1>1, <1>3 DEF Init, OneByRun, ClaimsAnswered, Answered, Queued
<1>8. WorkFits BY <1>3, <1>6 DEF WorkFits, Todo, Due
<1>9. \A r \in Runs : ~IsWaiting(store[r]) BY <1>1, SessionFields DEF Init
<1>10. \A a \in ActionId : cause.action # a
  BY <1>1, WriteTypes DEF Init, Idle
<1>11. IdsFit BY <1>1, <1>3, <1>6, <1>9, <1>10 DEF Init, IdsFit, Todo, Due
<1>12. QED BY <1>2, <1>4, <1>5, <1>7, <1>8, <1>11 DEF EngineInv

(***************************************************************************)
(* What the actions do to the work                                         *)
(***************************************************************************)
LEMMA WriteEffect ==
    ASSUME TypeOK, Write
    PROVE  /\ todo # <<>> /\ todo \in Seq(Writes) /\ cause # Idle /\ Current \in Runs
           /\ cause \in Updates \cup {Submission(r) : r \in Runs}
           /\ todo[1] \in Writes /\ Perform(todo[1]) /\ 1 \in Todo
           /\ todo' = Tail(todo) /\ todo' \in Seq(Writes) /\ Len(todo') = Len(todo) - 1
           /\ \A i \in 1 .. Len(todo') : i + 1 \in Todo /\ todo'[i] = todo[i + 1]
           /\ \A j \in Todo : j > 1 => j - 1 \in 1 .. Len(todo') /\ todo'[j - 1] = todo[j]
           /\ todo' # <<>> => cause' = cause
           /\ todo' = <<>> => cause' = Idle
           /\ UNCHANGED <<issued, phase, unrecovered, commands, abandoned, executing, updates,
                          crashes, faults>>
<1>1. /\ todo # <<>> /\ todo' = Tail(todo) /\ Perform(Head(todo))
      /\ todo' # <<>> => cause' = cause
      /\ todo' = <<>> => cause' = Idle
      /\ UNCHANGED <<issued, phase, unrecovered, commands, abandoned, executing, updates,
                     crashes, faults>>
  BY DEF Write, bounds
<1>2. todo \in Seq(Writes) /\ cause # Idle BY <1>1 DEF TypeOK
<1>3. /\ Head(todo) = todo[1] /\ todo[1] \in Writes /\ Len(todo) \in Nat \ {0}
      /\ Tail(todo) \in Seq(Writes) /\ Len(Tail(todo)) = Len(todo) - 1
      /\ \A i \in 1 .. Len(Tail(todo)) : i + 1 \in 1 .. Len(todo) /\ Tail(todo)[i] = todo[i + 1]
      /\ \A j \in 1 .. Len(todo) : j > 1 =>
            j - 1 \in 1 .. Len(Tail(todo)) /\ Tail(todo)[j - 1] = todo[j]
  BY <1>1, <1>2, TailElements
<1>4. cause \in Updates \cup {Submission(r) : r \in Runs} \cup {Idle} BY DEF TypeOK
<1>5. Current \in Runs BY <1>2, <1>4, CauseFields DEF Current
<1>6. QED BY <1>1, <1>2, <1>3, <1>4, <1>5 DEF Todo

(* Every write of the current handler is about its run. *)
LEMMA WriteFocus ==
    ASSUME TypeOK, HandlerFits, Write
    PROVE  LET w == todo[1]
           IN  /\ w.op \in {"SaveRun", "RecordStatus", "SaveAction", "Enqueue", "Publish", "Reply"}
               /\ w.op \in {"SaveRun", "RecordStatus", "Publish", "Reply"} => w.run = Current
               /\ w.op = "SaveRun" => w.session \in Sessions \ {Unknown}
               /\ w.op \in {"SaveAction", "Enqueue"} =>
                     w.action \in ActionId /\ RunOf(w.action) = Current
               /\ store' = IF w.op = "SaveRun" THEN [store EXCEPT ![Current] = w.session]
                                               ELSE store
               /\ w.op = "Enqueue" => w = Enqueue(w.action)
<1>1. todo # <<>> /\ todo[1] \in Writes /\ Perform(todo[1]) /\ 1 \in Todo BY WriteEffect
<1>2. Orderly(todo, Current, cause.action) BY <1>1 DEF HandlerFits
<1>3. WriteRun(todo[1]) = Current BY <1>1, <1>2 DEF Orderly, Todo
<1>4. todo[1].op = "SaveRun" => todo[1].session # Unknown BY <1>1, <1>2 DEF Orderly, Todo
<1> DEFINE w == todo[1]
<1>5. w.op \in {"SaveRun", "RecordStatus", "SaveAction", "Enqueue", "Publish", "Reply"}
  BY <1>1, WriteFields
<1>6. /\ w.op \in {"SaveRun", "RecordStatus", "Publish", "Reply"} => w.run = Current
      /\ w.op \in {"SaveAction", "Enqueue"} => w.action \in ActionId /\ RunOf(w.action) = Current
  BY <1>1, <1>3, WriteFields DEF WriteRun
<1>7. w.op = "SaveRun" => w.session \in Sessions \ {Unknown} BY <1>1, <1>4, WriteFields
<1>8. store' = IF w.op = "SaveRun" THEN [store EXCEPT ![Current] = w.session] ELSE store
  BY <1>1, <1>6 DEF Perform
<1>9. w.op = "Enqueue" => w = Enqueue(w.action)
  BY <1>1 DEF Writes, SaveRun, RecordStatus, SaveAction, Enqueue, Publish, Reply
<1>10. QED BY <1>5, <1>6, <1>7, <1>8, <1>9

(***************************************************************************)
(* Handlers fit                                                            *)
(***************************************************************************)
LEMMA HandlerKept ==
    ASSUME HandlerFits, UNCHANGED <<todo, cause, store, reply>>
    PROVE  HandlerFits'
BY DEF HandlerFits, Todo, Current

LEMMA SubmitHandlerFits ==
    ASSUME EngineInv, HandleSubmit
    PROVE  HandlerFits'
<1> DEFINE r == Head(commands)
<1>1. /\ r \in Runs /\ cause' = Submission(r)
      /\ \E x \in ActionId \cup {NoAction} :
            /\ Issues(r, x) /\ Handler(todo', r, <<r, 0>>, x)
            /\ todo'[1] \in {SaveRun(r, SessionAfter(x)), Reply(r, "Err")}
  BY SubmitBegins DEF EngineInv
<1>2. store[r] = Unknown /\ reply[r] = "None"
  <2>1. commands # <<>> /\ commands \in Seq(Runs) BY DEF HandleSubmit, EngineInv, TypeOK
  <2>2. r = commands[1] /\ 1 \in 1 .. Len(commands) BY <2>1, TailElements
  <2>3. QED BY <2>2 DEF EngineInv, CommandsFit
<1>3. UNCHANGED <<store, reply>> BY DEF HandleSubmit, Begin
<1> HIDE DEF r
<1>4. cause'.action = <<r, 0>> /\ cause'.kind = "Submit" /\ RunOf(cause'.action) = r
  BY <1>1 DEF Submission, RunOf
<1>5. PICK x \in ActionId \cup {NoAction} :
            /\ Issues(r, x) /\ Handler(todo', r, <<r, 0>>, x)
            /\ todo'[1] \in {SaveRun(r, SessionAfter(x)), Reply(r, "Err")}
  BY <1>1
<1>6. Orderly(todo', r, <<r, 0>>) /\ Led(todo', r) BY <1>5 DEF Handler
<1>7. \A i \in 1 .. Len(todo') : HasTarget(todo'[i]) =>
         \E j \in 1 .. i : todo'[j] = SaveRun(r, Target(todo'[i]))
  BY <1>6 DEF Led
<1>8. todo'[1].op = "SaveRun" \/ todo'[1] = Reply(r, "Err")
  BY <1>5 DEF SaveRun
<1>9. \A i \in 1 .. Len(todo') :
         todo'[i].op = "SaveAction" /\ todo'[i].state = "Completed" => todo'[1].op = "SaveRun"
  BY <1>5 DEF Handler
<1>10. store[r] \notin Terminal BY <1>2, SessionFields DEF Terminal
<1>11. QED
  BY <1>2, <1>3, <1>4, <1>6, <1>7, <1>8, <1>9, <1>10 DEF HandlerFits, Todo, Current

(* Every update is about an action in work. *)
LEMMA UpdateInWork ==
    ASSUME TypeOK, ClaimsAnswered, HandleUpdate
    PROVE  LET u == Head(updates)
           IN  /\ u.action \in ActionId /\ InWork(u.action)
               /\ u = updates[1] /\ 1 \in 1 .. Len(updates) /\ u \in Updates
               /\ u.kind # "Claimed" => Answered(u.action)
<1>1. updates # <<>> /\ updates \in Seq(Updates) BY DEF HandleUpdate, TypeOK
<1>2. Head(updates) = updates[1] /\ updates[1] \in Updates /\ 1 \in 1 .. Len(updates)
  BY <1>1, TailElements
<1>3. updates[1].action \in ActionId BY <1>2 DEF Updates
<1>4. updates[1].kind # "Claimed" => Answered(updates[1].action)
  BY <1>2 DEF Answered, IsAnswer
<1>5. updates[1].kind = "Claimed" => InWork(updates[1].action)
  BY <1>2 DEF ClaimsAnswered, IsAnswer, InWork, Answered
<1>6. QED BY <1>2, <1>3, <1>4, <1>5 DEF InWork

LEMMA UpdateHandlerFits ==
    ASSUME EngineInv, HandleUpdate
    PROVE  HandlerFits'
<1> DEFINE u == Head(updates)
           a == u.action
           r == RunOf(a)
<1>1. /\ a \in ActionId /\ r \in Runs /\ cause' = u
      /\ \E x \in ActionId \cup {NoAction} :
            /\ Handler(todo', r, a, x) /\ ~Replies(todo')
            /\ Resumes(todo') => u.kind = "Completed" /\ HasSnapshot(store[r])
  BY UpdateBegins DEF EngineInv
<1>2. InWork(a) /\ u \in Updates BY UpdateInWork DEF EngineInv
<1>3. store[r] \in {Failed, Waiting(a)} BY <1>1, <1>2 DEF EngineInv, WorkFits
<1>4. UNCHANGED <<store, reply>>
  BY <1>2 DEF HandleUpdate, Begin, Updates
<1> HIDE DEF u
<1>5. PICK x \in ActionId \cup {NoAction} :
            /\ Handler(todo', r, a, x) /\ ~Replies(todo')
            /\ Resumes(todo') => u.kind = "Completed" /\ HasSnapshot(store[r])
  BY <1>1
<1>6. Orderly(todo', r, a) /\ Led(todo', r) BY <1>5 DEF Handler
<1>7. \A i \in 1 .. Len(todo') : HasTarget(todo'[i]) =>
         \E j \in 1 .. i : todo'[j] = SaveRun(r, Target(todo'[i]))
  BY <1>6 DEF Led
<1>8. \A i \in 1 .. Len(todo') :
         todo'[i].op = "SaveAction" /\ todo'[i].state = "Completed" => todo'[1].op = "SaveRun"
  BY <1>5 DEF Handler
<1>9. store[r] # Unknown /\ (Resumes(todo') => store[r] \notin Terminal)
  BY <1>1, <1>3, <1>5, SessionFields DEF HasSnapshot, Terminal
<1>10. cause'.action = a /\ cause'.kind # "Submit" BY <1>1, <1>2 DEF Updates
<1> HIDE DEF a, r
<1>11. RunOf(cause'.action) = r BY <1>10 DEF r
<1>12. QED
  BY <1>4, <1>5, <1>6, <1>7, <1>8, <1>9, <1>10, <1>11 DEF HandlerFits, Todo, Current

LEMMA WriteHandlerFits ==
    ASSUME EngineInv, Write
    PROVE  HandlerFits'
<1> DEFINE w == todo[1]
<1>0. TypeOK /\ HandlerFits BY DEF EngineInv
<1>1. /\ todo # <<>> /\ todo \in Seq(Writes) /\ Current \in Runs /\ 1 \in Todo
      /\ w \in Writes /\ Perform(w)
      /\ Len(todo') = Len(todo) - 1 /\ todo' = Tail(todo)
      /\ \A i \in 1 .. Len(todo') : i + 1 \in Todo /\ todo'[i] = todo[i + 1]
      /\ \A j \in Todo : j > 1 => j - 1 \in 1 .. Len(todo') /\ todo'[j - 1] = todo[j]
      /\ todo' # <<>> => cause' = cause
  BY <1>0, WriteEffect
<1>2. /\ w.op \in {"SaveRun", "RecordStatus", "SaveAction", "Enqueue", "Publish", "Reply"}
      /\ w.op = "SaveRun" => w.run = Current /\ w.session \in Sessions \ {Unknown}
      /\ store' = IF w.op = "SaveRun" THEN [store EXCEPT ![Current] = w.session] ELSE store
  BY <1>0, WriteFocus
<1>3. store \in [Runs -> Sessions] /\ reply \in [Runs -> {"None", "Ok", "Err"}]
  BY <1>0 DEF TypeOK
<1>4. SUFFICES ASSUME todo' # <<>> PROVE HandlerFits' BY DEF HandlerFits
<1>5. cause' = cause /\ RunOf(cause'.action) = Current BY <1>1, <1>4 DEF Current
<1>6. Orderly(todo, Current, cause.action) BY <1>0, <1>1 DEF HandlerFits
<1>7. Orderly(todo', Current, cause.action) BY <1>1, <1>6, OrderlyTail
<1>8. \A i \in 1 .. Len(todo') : HasTarget(todo'[i]) =>
         \/ store'[Current] = Target(todo'[i])
         \/ \E j \in 1 .. i : todo'[j] = SaveRun(Current, Target(todo'[i]))
  <2>1. SUFFICES ASSUME NEW i \in 1 .. Len(todo'), HasTarget(todo'[i])
                 PROVE  \/ store'[Current] = Target(todo'[i])
                        \/ \E j \in 1 .. i : todo'[j] = SaveRun(Current, Target(todo'[i]))
    OBVIOUS
  <2>2. i + 1 \in Todo /\ todo'[i] = todo[i + 1] BY <1>1
  <2>3. CASE w.op = "SaveRun"
    <3>1. HasTarget(w) /\ Target(w) = w.session BY <2>3 DEF HasTarget, Target
    <3>2. \A j, k \in Todo : HasTarget(todo[j]) /\ HasTarget(todo[k]) =>
             Target(todo[j]) = Target(todo[k])
      BY <1>6 DEF Orderly, Todo
    <3>5. Target(todo'[i]) = w.session BY <1>1, <2>1, <2>2, <3>1, <3>2
    <3>3. store'[Current] = w.session BY <1>1, <1>2, <1>3, <2>3
    <3>4. QED BY <3>3, <3>5
  <2>4. CASE w.op # "SaveRun"
    <3>1. \/ store[Current] = Target(todo[i + 1])
          \/ \E j \in 1 .. i + 1 : todo[j] = SaveRun(Current, Target(todo[i + 1]))
      BY <1>0, <1>1, <2>1, <2>2 DEF HandlerFits
    <3>2. ASSUME NEW j \in 1 .. i + 1, todo[j] = SaveRun(Current, Target(todo[i + 1]))
          PROVE  \E k \in 1 .. i : todo'[k] = SaveRun(Current, Target(todo'[i]))
      <4>1. j # 1 BY <2>4, <3>2 DEF SaveRun
      <4>2. j \in Todo /\ j > 1 /\ j - 1 \in 1 .. i BY <2>2, <4>1 DEF Todo
      <4>3. todo'[j - 1] = todo[j] BY <1>1, <4>2
      <4>4. QED BY <2>2, <3>2, <4>2, <4>3
    <3>3. QED BY <1>2, <2>2, <2>4, <3>1, <3>2
  <2>5. QED BY <2>3, <2>4
<1>9. \A i \in Todo : i > 1 /\ todo[i].op = "SaveRun" => todo[i].session = Failed
  BY <1>6 DEF Orderly, Todo
<1>10. ~Resumes(todo') BY <1>1, <1>9 DEF Resumes
<1>11. /\ Replies(todo') => cause.kind = "Submit"
       /\ cause.kind = "Submit" => reply'[Current] = "None"
  <2>1. Replies(todo') => Replies(todo) BY <1>1 DEF Replies, Todo
  <2>2. Len(todo) # 1
    <3>1. todo' \in Seq(Writes) BY <1>0, WriteEffect
    <3>2. Len(todo') # 0 BY <1>4, <3>1, EmptySeq
    <3>3. QED BY <1>1, <3>2
  <2>3. w.op # "Reply" BY <1>1, <1>6, <2>2 DEF Orderly, Todo
  <2>4. reply' = reply BY <1>1, <2>3 DEF Perform
  <2>5. QED BY <1>0, <1>1, <2>1, <2>4 DEF HandlerFits
<1>12. store'[Current] # Unknown
  <2>1. CASE w.op = "SaveRun" BY <1>1, <1>2, <1>3, <2>1
  <2>2. CASE w.op # "SaveRun" /\ store[Current] = Unknown
    <3>1. w = Reply(Current, "Err") BY <1>0, <1>1, <2>2 DEF HandlerFits
    <3>2. w.op = "Reply" BY <3>1 DEF Reply
    <3>3. Len(todo) = 1 BY <1>1, <1>6, <3>2 DEF Orderly, Todo
    <3>4. Len(todo') = 0 BY <1>1, <3>3
    <3>5. todo' \in Seq(Writes) BY <1>0, WriteEffect
    <3>6. QED BY <1>4, <3>4, <3>5, EmptySeq
  <2>3. QED BY <1>2, <2>1, <2>2
<1>13. \A i \in 1 .. Len(todo') : todo'[i].op = "SaveAction" /\ todo'[i].state = "Completed" =>
          store'[Current] # Waiting(cause.action)
  <2>1. SUFFICES ASSUME NEW i \in 1 .. Len(todo'), todo'[i].op = "SaveAction",
                        todo'[i].state = "Completed"
                 PROVE  store'[Current] # Waiting(cause.action)
    OBVIOUS
  <2>2. i + 1 \in Todo /\ todo[i + 1].op = "SaveAction" /\ todo[i + 1].state = "Completed"
        /\ todo[i + 1] \in Writes
    BY <1>1, <2>1 DEF Todo
  <2>3. todo[i + 1].action = cause.action BY <1>6, <2>2 DEF Orderly, Todo
  <2>4. cause.action \in ActionId BY <2>2, <2>3, WriteFields
  <2>5. CASE w.op # "SaveRun" BY <1>0, <1>1, <1>2, <2>2, <2>5 DEF HandlerFits
  <2>6. CASE w.op = "SaveRun"
    <3>1. SUFFICES ASSUME w.session = Waiting(cause.action) PROVE FALSE
      BY <1>1, <1>2, <1>3, <2>6
    <3>2. IsWaiting(w.session) /\ w.session.action = cause.action
      BY <2>4, <3>1, SessionFields
    <3>3. \E j \in Todo : todo[j] = Enqueue(cause.action)
      <4>1. \A k \in Todo : todo[k].op = "SaveRun" /\ IsWaiting(todo[k].session) =>
               \E j \in Todo : todo[j] = Enqueue(todo[k].session.action)
        BY <1>6 DEF Orderly, Todo
      <4>2. QED BY <1>1, <2>6, <3>2, <4>1
    <3>4. QED BY <2>4, <3>3 DEF EngineInv, WorkFits, Due
  <2>7. QED BY <2>5, <2>6
<1>14. QED
  BY <1>5, <1>7, <1>8, <1>10, <1>11, <1>12, <1>13 DEF HandlerFits, Todo, Current

LEMMA FailureHandlerFits ==
    ASSUME EngineInv, WriteFails
    PROVE  HandlerFits'
<1>1. SUFFICES ASSUME todo' # <<>> PROVE HandlerFits' BY DEF HandlerFits
<1>2. /\ Current \in Runs /\ cause' = cause /\ ~Resumes(todo')
      /\ Handler(todo', Current, cause.action, NoAction)
      /\ \/ cause.kind = "Submit" /\ todo' = <<Reply(Current, "Err")>>
         \/ cause.kind # "Submit" /\ ~Replies(todo')
  BY <1>1, FailureBegins DEF EngineInv, Current
<1>3. todo # <<>> /\ UNCHANGED <<store, reply>> BY DEF WriteFails
<1>4. Orderly(todo', Current, cause.action) /\ Led(todo', Current) BY <1>2 DEF Handler
<1>5. \A i \in 1 .. Len(todo') : HasTarget(todo'[i]) =>
         \E j \in 1 .. i : todo'[j] = SaveRun(Current, Target(todo'[i]))
  BY <1>4 DEF Led
<1>6. \A i \in 1 .. Len(todo') :
         todo'[i].op = "SaveAction" /\ todo'[i].state = "Completed" => todo'[1].op = "SaveRun"
  BY <1>2 DEF Handler
<1>7. cause.kind = "Submit" => todo'[1] = Reply(Current, "Err") BY <1>2
<1>8. QED
  BY <1>2, <1>3, <1>4, <1>5, <1>6, <1>7 DEF EngineInv, HandlerFits, Todo, Current

(***************************************************************************)
(* Commands fit                                                            *)
(***************************************************************************)
LEMMA SubmissionsDiffer ==
    /\ \A r, q : Submission(r) = Submission(q) => r = q
    /\ \A r : Submission(r) # Idle /\ \A u \in Updates : u # Submission(r)
BY DEF Submission, Idle, Updates, NoAction

LEMMA CommandsStep ==
    ASSUME EngineInv, [Next]_vars
    PROVE  CommandsFit'
<1>0. TypeOK /\ CommandsFit /\ HandlerFits /\ commands \in Seq(Runs)
  BY DEF EngineInv, TypeOK
<1>1. ASSUME UNCHANGED <<commands, store, reply>>, phase' = "recovering" => phase = "recovering",
             cause' = cause \/ (cause' = Idle)
      PROVE  CommandsFit'
  BY <1>0, <1>1, SubmissionsDiffer DEF CommandsFit
<1>2. ASSUME NEW r \in Runs, Submit(r) PROVE CommandsFit'
  <2>1. /\ phase' = "serving" /\ commands' = Append(commands, r)
        /\ UNCHANGED <<store, reply, cause>>
        /\ store[r] = Unknown /\ reply[r] = "None" /\ cause # Submission(r)
        /\ ~Contains(commands, r)
    BY <1>2 DEF Submit, durable
  <2>2. /\ Len(commands') = Len(commands) + 1 /\ commands'[Len(commands) + 1] = r
        /\ \A i \in 1 .. Len(commands) : commands'[i] = commands[i]
    BY <1>0, <2>1, AppendProperties
  <2>3. Len(commands) \in Nat BY <1>0, LenProperties
  <2>4. \A i \in 1 .. Len(commands) : commands[i] # r BY <2>1 DEF Contains
  <2>5. \A i \in 1 .. Len(commands') : i \in 1 .. Len(commands) \/ i = Len(commands) + 1
    BY <2>2, <2>3
  <2>6. QED BY <1>0, <2>1, <2>2, <2>4, <2>5 DEF CommandsFit
<1>3. CASE HandleSubmit
  <2>1. /\ commands # <<>> /\ commands' = Tail(commands) /\ phase # "recovering"
        /\ UNCHANGED <<store, reply, phase>>
    BY <1>3 DEF HandleSubmit, Ready, Begin
  <2>2. cause' = Submission(commands[1])
    BY <1>0, <1>3, <2>1, SubmitBegins, TailElements
  <2>3. /\ \A i \in 1 .. Len(commands') : i + 1 \in 1 .. Len(commands)
                                         /\ commands'[i] = commands[i + 1]
        /\ 1 \in 1 .. Len(commands) /\ Len(commands') \in Nat
    BY <1>0, <2>1, TailElements, LenProperties
  <2>4. \A i \in 1 .. Len(commands') : commands'[i] # commands[1]
    BY <1>0, <2>3 DEF CommandsFit
  <2>5. \A i, j \in 1 .. Len(commands') : commands'[i] = commands'[j] => i = j
    BY <1>0, <2>3 DEF CommandsFit
  <2>6. QED
    BY <1>0, <2>1, <2>2, <2>3, <2>4, <2>5, SubmissionsDiffer DEF CommandsFit
<1>4. CASE HandleUpdate
  <2>1. cause' \in Updates BY <1>0, <1>4, UpdateBegins
  <2>2. Head(updates) \in Updates BY <1>0, <1>4, UpdateBegins
  <2>3. phase # "recovering" /\ UNCHANGED <<commands, store, reply, phase>>
    BY <1>4, <2>2 DEF HandleUpdate, Ready, Begin, Updates
  <2>4. QED BY <1>0, <2>1, <2>3, SubmissionsDiffer DEF CommandsFit
<1>5. CASE Write
  <2>1. /\ todo # <<>> /\ cause # Idle /\ Current \in Runs /\ Perform(todo[1]) /\ 1 \in Todo
        /\ UNCHANGED <<phase, commands>> /\ cause' \in {cause, Idle}
        /\ cause \in Updates \cup {Submission(r) : r \in Runs}
    BY <1>0, <1>5, WriteEffect
  <2>2. cause.kind = "Submit" => cause = Submission(Current)
    BY <2>1, CauseFields DEF Current
  <2>3. /\ store' = IF todo[1].op = "SaveRun" THEN [store EXCEPT ![Current] = todo[1].session]
                                              ELSE store
        /\ todo[1].op = "Reply" => todo[1].run = Current
    BY <1>0, <1>5, WriteFocus
  <2>4. reply' = IF todo[1].op = "Reply" THEN [reply EXCEPT ![Current] = todo[1].answer]
                                         ELSE reply
    BY <2>1, <2>3 DEF Perform
  <2>5. store[Current] = Unknown \/ todo[1].op = "Reply" => cause = Submission(Current)
    BY <1>0, <2>1, <2>2 DEF HandlerFits, Replies, Todo
  <2>6. \A i \in 1 .. Len(commands) :
           commands[i] \in Runs /\ (cause = Submission(Current) => commands[i] # Current)
    BY <1>0, ElementOfSeq DEF CommandsFit
  <2>7. \A i \in 1 .. Len(commands) :
           store[commands[i]] = Unknown /\ reply[commands[i]] = "None"
              /\ cause # Submission(commands[i])
    BY <1>0 DEF CommandsFit
  <2>8. \A i \in 1 .. Len(commands) :
           store'[commands[i]] = Unknown /\ reply'[commands[i]] = "None"
    BY <1>0, <2>3, <2>4, <2>5, <2>6, <2>7 DEF TypeOK
  <2>9. phase # "recovering" BY <1>0, <2>1 DEF CommandsFit
  <2>10. QED BY <1>0, <2>1, <2>7, <2>8, <2>9, SubmissionsDiffer DEF CommandsFit
<1>6. CASE WriteFails
  <2>1. UNCHANGED <<commands, store, reply, phase>> BY <1>6 DEF WriteFails
  <2>2. cause' \in {cause, Idle} BY <1>0, <1>6, FailureBegins
  <2>3. QED BY <1>1, <2>1, <2>2
<1>7. CASE Claim \/ Execute
  <2>1. UNCHANGED <<commands, store, reply, phase, cause>>
    BY <1>7 DEF Claim, Execute, durable, engine
  <2>2. QED BY <1>1, <2>1
<1>8. CASE Restart
  <2>1. commands' = <<>> /\ cause' = Idle BY <1>8 DEF Restart
  <2>2. Len(commands') = 0 BY <2>1, EmptySeq
  <2>3. QED BY <2>1, <2>2 DEF CommandsFit
<1>9. ASSUME NEW r \in Runs, RecoverRun(r) PROVE CommandsFit'
  BY <1>1, <1>9 DEF RecoverRun, durable
<1>10. CASE Recovered BY <1>1, <1>10 DEF Recovered, durable
<1>11. CASE UNCHANGED vars BY <1>1, <1>11 DEF vars, durable, engine
<1>12. QED
  BY <1>2, <1>3, <1>4, <1>5, <1>6, <1>7, <1>8, <1>9, <1>10, <1>11
     DEF Next, EngineStep, Recover

LEMMA HandlerStep ==
    ASSUME EngineInv, [Next]_vars
    PROVE  HandlerFits'
<1>0. HandlerFits BY DEF EngineInv
<1>1. CASE \E r \in Runs : Submit(r) BY <1>0, <1>1, HandlerKept DEF Submit, durable
<1>2. CASE HandleSubmit BY <1>2, SubmitHandlerFits
<1>3. CASE HandleUpdate BY <1>3, UpdateHandlerFits
<1>4. CASE Write BY <1>4, WriteHandlerFits
<1>5. CASE WriteFails BY <1>5, FailureHandlerFits
<1>6. CASE Claim \/ Execute BY <1>0, <1>6, HandlerKept DEF Claim, Execute, durable, engine
<1>7. CASE Restart BY <1>7 DEF Restart, HandlerFits
<1>8. CASE Recovered \/ \E r \in Runs : RecoverRun(r)
  BY <1>0, <1>8, HandlerKept DEF Recovered, RecoverRun, durable
<1>9. CASE UNCHANGED vars BY <1>0, <1>9, HandlerKept DEF vars, durable, engine
<1>10. QED
  BY <1>1, <1>2, <1>3, <1>4, <1>5, <1>6, <1>7, <1>8, <1>9 DEF Next, EngineStep, Recover

(***************************************************************************)
(* One action of each run at a time                                        *)
(***************************************************************************)
LEMMA EnqueueEffect ==
    ASSUME TypeOK, NEW b \in ActionId, actionQueue' = Append(actionQueue, b)
    PROVE  /\ \A a \in ActionId : Queued(a)' <=> (Queued(a) \/ a = b)
           /\ Len(actionQueue') = Len(actionQueue) + 1 /\ Len(actionQueue) \in Nat
           /\ actionQueue'[Len(actionQueue) + 1] = b
           /\ \A i \in 1 .. Len(actionQueue) :
                 actionQueue'[i] = actionQueue[i] /\ actionQueue[i] \in ActionId
           /\ \A i \in 1 .. Len(actionQueue') :
                 i \in 1 .. Len(actionQueue) \/ i = Len(actionQueue) + 1
<1>1. actionQueue \in Seq(ActionId) BY DEF TypeOK
<1>2. /\ Len(actionQueue') = Len(actionQueue) + 1 /\ Len(actionQueue) \in Nat
      /\ actionQueue'[Len(actionQueue) + 1] = b
      /\ \A i \in 1 .. Len(actionQueue) : actionQueue'[i] = actionQueue[i]
  BY <1>1, AppendProperties, LenProperties
<1>3. \A i \in 1 .. Len(actionQueue') :
         i \in 1 .. Len(actionQueue) \/ i = Len(actionQueue) + 1
  BY <1>2
<1>4. \A i \in 1 .. Len(actionQueue) : i \in 1 .. Len(actionQueue') BY <1>2
<1>5. Len(actionQueue) + 1 \in 1 .. Len(actionQueue') BY <1>2
<1>6. \A a \in ActionId : Queued(a)' <=> (Queued(a) \/ a = b)
  BY <1>2, <1>3, <1>4, <1>5 DEF Queued
<1>7. QED BY <1>1, <1>2, <1>3, <1>6, ElementOfSeq

LEMMA EnqueueKeepsOne ==
    ASSUME TypeOK, OneByRun, NEW b \in ActionId, actionQueue' = Append(actionQueue, b),
           UNCHANGED <<executing, updates>>, ~Working(RunOf(b))
    PROVE  OneByRun'
<1>1. \A a \in ActionId : RunOf(a) = RunOf(b) => ~Queued(a) /\ executing # a /\ ~Answered(a)
  BY DEF Working, InWork
<1>2. /\ \A a \in ActionId : Queued(a)' <=> (Queued(a) \/ a = b)
      /\ actionQueue'[Len(actionQueue) + 1] = b
      /\ \A i \in 1 .. Len(actionQueue) :
            actionQueue'[i] = actionQueue[i] /\ actionQueue[i] \in ActionId
      /\ \A i \in 1 .. Len(actionQueue') :
            i \in 1 .. Len(actionQueue) \/ i = Len(actionQueue) + 1
  BY EnqueueEffect
<1>3. \A i \in 1 .. Len(actionQueue) : RunOf(actionQueue[i]) # RunOf(b)
  BY <1>1, <1>2 DEF Queued
<1>4. \A i, j \in 1 .. Len(actionQueue') :
         RunOf(actionQueue'[i]) = RunOf(actionQueue'[j]) => i = j
  BY <1>2, <1>3 DEF OneByRun
<1>5. \A a \in ActionId : Answered(a)' <=> Answered(a) BY DEF Answered
<1>6. executing # NoAction => executing \in ActionId /\ RunOf(executing) # RunOf(b)
  BY <1>1 DEF TypeOK
<1>7. \A a \in ActionId : executing' # NoAction /\ (Queued(a)' \/ Answered(a)') =>
         RunOf(a) # RunOf(executing')
  BY <1>2, <1>5, <1>6 DEF OneByRun
<1>8. \A a, c \in ActionId : Queued(a)' /\ Answered(c)' => RunOf(a) # RunOf(c)
  BY <1>1, <1>2, <1>5 DEF OneByRun
<1>9. \A i, j \in 1 .. Len(updates') :
          (IsAnswer(updates'[i]) /\ IsAnswer(updates'[j])
             /\ RunOf(updates'[i].action) = RunOf(updates'[j].action)) => i = j
  BY DEF OneByRun
<1>10. QED BY <1>4, <1>7, <1>8, <1>9 DEF OneByRun

LEMMA ClaimEffect ==
    ASSUME TypeOK, OneByRun, Claim
    PROVE  LET h == executing'
           IN  /\ h \in ActionId /\ h # NoAction /\ Queued(h) /\ executing = NoAction
               /\ \A a \in ActionId :
                    /\ Queued(a)' => Queued(a) /\ RunOf(a) # RunOf(h)
                    /\ Queued(a) => Queued(a)' \/ a = h
                    /\ Answered(a)' <=> Answered(a)
               /\ Len(actionQueue') \in Nat
               /\ \A i \in 1 .. Len(actionQueue') :
                     i + 1 \in 1 .. Len(actionQueue) /\ actionQueue'[i] = actionQueue[i + 1]
               /\ Len(updates') = Len(updates) + 1 /\ Len(updates) \in Nat
               /\ updates'[Len(updates) + 1] = Update("Claimed", h)
               /\ ~IsAnswer(updates'[Len(updates) + 1])
               /\ updates'[Len(updates) + 1].action = h
               /\ \A i \in 1 .. Len(updates) :
                     i \in 1 .. Len(updates') /\ updates'[i] = updates[i]
               /\ \A i \in 1 .. Len(updates') :
                     i \in 1 .. Len(updates) \/ i = Len(updates) + 1
               /\ UNCHANGED <<durable, engine, bounds>>
<1> DEFINE h == executing'
<1>1. /\ executing = NoAction /\ actionQueue # <<>> /\ h = Head(actionQueue)
      /\ actionQueue' = Tail(actionQueue) /\ updates' = Append(updates, Update("Claimed", h))
      /\ UNCHANGED <<durable, engine, bounds>>
  BY DEF Claim
<1>2. actionQueue \in Seq(ActionId) /\ updates \in Seq(Updates) BY DEF TypeOK
<1>3. /\ h = actionQueue[1] /\ h \in ActionId /\ 1 \in 1 .. Len(actionQueue)
      /\ Len(actionQueue') \in Nat
      /\ \A i \in 1 .. Len(actionQueue') :
            i + 1 \in 1 .. Len(actionQueue) /\ actionQueue'[i] = actionQueue[i + 1]
      /\ \A j \in 1 .. Len(actionQueue) : j > 1 =>
            j - 1 \in 1 .. Len(actionQueue') /\ actionQueue'[j - 1] = actionQueue[j]
  BY <1>1, <1>2, TailElements, LenProperties
<1>4. Update("Claimed", h) \in Updates BY <1>3 DEF Update, Updates
<1> HIDE DEF h
<1>5. /\ Len(updates') = Len(updates) + 1 /\ Len(updates) \in Nat
      /\ updates'[Len(updates) + 1] = Update("Claimed", h)
      /\ \A i \in 1 .. Len(updates) : updates'[i] = updates[i]
  BY <1>1, <1>2, <1>4, AppendProperties, LenProperties
<1>6. /\ \A i \in 1 .. Len(updates) : i \in 1 .. Len(updates')
      /\ \A i \in 1 .. Len(updates') : i \in 1 .. Len(updates) \/ i = Len(updates) + 1
  BY <1>5
<1>7. ~IsAnswer(updates'[Len(updates) + 1]) /\ updates'[Len(updates) + 1].action = h
  BY <1>5 DEF IsAnswer, Update
<1>8. Queued(h) BY <1>3 DEF Queued
<1>9. \A a \in ActionId :
         /\ Queued(a)' => Queued(a) /\ RunOf(a) # RunOf(h)
         /\ Queued(a) => Queued(a)' \/ a = h
  <2>1. ASSUME NEW a \in ActionId, Queued(a)' PROVE Queued(a) /\ RunOf(a) # RunOf(h)
    <3>1. PICK i \in 1 .. Len(actionQueue') : actionQueue'[i] = a BY <2>1 DEF Queued
    <3>2. i + 1 \in 1 .. Len(actionQueue) /\ actionQueue[i + 1] = a /\ i + 1 # 1
      BY <1>3, <3>1
    <3>3. QED BY <1>3, <3>2 DEF Queued, OneByRun
  <2>2. ASSUME NEW a \in ActionId, Queued(a) PROVE Queued(a)' \/ a = h
    <3>1. PICK j \in 1 .. Len(actionQueue) : actionQueue[j] = a BY <2>2 DEF Queued
    <3>2. CASE j = 1 BY <1>3, <3>1, <3>2
    <3>3. CASE j > 1 BY <1>3, <3>1, <3>3 DEF Queued
    <3>4. QED BY <3>2, <3>3
  <2>3. QED BY <2>1, <2>2
<1>10. \A a \in ActionId : Answered(a)' <=> Answered(a)
  BY <1>5, <1>6, <1>7 DEF Answered
<1>11. h # NoAction BY <1>3, WriteTypes
<1>12. QED
  BY <1>1, <1>3, <1>5, <1>6, <1>7, <1>8, <1>9, <1>10, <1>11 DEF h

LEMMA ExecuteEffect ==
    ASSUME TypeOK, Execute
    PROVE  /\ executing \in ActionId /\ executing' = NoAction
           /\ \A a \in ActionId :
                 (Queued(a)' <=> Queued(a)) /\ (Answered(a)' <=> (Answered(a) \/ a = executing))
           /\ Len(updates') = Len(updates) + 1 /\ Len(updates) \in Nat
           /\ IsAnswer(updates'[Len(updates) + 1])
           /\ updates'[Len(updates) + 1].action = executing
           /\ \A i \in 1 .. Len(updates) :
                 i \in 1 .. Len(updates') /\ updates'[i] = updates[i]
                   /\ updates[i].action \in ActionId
           /\ \A i \in 1 .. Len(updates') :
                 i \in 1 .. Len(updates) \/ i = Len(updates) + 1
           /\ actionQueue' = actionQueue /\ UNCHANGED <<durable, engine, bounds>>
<1>1. /\ executing # NoAction /\ executing' = NoAction /\ actionQueue' = actionQueue
      /\ UNCHANGED <<durable, engine, bounds>>
      /\ \E kind \in {"Completed", "Failed"} : updates' = Append(updates, Update(kind, executing))
  BY DEF Execute
<1>2. executing \in ActionId /\ updates \in Seq(Updates) BY <1>1 DEF TypeOK
<1>3. PICK kind \in {"Completed", "Failed"} : updates' = Append(updates, Update(kind, executing))
  BY <1>1
<1>4. Update(kind, executing) \in Updates BY <1>2 DEF Update, Updates
<1>5. /\ Len(updates') = Len(updates) + 1 /\ Len(updates) \in Nat
      /\ updates'[Len(updates) + 1] = Update(kind, executing)
      /\ \A i \in 1 .. Len(updates) : updates'[i] = updates[i]
  BY <1>2, <1>3, <1>4, AppendProperties, LenProperties
<1>6. /\ \A i \in 1 .. Len(updates) : i \in 1 .. Len(updates')
      /\ \A i \in 1 .. Len(updates') : i \in 1 .. Len(updates) \/ i = Len(updates) + 1
      /\ Len(updates) + 1 \in 1 .. Len(updates')
  BY <1>5
<1>7. /\ IsAnswer(updates'[Len(updates) + 1])
      /\ updates'[Len(updates) + 1].action = executing
  BY <1>5 DEF IsAnswer, Update
<1>8. \A a \in ActionId : Answered(a)' <=> (Answered(a) \/ a = executing)
  BY <1>5, <1>6, <1>7 DEF Answered
<1>9. \A a \in ActionId : Queued(a)' <=> Queued(a) BY <1>1 DEF Queued
<1>10. \A i \in 1 .. Len(updates) : updates[i].action \in ActionId
  <2>1. \A i \in 1 .. Len(updates) : updates[i] \in Updates BY <1>2, ElementOfSeq
  <2>2. QED BY <2>1 DEF Updates
<1>11. QED BY <1>1, <1>2, <1>5, <1>6, <1>7, <1>8, <1>9, <1>10

LEMMA UpdateEffect ==
    ASSUME TypeOK, OneByRun, ClaimsAnswered, HandleUpdate
    PROVE  LET u == Head(updates)
           IN  /\ u.action \in ActionId /\ InWork(u.action) /\ cause' = u
               /\ u = updates[1] /\ u \in Updates
               /\ \A a \in ActionId :
                    /\ Queued(a)' <=> Queued(a)
                    /\ Answered(a)' => Answered(a)
                    /\ Answered(a)' /\ IsAnswer(u) => RunOf(a) # RunOf(u.action)
                    /\ Answered(a) => Answered(a)' \/ (IsAnswer(u) /\ a = u.action)
               /\ \A i \in 1 .. Len(updates') :
                     i + 1 \in 1 .. Len(updates) /\ updates'[i] = updates[i + 1]
               /\ \A j \in 1 .. Len(updates) : j > 1 =>
                     j - 1 \in 1 .. Len(updates') /\ updates'[j - 1] = updates[j]
               /\ 1 \in 1 .. Len(updates) /\ Len(updates) \in Nat
               /\ UNCHANGED <<store, records, log, feed, reply, phase, unrecovered, status, abandoned,
                              crashes, faults, commands, actionQueue, executing>>
<1> DEFINE u == Head(updates)
<1>1. updates # <<>> /\ updates \in Seq(Updates) /\ updates' = Tail(updates)
  BY DEF HandleUpdate, TypeOK
<1>2. /\ u = updates[1] /\ u \in Updates /\ u.action \in ActionId /\ InWork(u.action)
      /\ 1 \in 1 .. Len(updates) /\ (u.kind # "Claimed" => Answered(u.action))
  BY UpdateInWork
<1>3. cause' = u BY UpdateBegins
<1>4. UNCHANGED <<store, records, log, feed, reply, phase, unrecovered, status, abandoned,
                  crashes, faults, commands, actionQueue, executing>>
  BY <1>2 DEF HandleUpdate, Begin, Updates, bounds
<1> HIDE DEF u
<1>5. /\ \A i \in 1 .. Len(updates') :
            i + 1 \in 1 .. Len(updates) /\ updates'[i] = updates[i + 1]
      /\ \A j \in 1 .. Len(updates) : j > 1 =>
            j - 1 \in 1 .. Len(updates') /\ updates'[j - 1] = updates[j]
      /\ Len(updates) \in Nat
  BY <1>1, TailElements
<1>6. \A a \in ActionId : Queued(a)' <=> Queued(a) BY <1>4 DEF Queued
<1>7. ASSUME NEW a \in ActionId, Answered(a)'
      PROVE  Answered(a) /\ (IsAnswer(u) => RunOf(a) # RunOf(u.action))
  <2>1. PICK i \in 1 .. Len(updates') : IsAnswer(updates'[i]) /\ updates'[i].action = a
    BY <1>7 DEF Answered
  <2>2. /\ i + 1 \in 1 .. Len(updates) /\ IsAnswer(updates[i + 1]) /\ updates[i + 1].action = a
        /\ i + 1 # 1
    BY <1>5, <2>1
  <2>3. QED BY <1>2, <2>2 DEF Answered, OneByRun
<1>8. ASSUME NEW a \in ActionId, Answered(a)
      PROVE  Answered(a)' \/ (IsAnswer(u) /\ a = u.action)
  <2>1. PICK j \in 1 .. Len(updates) : IsAnswer(updates[j]) /\ updates[j].action = a
    BY <1>8 DEF Answered
  <2>2. CASE j = 1 BY <1>2, <2>1, <2>2
  <2>3. CASE j > 1 BY <1>5, <2>1, <2>3 DEF Answered
  <2>4. QED BY <2>2, <2>3
<1>9. QED BY <1>2, <1>3, <1>4, <1>5, <1>6, <1>7, <1>8 DEF u

LEMMA ClaimKeepsOne ==
    ASSUME TypeOK, OneByRun, ClaimsAnswered, Claim
    PROVE  OneByRun' /\ ClaimsAnswered'
<1> DEFINE h == executing'
<1>1. /\ h \in ActionId /\ h # NoAction /\ Queued(h) /\ executing = NoAction
      /\ \A a \in ActionId :
           /\ Queued(a)' => Queued(a) /\ RunOf(a) # RunOf(h)
           /\ Answered(a)' <=> Answered(a)
      /\ Len(actionQueue') \in Nat
      /\ \A i \in 1 .. Len(actionQueue') :
            i + 1 \in 1 .. Len(actionQueue) /\ actionQueue'[i] = actionQueue[i + 1]
      /\ Len(updates') = Len(updates) + 1 /\ Len(updates) \in Nat
      /\ ~IsAnswer(updates'[Len(updates) + 1])
      /\ updates'[Len(updates) + 1].action = h
      /\ \A i \in 1 .. Len(updates) : i \in 1 .. Len(updates') /\ updates'[i] = updates[i]
      /\ \A i \in 1 .. Len(updates') : i \in 1 .. Len(updates) \/ i = Len(updates) + 1
  BY ClaimEffect
<1>2. \A i, j \in 1 .. Len(actionQueue') :
         RunOf(actionQueue'[i]) = RunOf(actionQueue'[j]) => i = j
  BY <1>1 DEF OneByRun
<1>3. \A i, j \in 1 .. Len(updates') :
         (IsAnswer(updates'[i]) /\ IsAnswer(updates'[j])
            /\ RunOf(updates'[i].action) = RunOf(updates'[j].action)) => i = j
  BY <1>1 DEF OneByRun
<1>4. \A a \in ActionId : Queued(a)' \/ Answered(a)' => RunOf(a) # RunOf(h)
  BY <1>1 DEF OneByRun
<1>5. \A a, b \in ActionId : Queued(a)' /\ Answered(b)' => RunOf(a) # RunOf(b)
  BY <1>1 DEF OneByRun
<1>6. OneByRun' BY <1>2, <1>3, <1>4, <1>5 DEF OneByRun
<1>7. ASSUME NEW i \in 1 .. Len(updates), ~IsAnswer(updates[i])
      PROVE  \E j \in 1 .. Len(updates) :
                j > i /\ IsAnswer(updates[j]) /\ updates[j].action = updates[i].action
  <2>1. updates[i] \in Updates BY ElementOfSeq DEF TypeOK
  <2>2. updates[i].action # NoAction BY <2>1, WriteTypes DEF Updates
  <2>3. QED BY <1>1, <1>7, <2>2 DEF ClaimsAnswered
<1>8. \A i \in 1 .. Len(updates') : ~IsAnswer(updates'[i]) =>
          \/ h = updates'[i].action
          \/ \E j \in 1 .. Len(updates') :
                j > i /\ IsAnswer(updates'[j]) /\ updates'[j].action = updates'[i].action
  <2>1. SUFFICES ASSUME NEW i \in 1 .. Len(updates'), ~IsAnswer(updates'[i]),
                        h # updates'[i].action
                 PROVE  \E j \in 1 .. Len(updates') :
                           j > i /\ IsAnswer(updates'[j])
                             /\ updates'[j].action = updates'[i].action
    OBVIOUS
  <2>2. i \in 1 .. Len(updates) BY <1>1, <2>1
  <2>3. PICK j \in 1 .. Len(updates) :
                j > i /\ IsAnswer(updates[j]) /\ updates[j].action = updates[i].action
    BY <1>1, <1>7, <2>1, <2>2
  <2>4. QED BY <1>1, <2>2, <2>3
<1>9. \A i \in 1 .. Len(updates) : ~IsAnswer(updates[i]) => RunOf(updates[i].action) # RunOf(h)
  <2>1. SUFFICES ASSUME NEW i \in 1 .. Len(updates), ~IsAnswer(updates[i])
                 PROVE  RunOf(updates[i].action) # RunOf(h)
    OBVIOUS
  <2>2. Answered(updates[i].action) BY <1>7, <2>1 DEF Answered
  <2>3. updates[i] \in Updates BY ElementOfSeq DEF TypeOK
  <2>4. updates[i].action \in ActionId BY <2>3 DEF Updates
  <2>5. QED BY <1>1, <2>2, <2>4 DEF OneByRun
<1>10. \A i, j \in 1 .. Len(updates') :
          (~IsAnswer(updates'[i]) /\ ~IsAnswer(updates'[j])
             /\ RunOf(updates'[i].action) = RunOf(updates'[j].action)) => i = j
  BY <1>1, <1>9 DEF ClaimsAnswered
<1>11. QED BY <1>6, <1>8, <1>10 DEF ClaimsAnswered

LEMMA ExecuteKeepsOne ==
    ASSUME TypeOK, OneByRun, ClaimsAnswered, Execute
    PROVE  OneByRun' /\ ClaimsAnswered'
<1>1. /\ executing \in ActionId /\ executing' = NoAction
      /\ \A a \in ActionId :
            (Queued(a)' <=> Queued(a)) /\ (Answered(a)' <=> (Answered(a) \/ a = executing))
      /\ Len(updates') = Len(updates) + 1 /\ Len(updates) \in Nat
      /\ IsAnswer(updates'[Len(updates) + 1])
      /\ updates'[Len(updates) + 1].action = executing
      /\ \A i \in 1 .. Len(updates) :
            i \in 1 .. Len(updates') /\ updates'[i] = updates[i] /\ updates[i].action \in ActionId
      /\ \A i \in 1 .. Len(updates') : i \in 1 .. Len(updates) \/ i = Len(updates) + 1
      /\ actionQueue' = actionQueue
  BY ExecuteEffect
<1>2. executing # NoAction BY <1>1, WriteTypes
<1>3. \A i \in 1 .. Len(updates) : IsAnswer(updates[i]) =>
         RunOf(updates[i].action) # RunOf(executing)
  BY <1>1, <1>2 DEF OneByRun, Answered
<1>4. \A i, j \in 1 .. Len(updates') :
         (IsAnswer(updates'[i]) /\ IsAnswer(updates'[j])
            /\ RunOf(updates'[i].action) = RunOf(updates'[j].action)) => i = j
  BY <1>1, <1>3 DEF OneByRun
<1>5. \A a, b \in ActionId : Queued(a)' /\ Answered(b)' => RunOf(a) # RunOf(b)
  BY <1>1, <1>2 DEF OneByRun
<1>6. OneByRun' BY <1>1, <1>4, <1>5 DEF OneByRun
<1>7. \A i \in 1 .. Len(updates') : ~IsAnswer(updates'[i]) =>
          \E j \in 1 .. Len(updates') :
             j > i /\ IsAnswer(updates'[j]) /\ updates'[j].action = updates'[i].action
  <2>1. SUFFICES ASSUME NEW i \in 1 .. Len(updates'), ~IsAnswer(updates'[i])
                 PROVE  \E j \in 1 .. Len(updates') :
                           j > i /\ IsAnswer(updates'[j])
                             /\ updates'[j].action = updates'[i].action
    OBVIOUS
  <2>2. i \in 1 .. Len(updates) /\ updates'[i] = updates[i] BY <1>1, <2>1
  <2>3. CASE executing = updates[i].action
    <3>1. Len(updates) + 1 \in 1 .. Len(updates') /\ Len(updates) + 1 > i BY <1>1, <2>2
    <3>2. QED BY <1>1, <2>2, <2>3, <3>1
  <2>4. CASE executing # updates[i].action
    <3>1. PICK j \in 1 .. Len(updates) :
                  j > i /\ IsAnswer(updates[j]) /\ updates[j].action = updates[i].action
      BY <2>1, <2>2, <2>4 DEF ClaimsAnswered
    <3>2. QED BY <1>1, <2>2, <3>1
  <2>5. QED BY <2>3, <2>4
<1>8. \A i, j \in 1 .. Len(updates') :
          (~IsAnswer(updates'[i]) /\ ~IsAnswer(updates'[j])
             /\ RunOf(updates'[i].action) = RunOf(updates'[j].action)) => i = j
  BY <1>1 DEF ClaimsAnswered
<1>9. QED BY <1>6, <1>7, <1>8 DEF ClaimsAnswered

LEMMA UpdateKeepsOne ==
    ASSUME TypeOK, OneByRun, ClaimsAnswered, HandleUpdate
    PROVE  OneByRun' /\ ClaimsAnswered'
<1>1. /\ \A a \in ActionId : (Queued(a)' <=> Queued(a)) /\ (Answered(a)' => Answered(a))
      /\ \A i \in 1 .. Len(updates') :
            i + 1 \in 1 .. Len(updates) /\ updates'[i] = updates[i + 1]
      /\ \A j \in 1 .. Len(updates) : j > 1 =>
            j - 1 \in 1 .. Len(updates') /\ updates'[j - 1] = updates[j]
      /\ Len(updates) \in Nat /\ UNCHANGED <<actionQueue, executing>>
  BY UpdateEffect
<1>2. \A i, j \in 1 .. Len(updates') :
         (IsAnswer(updates'[i]) /\ IsAnswer(updates'[j])
            /\ RunOf(updates'[i].action) = RunOf(updates'[j].action)) => i = j
  <2>1. SUFFICES ASSUME NEW i \in 1 .. Len(updates'), NEW j \in 1 .. Len(updates'),
                        IsAnswer(updates'[i]), IsAnswer(updates'[j]),
                        RunOf(updates'[i].action) = RunOf(updates'[j].action)
                 PROVE  i = j
    OBVIOUS
  <2>2. \A k, l \in 1 .. Len(updates) :
           (IsAnswer(updates[k]) /\ IsAnswer(updates[l])
              /\ RunOf(updates[k].action) = RunOf(updates[l].action)) => k = l
    BY DEF OneByRun
  <2>3. i + 1 = j + 1 BY <1>1, <2>1, <2>2
  <2>4. QED BY <2>3
<1>3. OneByRun' BY <1>1, <1>2 DEF OneByRun
<1>4. \A i \in 1 .. Len(updates') : ~IsAnswer(updates'[i]) =>
          \/ executing' = updates'[i].action
          \/ \E j \in 1 .. Len(updates') :
                j > i /\ IsAnswer(updates'[j]) /\ updates'[j].action = updates'[i].action
  <2>1. SUFFICES ASSUME NEW i \in 1 .. Len(updates'), ~IsAnswer(updates'[i]),
                        executing' # updates'[i].action
                 PROVE  \E j \in 1 .. Len(updates') :
                           j > i /\ IsAnswer(updates'[j])
                             /\ updates'[j].action = updates'[i].action
    OBVIOUS
  <2>2. i + 1 \in 1 .. Len(updates) /\ updates'[i] = updates[i + 1] BY <1>1
  <2>3. PICK j \in 1 .. Len(updates) :
                j > i + 1 /\ IsAnswer(updates[j]) /\ updates[j].action = updates[i + 1].action
    <3>1. ~IsAnswer(updates[i + 1]) /\ executing # updates[i + 1].action
      BY <1>1, <2>1, <2>2
    <3>2. QED BY <2>2, <3>1 DEF ClaimsAnswered
  <2>4. j > 1 /\ j - 1 > i BY <2>3
  <2>5. j - 1 \in 1 .. Len(updates') /\ updates'[j - 1] = updates[j]
    BY <1>1, <2>3, <2>4
  <2>6. IsAnswer(updates'[j - 1]) /\ updates'[j - 1].action = updates'[i].action
    BY <2>2, <2>3, <2>5
  <2>7. QED BY <2>4, <2>5, <2>6
<1>5. \A i, j \in 1 .. Len(updates') :
          (~IsAnswer(updates'[i]) /\ ~IsAnswer(updates'[j])
             /\ RunOf(updates'[i].action) = RunOf(updates'[j].action)) => i = j
  <2>1. SUFFICES ASSUME NEW i \in 1 .. Len(updates'), NEW j \in 1 .. Len(updates'),
                        ~IsAnswer(updates'[i]), ~IsAnswer(updates'[j]),
                        RunOf(updates'[i].action) = RunOf(updates'[j].action)
                 PROVE  i = j
    OBVIOUS
  <2>2. /\ i + 1 \in 1 .. Len(updates) /\ updates'[i] = updates[i + 1]
        /\ j + 1 \in 1 .. Len(updates) /\ updates'[j] = updates[j + 1]
    BY <1>1, <2>1
  <2>3. i + 1 = j + 1 BY <2>1, <2>2 DEF ClaimsAnswered
  <2>4. QED BY <2>3
<1>6. QED BY <1>3, <1>4, <1>5 DEF ClaimsAnswered

(* What a write does to the work: only an Enqueue adds to it. *)
LEMMA WriteWork ==
    ASSUME EngineInv, Write
    PROVE  LET w == todo[1]
           IN  /\ w.op # "Enqueue" => actionQueue' = actionQueue
               /\ w.op = "Enqueue" =>
                    /\ actionQueue' = Append(actionQueue, w.action) /\ w.action \in ActionId
                    /\ Due(w.action) /\ ~Working(Current) /\ RunOf(w.action) = Current
                    /\ store[Current] = Waiting(w.action)
<1>0. TypeOK /\ HandlerFits BY DEF EngineInv
<1> DEFINE w == todo[1]
<1>1. /\ todo # <<>> /\ 1 \in Todo /\ w \in Writes /\ Perform(w) /\ Current \in Runs
  BY <1>0, WriteEffect
<1>2. CASE w.op # "Enqueue" BY <1>1, <1>2 DEF Perform
<1>3. CASE w.op = "Enqueue"
  <2>1. w.action \in ActionId /\ RunOf(w.action) = Current /\ w = Enqueue(w.action)
    BY <1>0, <1>3, WriteFocus
  <2>2. actionQueue' = Append(actionQueue, w.action) BY <1>1, <1>3 DEF Perform
  <2>3. Due(w.action) BY <1>1, <2>1 DEF Due
  <2>4. ~Working(Current) BY <2>1, <2>3 DEF EngineInv, WorkFits
  <2>5. HasTarget(w) /\ Target(w) = Waiting(w.action) BY <1>3 DEF HasTarget, Target
  <2>6. \A j \in 1 .. 1 : todo[j].op # "SaveRun" BY <1>3
  <2>7. store[Current] = Waiting(w.action)
    <3>1. \/ store[Current] = Target(w)
          \/ \E j \in 1 .. 1 : todo[j] = SaveRun(Current, Target(w))
      BY <1>0, <1>1, <2>5 DEF HandlerFits
    <3>2. QED BY <2>5, <2>6, <3>1 DEF SaveRun
  <2>8. QED BY <1>3, <2>1, <2>2, <2>3, <2>4, <2>7
<1>4. QED BY <1>2, <1>3

(* Recovery enqueues the action of a waiting run that is nowhere in work. *)
LEMMA RecoverWork ==
    ASSUME EngineInv, NEW r \in Runs, RecoverRun(r)
    PROVE  \/ actionQueue' = actionQueue
           \/ \E b \in ActionId :
                /\ actionQueue' = Append(actionQueue, b) /\ RunOf(b) = r /\ ~Working(r)
                /\ store[r] = Waiting(b)
                /\ phase' = "recovering" /\ unrecovered' = unrecovered \ {r}
                /\ status'[r] = store[r]
<1>1. phase = "recovering" /\ r \in unrecovered /\ unrecovered' = unrecovered \ {r}
  BY DEF RecoverRun
<1>2. \/ actionQueue' = actionQueue
      \/ /\ IsWaiting(store[r]) /\ phase' = phase
         /\ actionQueue' = Append(actionQueue, store[r].action)
  BY DEF RecoverRun
<1>3. IsWaiting(store[r]) =>
         /\ store[r].action \in ActionId /\ store[r] = Waiting(store[r].action)
         /\ RunOf(store[r].action) = r
  BY SessionFields DEF EngineInv, TypeOK, IdsFit
<1>4. ~Working(r) BY <1>1 DEF EngineInv, WorkFits, Working
<1>5. status'[r] = store[r] BY DEF RecoverRun, EngineInv, TypeOK
<1>6. QED BY <1>1, <1>2, <1>3, <1>4, <1>5

LEMMA WorkKept ==
    ASSUME UNCHANGED worker
    PROVE  /\ \A a \in ActionId :
                 (Queued(a)' <=> Queued(a)) /\ (Answered(a)' <=> Answered(a))
                    /\ (InWork(a)' <=> InWork(a))
           /\ OneByRun => OneByRun'
           /\ ClaimsAnswered => ClaimsAnswered'
<1>1. UNCHANGED <<actionQueue, executing, updates>> BY DEF worker
<1>2. \A a \in ActionId :
         (Queued(a)' <=> Queued(a)) /\ (Answered(a)' <=> Answered(a))
            /\ (InWork(a)' <=> InWork(a))
  BY <1>1 DEF Queued, Answered, InWork
<1>3. OneByRun => OneByRun' BY <1>1, <1>2 DEF OneByRun
<1>4. ClaimsAnswered => ClaimsAnswered' BY <1>1 DEF ClaimsAnswered
<1>5. QED BY <1>2, <1>3, <1>4

LEMMA OneStep ==
    ASSUME EngineInv, [Next]_vars
    PROVE  OneByRun' /\ ClaimsAnswered'
<1>0. TypeOK /\ OneByRun /\ ClaimsAnswered BY DEF EngineInv
<1>1. ASSUME UNCHANGED worker PROVE OneByRun' /\ ClaimsAnswered'
  BY <1>0, <1>1, WorkKept
<1>2. ASSUME UNCHANGED <<executing, updates>> PROVE ClaimsAnswered'
  BY <1>0, <1>2 DEF ClaimsAnswered
<1>3. CASE \E r \in Runs : Submit(r) BY <1>1, <1>3 DEF Submit
<1>4. CASE HandleSubmit BY <1>1, <1>4 DEF HandleSubmit
<1>5. CASE HandleUpdate BY <1>0, <1>5, UpdateKeepsOne
<1>6. CASE Write
  <2>1. UNCHANGED <<executing, updates>> BY <1>6 DEF Write
  <2>2. CASE todo[1].op # "Enqueue" BY <1>1, <1>6, <2>1, <2>2, WriteWork DEF worker
  <2>3. CASE todo[1].op = "Enqueue"
    <3>1. /\ actionQueue' = Append(actionQueue, todo[1].action) /\ todo[1].action \in ActionId
          /\ ~Working(RunOf(todo[1].action))
      BY <1>6, <2>3, WriteWork
    <3>2. QED BY <1>0, <1>2, <2>1, <3>1, EnqueueKeepsOne
  <2>4. QED BY <2>2, <2>3
<1>7. CASE WriteFails BY <1>1, <1>7 DEF WriteFails
<1>8. CASE Claim BY <1>0, <1>8, ClaimKeepsOne
<1>9. CASE Execute BY <1>0, <1>9, ExecuteKeepsOne
<1>10. CASE Restart
  <2>1. actionQueue' = <<>> /\ updates' = <<>> /\ executing' = NoAction
    BY <1>10 DEF Restart
  <2>2. Len(actionQueue') = 0 /\ Len(updates') = 0 BY <2>1, EmptySeq
  <2>3. QED BY <2>1, <2>2 DEF OneByRun, ClaimsAnswered, Queued
<1>11. ASSUME NEW r \in Runs, RecoverRun(r) PROVE OneByRun' /\ ClaimsAnswered'
  <2>1. UNCHANGED <<executing, updates>> BY <1>11 DEF RecoverRun
  <2>2. CASE actionQueue' = actionQueue BY <1>1, <2>1, <2>2 DEF worker
  <2>3. CASE actionQueue' # actionQueue
    <3>1. PICK b \in ActionId :
                  actionQueue' = Append(actionQueue, b) /\ RunOf(b) = r /\ ~Working(r)
      BY <1>11, <2>3, RecoverWork
    <3>2. QED BY <1>0, <1>2, <2>1, <3>1, EnqueueKeepsOne
  <2>4. QED BY <2>2, <2>3
<1>12. CASE Recovered BY <1>1, <1>12 DEF Recovered
<1>13. CASE UNCHANGED vars BY <1>1, <1>13 DEF vars
<1>14. QED
  BY <1>3, <1>4, <1>5, <1>6, <1>7, <1>8, <1>9, <1>10, <1>11, <1>12, <1>13
     DEF Next, EngineStep, Recover

(***************************************************************************)
(* The work fits                                                           *)
(***************************************************************************)
LEMMA InWorkEffect ==
    ASSUME EngineInv
    PROVE  /\ Claim \/ Execute => \A a \in ActionId : InWork(a)' <=> InWork(a)
           /\ HandleUpdate =>
                 LET u == Head(updates)
                 IN  \A a \in ActionId :
                       /\ InWork(a)' => InWork(a)
                       /\ InWork(a) => InWork(a)' \/ (IsAnswer(u) /\ a = u.action)
                       /\ InWork(a)' /\ IsAnswer(u) => RunOf(a) # RunOf(u.action)
<1>0. TypeOK /\ OneByRun /\ ClaimsAnswered BY DEF EngineInv
<1>1. ASSUME Claim PROVE \A a \in ActionId : InWork(a)' <=> InWork(a)
  <2>1. /\ executing = NoAction /\ Queued(executing')
        /\ \A a \in ActionId :
             /\ Queued(a)' => Queued(a)
             /\ Queued(a) => Queued(a)' \/ a = executing'
             /\ Answered(a)' <=> Answered(a)
    BY <1>0, <1>1, ClaimEffect
  <2>2. \A a \in ActionId : a # NoAction BY WriteTypes
  <2>3. QED BY <2>1, <2>2 DEF InWork
<1>2. ASSUME Execute PROVE \A a \in ActionId : InWork(a)' <=> InWork(a)
  <2>1. /\ executing' = NoAction
        /\ \A a \in ActionId :
             (Queued(a)' <=> Queued(a)) /\ (Answered(a)' <=> (Answered(a) \/ a = executing))
    BY <1>0, <1>2, ExecuteEffect
  <2>2. \A a \in ActionId : a # NoAction BY WriteTypes
  <2>3. QED BY <2>1, <2>2 DEF InWork
<1>3. ASSUME HandleUpdate
      PROVE  LET u == Head(updates)
             IN  \A a \in ActionId :
                   /\ InWork(a)' => InWork(a)
                   /\ InWork(a) => InWork(a)' \/ (IsAnswer(u) /\ a = u.action)
                   /\ InWork(a)' /\ IsAnswer(u) => RunOf(a) # RunOf(u.action)
  <2> DEFINE u == Head(updates)
  <2>1. /\ u.action \in ActionId /\ u = updates[1] /\ 1 \in 1 .. Len(updates)
        /\ executing' = executing
        /\ \A a \in ActionId :
              /\ Queued(a)' <=> Queued(a)
              /\ Answered(a)' => Answered(a)
              /\ Answered(a)' /\ IsAnswer(u) => RunOf(a) # RunOf(u.action)
              /\ Answered(a) => Answered(a)' \/ (IsAnswer(u) /\ a = u.action)
    BY <1>0, <1>3, UpdateEffect
  <2> HIDE DEF u
  <2>2. IsAnswer(u) => Answered(u.action) BY <2>1 DEF Answered
  <2>3. IsAnswer(u) => \A a \in ActionId :
           (Queued(a) \/ executing = a) => RunOf(a) # RunOf(u.action)
    BY <1>0, <2>1, <2>2, WriteTypes DEF OneByRun
  <2>4. QED BY <2>1, <2>3 DEF InWork, u
<1>4. QED BY <1>1, <1>2, <1>3

LEMMA WorkFitsKept ==
    ASSUME WorkFits, \A a \in ActionId : InWork(a)' => InWork(a),
           UNCHANGED <<store, faults, todo, cause>>, unrecovered' \subseteq unrecovered,
           phase' = "recovering" => phase = "recovering"
    PROVE  WorkFits'
<1>1. \A r : Working(r)' => Working(r) BY DEF Working
<1>2. \A a \in ActionId : Due(a)' => Due(a) BY DEF Due, Todo
<1>3. QED BY <1>1, <1>2 DEF WorkFits, Todo, Current

LEMMA SubmitWorkFits ==
    ASSUME EngineInv, HandleSubmit
    PROVE  WorkFits'
<1>1. PICK r \in Runs :
            /\ r = Head(commands) /\ cause' = Submission(r)
            /\ \E x \in ActionId \cup {NoAction} :
                  Issues(r, x) /\ Handler(todo', r, <<r, 0>>, x)
  BY SubmitBegins DEF EngineInv
<1>2. store[r] = Unknown
  <2>1. commands # <<>> /\ commands \in Seq(Runs) BY DEF HandleSubmit, EngineInv, TypeOK
  <2>2. r = commands[1] /\ 1 \in 1 .. Len(commands) BY <1>1, <2>1, TailElements
  <2>3. QED BY <2>2 DEF EngineInv, CommandsFit
<1>3. UNCHANGED <<store, faults, phase, unrecovered, worker>>
  BY DEF HandleSubmit, Begin, bounds
<1>4. /\ cause'.action = <<r, 0>> /\ cause'.kind = "Submit" /\ Current' = r
      /\ <<r, 0>> \notin ActionId
  BY <1>1 DEF Submission, RunOf, ActionId, Current
<1>5. PICK x \in ActionId \cup {NoAction} : Issues(r, x) /\ Handler(todo', r, <<r, 0>>, x)
  BY <1>1
<1>6. x # NoAction => RunOf(x) = r BY <1>1, <1>5, IssuesType DEF EngineInv
<1>7. \A a \in ActionId : InWork(a)' <=> InWork(a) BY <1>3, WorkKept
<1>8. \A a \in ActionId : InWork(a) => store[RunOf(a)] # Unknown
  BY SessionFields DEF EngineInv, WorkFits
<1>9. ~Working(r)' BY <1>2, <1>7, <1>8 DEF Working
<1>10. \A a \in ActionId : Due(a)' => a = x
  BY <1>5 DEF Due, Todo, Handler, Enqueue
<1>11. \A a \in ActionId : Due(a)' => ~Working(RunOf(a))' /\ a # cause'.action
  BY <1>4, <1>6, <1>9, <1>10, WriteTypes
<1>12. \A a \in ActionId : InWork(a)' =>
          /\ store'[RunOf(a)] \in {Failed, Waiting(a)}
          /\ faults' = 0 => store'[RunOf(a)] = Waiting(a)
          /\ phase' = "recovering" => RunOf(a) \notin unrecovered'
          /\ cause'.kind \in {"Completed", "Failed"} => a # cause'.action
  BY <1>3, <1>4, <1>7 DEF EngineInv, WorkFits
<1>13. QED BY <1>4, <1>9, <1>11, <1>12 DEF WorkFits

LEMMA UpdateWorkFits ==
    ASSUME EngineInv, HandleUpdate
    PROVE  WorkFits'
<1>0. TypeOK /\ OneByRun /\ ClaimsAnswered BY DEF EngineInv
<1>h. PICK u \in Updates : u = Head(updates)
  BY <1>0, UpdateBegins
<1> DEFINE a == u.action
           r == RunOf(a)
<1>1. /\ u \in Updates /\ a \in ActionId /\ r \in Runs /\ cause' = u
      /\ \E x \in ActionId \cup {NoAction} :
            /\ Issues(r, x) /\ Handler(todo', r, a, x)
            /\ x # NoAction => u.kind = "Completed"
            /\ u.kind = "Claimed" => \A i \in 1 .. Len(todo') : todo'[i].op = "Publish"
  BY <1>0, <1>h, UpdateBegins
<1>2. /\ InWork(a)
      /\ UNCHANGED <<store, faults, phase, unrecovered>>
  BY <1>0, <1>h, UpdateEffect
<1>3. /\ \A b \in ActionId :
            /\ InWork(b)' => InWork(b)
            /\ InWork(b)' /\ IsAnswer(u) => RunOf(b) # r
  BY <1>h, InWorkEffect
<1>4. PICK x \in ActionId \cup {NoAction} :
            /\ Issues(r, x) /\ Handler(todo', r, a, x)
            /\ x # NoAction => u.kind = "Completed"
            /\ u.kind = "Claimed" => \A i \in 1 .. Len(todo') : todo'[i].op = "Publish"
  BY <1>1
<1>5. u.kind # "Claimed" => ~Working(r)'
  BY <1>3 DEF Working, IsAnswer
<1>6. \A b \in ActionId : Due(b)' => b = x
  BY <1>4 DEF Due, Todo, Handler, Enqueue
<1>7. x # NoAction => RunOf(x) = r /\ x # a
  <2>1. x # NoAction => x = <<r, issued[r] + 1>> BY <1>4 DEF Issues, NextAction
  <2>2. Within(issued, a) BY <1>1, <1>2 DEF EngineInv, IdsFit
  <2>3. issued[r] \in Nat BY <1>0, <1>1, EngineAssumption DEF TypeOK
  <2>4. a[2] # issued[r] + 1
    <3>1. a[2] \in Nat BY <1>1, EngineAssumption DEF ActionId
    <3>2. QED BY <2>2, <2>3, <3>1 DEF Within
  <2>5. QED BY <2>1, <2>4 DEF RunOf
<1>8. cause'.action = a /\ Current' = r /\ cause'.kind = u.kind BY <1>1 DEF Current
<1>9. \A b \in ActionId : Due(b)' => ~Working(RunOf(b))' /\ b # cause'.action
  BY <1>4, <1>5, <1>6, <1>7, <1>8, WriteTypes
<1>10. ASSUME NEW i \in Todo', todo'[i].op = "SaveRun" PROVE ~Working(Current)'
  <2>1. u.kind # "Claimed" BY <1>4, <1>10 DEF Todo
  <2>2. ~Working(r)' BY <1>5, <2>1
  <2>3. QED BY <1>8, <2>2 DEF Working
<1>11. \A b \in ActionId : InWork(b)' =>
          /\ store'[RunOf(b)] \in {Failed, Waiting(b)}
          /\ faults' = 0 => store'[RunOf(b)] = Waiting(b)
          /\ phase' = "recovering" => RunOf(b) \notin unrecovered'
  BY <1>2, <1>3 DEF EngineInv, WorkFits
<1>12. \A b \in ActionId : InWork(b)' =>
          (cause'.kind \in {"Completed", "Failed"} => b # cause'.action)
  BY <1>3, <1>8 DEF IsAnswer
<1>13. QED BY <1>9, <1>10, <1>11, <1>12 DEF WorkFits

LEMMA WriteWorkFits ==
    ASSUME EngineInv, Write
    PROVE  WorkFits'
<1>0. TypeOK /\ HandlerFits /\ WorkFits /\ CommandsFit BY DEF EngineInv
<1> DEFINE w == todo[1]
<1>1. /\ todo # <<>> /\ todo \in Seq(Writes) /\ cause # Idle /\ Current \in Runs /\ 1 \in Todo
      /\ \A i \in 1 .. Len(todo') : i + 1 \in Todo /\ todo'[i] = todo[i + 1]
      /\ todo' # <<>> => cause' = cause
      /\ todo' = <<>> => cause' = Idle
      /\ UNCHANGED <<phase, unrecovered, executing, updates, faults>>
      /\ todo' \in Seq(Writes)
  BY <1>0, WriteEffect
<1>2. /\ w.op = "SaveRun" => w.session \in Sessions
      /\ store' = IF w.op = "SaveRun" THEN [store EXCEPT ![Current] = w.session] ELSE store
  BY <1>0, WriteFocus
<1>3. /\ w.op # "Enqueue" => actionQueue' = actionQueue
      /\ w.op = "Enqueue" =>
           /\ actionQueue' = Append(actionQueue, w.action) /\ w.action \in ActionId
           /\ Due(w.action) /\ RunOf(w.action) = Current
           /\ store[Current] = Waiting(w.action)
  BY WriteWork
<1>4. phase # "recovering" BY <1>0, <1>1 DEF CommandsFit
<1>5. Orderly(todo, Current, cause.action) BY <1>0, <1>1 DEF HandlerFits
<1>6. \A a \in ActionId : InWork(a)' => InWork(a) \/ (w.op = "Enqueue" /\ a = w.action)
  <2>1. \A a \in ActionId : Answered(a)' <=> Answered(a) BY <1>1 DEF Answered
  <2>2. CASE w.op # "Enqueue" BY <1>1, <1>3, <2>1, <2>2 DEF InWork, Queued
  <2>3. CASE w.op = "Enqueue"
    <3>1. \A a \in ActionId : Queued(a)' <=> (Queued(a) \/ a = w.action)
      BY <1>0, <1>3, <2>3, EnqueueEffect
    <3>2. QED BY <1>1, <2>1, <2>3, <3>1 DEF InWork
  <2>4. QED BY <2>2, <2>3
<1>7. store \in [Runs -> Sessions] /\ \A a \in ActionId : RunOf(a) \in Runs
  BY <1>0, WriteTypes DEF TypeOK
<1>8. \A a \in ActionId : InWork(a) =>
         /\ store'[RunOf(a)] \in {Failed, Waiting(a)}
         /\ faults = 0 => store'[RunOf(a)] = Waiting(a)
  <2>1. SUFFICES ASSUME NEW a \in ActionId, InWork(a)
                 PROVE  /\ store'[RunOf(a)] \in {Failed, Waiting(a)}
                        /\ faults = 0 => store'[RunOf(a)] = Waiting(a)
    OBVIOUS
  <2>2. CASE w.op = "SaveRun" /\ RunOf(a) = Current
    <3>1. Working(Current) BY <2>1, <2>2 DEF Working
    <3>2. w.session = Failed /\ faults # 0 BY <1>0, <1>1, <2>2, <3>1 DEF WorkFits
    <3>3. QED BY <1>1, <1>2, <1>7, <2>2, <3>2
  <2>3. CASE w.op # "SaveRun" \/ RunOf(a) # Current
    <3>1. store'[RunOf(a)] = store[RunOf(a)] BY <1>1, <1>2, <1>7, <2>3
    <3>2. QED BY <1>0, <2>1, <3>1 DEF WorkFits
  <2>4. QED BY <2>2, <2>3
<1>9. w.op = "Enqueue" =>
         /\ store' = store /\ store[RunOf(w.action)] = Waiting(w.action)
         /\ w.action # cause.action
  BY <1>0, <1>2, <1>3 DEF WorkFits
<1>10. \A a \in ActionId : InWork(a)' =>
         /\ store'[RunOf(a)] \in {Failed, Waiting(a)}
         /\ faults' = 0 => store'[RunOf(a)] = Waiting(a)
         /\ phase' = "recovering" => RunOf(a) \notin unrecovered'
         /\ cause'.kind \in {"Completed", "Failed"} => a # cause'.action
  <2>1. cause' = cause \/ cause'.kind = "Idle" BY <1>1 DEF Idle
  <2>2. \A a \in ActionId : InWork(a) =>
           (cause.kind \in {"Completed", "Failed"} => a # cause.action)
    BY <1>0 DEF WorkFits
  <2>3. QED BY <1>1, <1>4, <1>6, <1>8, <1>9, <2>1, <2>2
<1>11. \A a \in ActionId : Due(a)' => Due(a) /\ todo' # <<>> /\ w.op # "Enqueue"
  <2>1. SUFFICES ASSUME NEW a \in ActionId, NEW i \in 1 .. Len(todo'), todo'[i] = Enqueue(a)
                 PROVE  Due(a) /\ todo' # <<>> /\ w.op # "Enqueue"
    BY DEF Due, Todo
  <2>2. i + 1 \in Todo /\ todo[i + 1] = Enqueue(a) /\ 1 < i + 1 BY <1>1, <2>1
  <2>3. todo[i + 1].op = "Enqueue" BY <2>2 DEF Enqueue
  <2>4. \A j, k \in Todo : j < k => ~(todo[j].op = "Enqueue" /\ todo[k].op = "Enqueue")
    BY <1>5 DEF Orderly, Todo
  <2>5. w.op # "Enqueue" BY <1>1, <2>2, <2>3, <2>4
  <2>6. todo' # <<>> BY <2>1, EmptySeq
  <2>7. QED BY <2>2, <2>5, <2>6 DEF Due
<1>12. \A r : w.op # "Enqueue" => (Working(r)' => Working(r)) BY <1>6 DEF Working
<1>13. \A a \in ActionId : Due(a)' => ~Working(RunOf(a))' /\ a # cause'.action
  BY <1>0, <1>1, <1>11, <1>12 DEF WorkFits
<1>14. ASSUME NEW i \in Todo', todo'[i].op = "SaveRun", todo'[i].session # Failed \/ faults' = 0
       PROVE  ~Working(Current)'
  <2>1. i \in 1 .. Len(todo') BY <1>14 DEF Todo
  <2>2. i + 1 \in Todo /\ todo[i + 1].op = "SaveRun" /\ todo[i + 1] = todo'[i] /\ i + 1 # 1
    BY <1>1, <1>14, <2>1
  <2>3. todo[i + 1].session = Failed BY <1>5, <2>2 DEF Orderly, Todo
  <2>4. faults = 0 /\ ~Working(Current) BY <1>0, <1>1, <1>14, <2>2, <2>3 DEF WorkFits
  <2>5. w.op # "Enqueue"
    <3>1. SUFFICES ASSUME w.op = "Enqueue" PROVE FALSE OBVIOUS
    <3>2. HasTarget(w) /\ Target(w) = Waiting(w.action) BY <3>1 DEF HasTarget, Target
    <3>3. HasTarget(todo[i + 1]) /\ Target(todo[i + 1]) = Failed
      BY <2>2, <2>3 DEF HasTarget, Target
    <3>4. \A j, k \in Todo : HasTarget(todo[j]) /\ HasTarget(todo[k]) =>
             Target(todo[j]) = Target(todo[k])
      BY <1>5 DEF Orderly, Todo
    <3>5. Waiting(w.action) = Failed BY <1>1, <2>2, <3>2, <3>3, <3>4
    <3>6. QED BY <1>3, <3>1, <3>5, SessionFields
  <2>6. todo' # <<>> BY <2>1, EmptySeq
  <2>7. Current' = Current BY <1>1, <2>6 DEF Current
  <2>8. ~Working(Current)'
    <3>1. Working(Current)' => \E a \in ActionId : RunOf(a) = Current' /\ InWork(a)'
      BY DEF Working
    <3>2. QED BY <1>6, <2>4, <2>5, <2>7, <3>1 DEF Working
  <2>9. QED BY <2>8
<1>15. QED BY <1>10, <1>13, <1>14 DEF WorkFits

LEMMA FailureWorkFits ==
    ASSUME EngineInv, WriteFails
    PROVE  WorkFits'
<1>0. TypeOK /\ WorkFits BY DEF EngineInv
<1>1. /\ faults' > 0
      /\ \/ /\ cause' = cause
            /\ Handler(todo', Current, cause.action, NoAction) /\ ~Resumes(todo')
         \/ cause' = Idle /\ todo' = <<>>
  BY <1>0, FailureBegins DEF Current
<1>2. UNCHANGED <<store, phase, unrecovered, worker>> BY DEF WriteFails
<1>3. \A a \in ActionId : InWork(a)' <=> InWork(a) BY <1>2, WorkKept
<1>4. \A a \in ActionId : ~Due(a)'
  <2>1. SUFFICES ASSUME NEW a \in ActionId, NEW i \in 1 .. Len(todo'), todo'[i] = Enqueue(a)
                 PROVE  FALSE
    BY DEF Due, Todo
  <2>2. todo' # <<>> BY <2>1, EmptySeq
  <2>3. todo'[i].op = "Enqueue" /\ todo'[i].action = a BY <2>1 DEF Enqueue
  <2>4. a = NoAction BY <1>1, <2>1, <2>2, <2>3 DEF Handler
  <2>5. QED BY <2>4, WriteTypes
<1>5. \A i \in Todo' : todo'[i].op = "SaveRun" => todo'[i].session = Failed /\ faults' # 0
  <2>1. SUFFICES ASSUME NEW i \in 1 .. Len(todo'), todo'[i].op = "SaveRun"
                 PROVE  todo'[i].session = Failed /\ faults' # 0
    BY DEF Todo
  <2>2. todo' # <<>> BY <2>1, EmptySeq
  <2>3. QED BY <1>1, <2>1, <2>2 DEF Resumes
<1>6. \A a \in ActionId : InWork(a)' =>
         /\ store'[RunOf(a)] \in {Failed, Waiting(a)}
         /\ faults' = 0 => store'[RunOf(a)] = Waiting(a)
         /\ phase' = "recovering" => RunOf(a) \notin unrecovered'
         /\ cause'.kind \in {"Completed", "Failed"} => a # cause'.action
  BY <1>0, <1>1, <1>2, <1>3 DEF WorkFits, Idle
<1>7. QED BY <1>4, <1>5, <1>6 DEF WorkFits

LEMMA RecoverWorkFits ==
    ASSUME EngineInv, NEW r \in Runs, RecoverRun(r)
    PROVE  WorkFits'
<1>0. TypeOK /\ WorkFits BY DEF EngineInv
<1>1. /\ UNCHANGED <<store, faults, todo, cause, executing, updates>>
      /\ unrecovered' = unrecovered \ {r} /\ phase = "recovering"
  BY DEF RecoverRun, durable, bounds
<1>2. CASE actionQueue' = actionQueue
  <2>1. \A a \in ActionId : InWork(a)' => InWork(a) BY <1>1, <1>2, WorkKept DEF worker
  <2>2. QED BY <1>0, <1>1, <2>1, WorkFitsKept
<1>3. CASE actionQueue' # actionQueue
  <2>1. PICK b \in ActionId :
                /\ actionQueue' = Append(actionQueue, b) /\ RunOf(b) = r
                /\ store[r] = Waiting(b)
    BY <1>3, RecoverWork
  <2>2. \A a \in ActionId : InWork(a)' => InWork(a) \/ a = b
    <3>1. \A a \in ActionId : Queued(a)' <=> (Queued(a) \/ a = b)
      BY <1>0, <2>1, EnqueueEffect
    <3>2. \A a \in ActionId : Answered(a)' <=> Answered(a) BY <1>1 DEF Answered
    <3>3. QED BY <1>1, <3>1, <3>2 DEF InWork
  <2>3. cause = Idle /\ todo = <<>> BY <1>1 DEF EngineInv, CommandsFit, TypeOK
  <2>4. Len(todo') = 0 /\ cause'.kind = "Idle" BY <1>1, <2>3, EmptySeq DEF Idle
  <2>5. \A a \in ActionId : InWork(a)' =>
         /\ store'[RunOf(a)] \in {Failed, Waiting(a)}
         /\ faults' = 0 => store'[RunOf(a)] = Waiting(a)
         /\ phase' = "recovering" => RunOf(a) \notin unrecovered'
         /\ cause'.kind \in {"Completed", "Failed"} => a # cause'.action
    BY <1>0, <1>1, <2>1, <2>2, <2>4 DEF WorkFits
  <2>6. QED BY <2>4, <2>5 DEF WorkFits, Due, Todo
<1>4. QED BY <1>2, <1>3

LEMMA WorkStep ==
    ASSUME EngineInv, [Next]_vars
    PROVE  WorkFits'
<1>0. WorkFits BY DEF EngineInv
<1>1. ASSUME UNCHANGED <<store, faults, todo, cause, unrecovered>>,
             \A a \in ActionId : InWork(a)' => InWork(a),
             phase' = "recovering" => phase = "recovering"
      PROVE  WorkFits'
  BY <1>0, <1>1, WorkFitsKept
<1>2. CASE \E r \in Runs : Submit(r)
  BY <1>1, <1>2, WorkKept DEF Submit, durable, bounds
<1>3. CASE HandleSubmit BY <1>3, SubmitWorkFits
<1>4. CASE HandleUpdate BY <1>4, UpdateWorkFits
<1>5. CASE Write BY <1>5, WriteWorkFits
<1>6. CASE WriteFails BY <1>6, FailureWorkFits
<1>7. CASE Claim \/ Execute
  <2>1. \A a \in ActionId : InWork(a)' => InWork(a) BY <1>7, InWorkEffect
  <2>2. QED BY <1>1, <1>7, <2>1 DEF Claim, Execute, durable, engine, bounds
<1>8. CASE Restart
  <2>1. /\ actionQueue' = <<>> /\ updates' = <<>> /\ executing' = NoAction /\ todo' = <<>>
    BY <1>8 DEF Restart
  <2>2. Len(actionQueue') = 0 /\ Len(updates') = 0 /\ Len(todo') = 0 BY <2>1, EmptySeq
  <2>3. \A a \in ActionId : ~InWork(a)'
    BY <2>1, <2>2, WriteTypes DEF InWork, Queued, Answered
  <2>4. QED BY <2>2, <2>3 DEF WorkFits, Due, Todo
<1>9. CASE \E r \in Runs : RecoverRun(r) BY <1>9, RecoverWorkFits
<1>10. CASE Recovered BY <1>1, <1>10, WorkKept DEF Recovered, durable, bounds
<1>11. CASE UNCHANGED vars
  BY <1>1, <1>11, WorkKept DEF vars, durable, bounds, engine
<1>12. QED
  BY <1>2, <1>3, <1>4, <1>5, <1>6, <1>7, <1>8, <1>9, <1>10, <1>11
     DEF Next, EngineStep, Recover

(***************************************************************************)
(* The ids fit                                                             *)
(***************************************************************************)
LEMMA IdsFitKept ==
    ASSUME IdsFit, \A a \in ActionId : InWork(a)' => InWork(a),
           UNCHANGED <<store, records, issued, todo>>, cause' \in {cause, Idle}
    PROVE  IdsFit'
<1>1. \A a : Within(issued', a) <=> Within(issued, a) BY DEF Within
<1>2. \A a \in ActionId : Due(a)' <=> Due(a) BY DEF Due, Todo
<1>3. \A a \in ActionId : cause'.action = a => cause.action = a BY WriteTypes DEF Idle
<1>4. QED BY <1>1, <1>2, <1>3 DEF IdsFit, Todo

(* A handler that begins uses the action it is about and the one it issues. *)
LEMMA IdsFitBegun ==
    ASSUME TypeOK, IdsFit, \A a \in ActionId : InWork(a)' => InWork(a),
           store' = store,
           \A q \in Runs : IsWaiting(store[q]) => records'[store[q].action] # "Completed",
           \A a \in ActionId : ~Within(issued, a) => records'[a] = "Absent",
           NEW r \in Runs, NEW x, Issues(r, x), NEW c, c \in ActionId => Within(issued, c),
           Handler(todo', r, c, x), cause'.action = c
    PROVE  IdsFit'
<1>1. x \in ActionId \cup {NoAction} /\ issued' \in [Runs -> 0 .. MaxCalls]
  BY IssuesType
<1>2. issued \in [Runs -> 0 .. MaxCalls] BY DEF TypeOK
<1>3. /\ \A q \in Runs : issued[q] <= issued'[q] /\ issued[q] \in Nat /\ issued'[q] \in Nat
      /\ x # NoAction => x = <<r, issued[r] + 1>> /\ issued'[r] = issued[r] + 1
  BY <1>2, EngineAssumption DEF Issues, NextAction, Suspends
<1>4. \A a \in ActionId : a[2] \in Nat /\ RunOf(a) \in Runs
  BY EngineAssumption DEF ActionId, RunOf
<1>5. \A a \in ActionId : Within(issued, a) => Within(issued', a)
  BY <1>3, <1>4 DEF Within
<1>6. x # NoAction => Within(issued', x) /\ ~Within(issued, x) /\ x \in ActionId
  BY <1>1, <1>3, <1>4 DEF Within, RunOf
<1>7. todo' \in Seq(Writes) /\ \A i \in 1 .. Len(todo') : todo'[i] \in Writes
  BY ElementOfSeq DEF Handler
<1>8. \A q \in Runs : IsWaiting(store[q]) => store[q].action \in ActionId
  BY SessionFields DEF TypeOK
<1>9. \A q \in Runs : IsWaiting(store'[q]) =>
          /\ RunOf(store'[q].action) = q /\ Within(issued', store'[q].action)
          /\ records'[store'[q].action] # "Completed"
  BY <1>5, <1>8 DEF IdsFit
<1>10. \A a \in ActionId : Due(a)' => a = x
  BY DEF Due, Todo, Handler, Enqueue
<1>11. \A a \in ActionId : InWork(a)' \/ Due(a)' \/ cause'.action = a => Within(issued', a)
  BY <1>5, <1>6, <1>10, WriteTypes DEF IdsFit
<1>12. \A i \in Todo' : todo'[i].op = "SaveAction" => Within(issued', todo'[i].action)
  <2>1. SUFFICES ASSUME NEW i \in 1 .. Len(todo'), todo'[i].op = "SaveAction"
                 PROVE  Within(issued', todo'[i].action)
    BY DEF Todo
  <2>2. todo'[i].action \in {c, x} /\ todo'[i].action \in ActionId
    BY <1>7, <2>1, WriteFields DEF Handler
  <2>3. QED BY <1>5, <1>6, <2>2, WriteTypes
<1>13. \A a \in ActionId : ~Within(issued', a) => records'[a] = "Absent" BY <1>5
<1>14. \A i \in Todo' : todo'[i].op = "SaveRun" /\ IsWaiting(todo'[i].session) =>
          records'[todo'[i].session.action] # "Completed"
  <2>1. SUFFICES ASSUME NEW i \in 1 .. Len(todo'), todo'[i].op = "SaveRun",
                        IsWaiting(todo'[i].session)
                 PROVE  records'[todo'[i].session.action] # "Completed"
    BY DEF Todo
  <2>2. todo'[i].session \in {Failed, SessionAfter(x)} BY <2>1 DEF Handler
  <2>3. x # NoAction /\ todo'[i].session.action = x
    BY <1>1, <2>1, <2>2, SessionFields DEF SessionAfter
  <2>4. records'[x] = "Absent" BY <1>6, <2>3
  <2>5. QED BY <2>3, <2>4
<1>15. QED BY <1>9, <1>11, <1>12, <1>13, <1>14 DEF IdsFit

(* The write that comes next, of a handler that is cut off. *)
LEMMA NextWrite ==
    ASSUME EngineInv, todo # <<>>
    PROVE  LET w == todo[1]
           IN  /\ Head(todo) = w /\ w \in Writes /\ 1 \in Todo /\ Current \in Runs
               /\ Orderly(todo, Current, cause.action)
               /\ w.op = "Publish" => w.run = Current /\ w.event \in Events
               /\ w.op = "SaveAction" => w.action \in ActionId /\ RunOf(w.action) = Current
<1> DEFINE w == todo[1]
<1>0. TypeOK /\ HandlerFits BY DEF EngineInv
<1>1. Head(todo) = w /\ w \in Writes /\ 1 \in Todo
  <2>1. todo \in Seq(Writes) BY <1>0 DEF TypeOK
  <2>2. Head(todo) = w /\ w \in Writes /\ Len(todo) \in Nat \ {0} BY <2>1, TailElements
  <2>3. QED BY <2>2 DEF Todo
<1>2. Current \in Runs
  <2>1. cause \in Updates \cup {Submission(q) : q \in Runs} \cup {Idle} /\ cause # Idle
    BY <1>0 DEF TypeOK
  <2>2. QED BY <2>1, CauseFields DEF Current
<1>3. Orderly(todo, Current, cause.action) BY <1>0 DEF HandlerFits
<1>4. WriteRun(w) = Current BY <1>1, <1>3 DEF Orderly, Todo
<1>5. /\ w.op = "Publish" => w.run = Current /\ w.event \in Events
      /\ w.op = "SaveAction" => w.action \in ActionId /\ RunOf(w.action) = Current
  BY <1>1, <1>4, WriteFields DEF WriteRun
<1>6. QED BY <1>1, <1>2, <1>3, <1>5

(* A write that is cut off may change the record of an action that was       *)
(* issued, and completes none that a run waits for.                          *)
LEMMA CutOffRecords ==
    ASSUME EngineInv, todo # <<>>, CutOff(Head(todo))
    PROVE  /\ \A q \in Runs : IsWaiting(store[q]) => records'[store[q].action] # "Completed"
           /\ \A a \in ActionId : ~Within(issued, a) => records'[a] = "Absent"
<1> DEFINE w == todo[1]
<1>0. TypeOK /\ HandlerFits /\ IdsFit BY DEF EngineInv
<1>1. /\ w \in Writes /\ 1 \in Todo /\ Current \in Runs /\ Head(todo) = w
      /\ Orderly(todo, Current, cause.action)
      /\ w.op = "SaveAction" => w.action \in ActionId /\ RunOf(w.action) = Current
  BY NextWrite
<1>2. \/ records' = records
      \/ w.op = "SaveAction" /\ records' = [records EXCEPT ![w.action] = w.state]
  BY <1>1 DEF CutOff, FirstFile
<1>3. CASE records' = records BY <1>0, <1>3 DEF IdsFit
<1>4. CASE w.op = "SaveAction" /\ records' = [records EXCEPT ![w.action] = w.state]
  <2>1. /\ records \in [ActionId -> {"Absent", "Pending", "Completed", "Failed"}]
        /\ store \in [Runs -> Sessions]
    BY <1>0 DEF TypeOK
  <2>2. \A a \in ActionId : records'[a] = IF a = w.action THEN w.state ELSE records[a]
    BY <1>1, <1>4, <2>1
  <2>3. Within(issued, w.action) BY <1>0, <1>1, <1>4 DEF IdsFit
  <2>4. w.state = "Completed" =>
           w.action = cause.action /\ store[Current] # Waiting(cause.action)
    BY <1>0, <1>1, <1>4 DEF HandlerFits, Orderly, Todo
  <2>5. ASSUME NEW q \in Runs, IsWaiting(store[q])
        PROVE  records'[store[q].action] # "Completed"
    <3>1. /\ store[q].action \in ActionId /\ store[q] = Waiting(store[q].action)
          /\ RunOf(store[q].action) = q /\ records[store[q].action] # "Completed"
      BY <1>0, <2>1, <2>5, SessionFields DEF IdsFit
    <3>2. CASE store[q].action = w.action BY <1>1, <1>4, <2>2, <2>4, <3>1, <3>2
    <3>3. CASE store[q].action # w.action BY <2>2, <3>1, <3>3
    <3>4. QED BY <3>2, <3>3
  <2>6. \A a \in ActionId : ~Within(issued, a) => records'[a] = "Absent"
    BY <1>0, <2>2, <2>3 DEF IdsFit
  <2>7. QED BY <2>5, <2>6
<1>5. QED BY <1>2, <1>3, <1>4

LEMMA WriteIdsFit ==
    ASSUME EngineInv, Write
    PROVE  IdsFit'
<1>0. TypeOK /\ HandlerFits /\ IdsFit BY DEF EngineInv
<1> DEFINE w == todo[1]
<1>1. /\ todo # <<>> /\ todo \in Seq(Writes) /\ cause # Idle /\ Current \in Runs /\ 1 \in Todo
      /\ w \in Writes /\ Perform(w)
      /\ \A i \in 1 .. Len(todo') : i + 1 \in Todo /\ todo'[i] = todo[i + 1]
      /\ cause' \in {cause, Idle} /\ UNCHANGED <<issued, executing, updates>>
  BY <1>0, WriteEffect
<1>2. /\ w.op = "SaveRun" => w.session \in Sessions
      /\ store' = IF w.op = "SaveRun" THEN [store EXCEPT ![Current] = w.session] ELSE store
      /\ w.op = "SaveAction" => w.action \in ActionId /\ RunOf(w.action) = Current
  BY <1>0, WriteFocus
<1>3. records' = IF w.op = "SaveAction" THEN [records EXCEPT ![w.action] = w.state] ELSE records
  BY <1>1 DEF Perform, FirstFile
<1>4. Orderly(todo, Current, cause.action) BY <1>0, <1>1 DEF HandlerFits
<1>5. store \in [Runs -> Sessions] /\ \A a \in ActionId : RunOf(a) \in Runs
      /\ records \in [ActionId -> {"Absent", "Pending", "Completed", "Failed"}]
  BY <1>0, WriteTypes DEF TypeOK
<1>6. \A a : Within(issued', a) <=> Within(issued, a) BY <1>1 DEF Within
<1>7. \A a \in ActionId : InWork(a)' \/ Due(a)' => InWork(a) \/ Due(a)
  <2>1. \A a \in ActionId : Due(a)' => Due(a) BY <1>1 DEF Due, Todo
  <2>2. \A a \in ActionId : InWork(a)' => InWork(a) \/ Due(a)
    <3>1. \A a \in ActionId : Answered(a)' <=> Answered(a) BY <1>1 DEF Answered
    <3>2. CASE w.op # "Enqueue" BY <1>1, <3>1, <3>2, WriteWork DEF InWork, Queued
    <3>3. CASE w.op = "Enqueue"
      <4>1. actionQueue' = Append(actionQueue, w.action) /\ w.action \in ActionId /\ Due(w.action)
        BY <3>3, WriteWork
      <4>2. \A a \in ActionId : Queued(a)' <=> (Queued(a) \/ a = w.action)
        BY <1>0, <4>1, EnqueueEffect
      <4>3. QED BY <1>1, <3>1, <4>1, <4>2 DEF InWork
    <3>4. QED BY <3>2, <3>3
  <2>3. QED BY <2>1, <2>2
<1>8. \A a \in ActionId : InWork(a)' \/ Due(a)' \/ cause'.action = a => Within(issued', a)
  BY <1>0, <1>1, <1>6, <1>7, WriteTypes DEF IdsFit, Idle
<1>9. \A i \in Todo' : todo'[i].op = "SaveAction" => Within(issued', todo'[i].action)
  BY <1>0, <1>1, <1>6 DEF IdsFit, Todo
<1>10. \A a \in ActionId : ~Within(issued', a) => records'[a] = "Absent"
  BY <1>0, <1>1, <1>2, <1>3, <1>5, <1>6 DEF IdsFit
<1>11. \A i \in Todo' : todo'[i].op = "SaveRun" => ~IsWaiting(todo'[i].session)
  <2>1. SUFFICES ASSUME NEW i \in 1 .. Len(todo'), todo'[i].op = "SaveRun"
                 PROVE  ~IsWaiting(todo'[i].session)
    BY DEF Todo
  <2>2. i + 1 \in Todo /\ todo[i + 1].op = "SaveRun" /\ i + 1 # 1 /\ todo[i + 1] = todo'[i]
    BY <1>1, <2>1
  <2>3. todo[i + 1].session = Failed BY <1>4, <2>2 DEF Orderly, Todo
  <2>4. QED BY <2>2, <2>3, SessionFields
<1>12. \A q \in Runs : IsWaiting(store'[q]) =>
          /\ RunOf(store'[q].action) = q /\ Within(issued, store'[q].action)
          /\ records'[store'[q].action] # "Completed"
  <2>1. SUFFICES ASSUME NEW q \in Runs, IsWaiting(store'[q])
                 PROVE  /\ RunOf(store'[q].action) = q /\ Within(issued, store'[q].action)
                        /\ records'[store'[q].action] # "Completed"
    OBVIOUS
  <2>2. CASE w.op = "SaveRun" /\ q = Current
    <3>1. store'[q] = w.session /\ IsWaiting(w.session) /\ records' = records
      BY <1>2, <1>3, <1>5, <2>1, <2>2
    <3>2. PICK j \in Todo : todo[j] = Enqueue(w.session.action)
      <4>1. \A k \in Todo : todo[k].op = "SaveRun" /\ IsWaiting(todo[k].session) =>
               \E j \in Todo : todo[j] = Enqueue(todo[k].session.action)
        BY <1>4 DEF Orderly, Todo
      <4>2. QED BY <1>1, <2>2, <3>1, <4>1
    <3>3. todo[j].op = "Enqueue" /\ todo[j].action = w.session.action BY <3>2 DEF Enqueue
    <3>4. WriteRun(todo[j]) = Current BY <1>4 DEF Orderly, Todo
    <3>5. RunOf(w.session.action) = q BY <2>2, <3>3, <3>4 DEF WriteRun
    <3>6. w.session.action \in ActionId BY <1>2, <2>2, <3>1, SessionFields
    <3>7. Within(issued, w.session.action) BY <1>0, <3>2, <3>6 DEF IdsFit, Due
    <3>8. records[w.session.action] # "Completed" BY <1>0, <1>1, <2>2, <3>1 DEF IdsFit
    <3>9. QED BY <3>1, <3>5, <3>7, <3>8
  <2>3. CASE w.op # "SaveRun" \/ q # Current
    <3>1. store'[q] = store[q] /\ IsWaiting(store[q]) BY <1>1, <1>2, <1>5, <2>1, <2>3
    <3>2. /\ RunOf(store[q].action) = q /\ Within(issued, store[q].action)
          /\ records[store[q].action] # "Completed"
      BY <1>0, <3>1 DEF IdsFit
    <3>3. store[q].action \in ActionId /\ store[q] = Waiting(store[q].action)
      BY <1>5, <3>1, SessionFields
    <3>4. records'[store[q].action] # "Completed"
      <4>1. CASE w.op # "SaveAction" BY <1>3, <3>2, <4>1
      <4>2. CASE w.op = "SaveAction" /\ w.action # store[q].action
        BY <1>2, <1>3, <1>5, <3>2, <3>3, <4>2
      <4>3. CASE w.op = "SaveAction" /\ w.action = store[q].action
        <5>1. q = Current BY <1>2, <3>2, <4>3
        <5>2. records'[store[q].action] = w.state BY <1>2, <1>3, <1>5, <3>3, <4>3
        <5>3. w.state = "Completed" =>
                 w.action = cause.action /\ store[Current] # Waiting(cause.action)
          BY <1>0, <1>1, <1>4, <4>3 DEF HandlerFits, Orderly, Todo
        <5>4. QED BY <3>3, <4>3, <5>1, <5>2, <5>3
      <4>4. QED BY <4>1, <4>2, <4>3
    <3>5. QED BY <3>1, <3>2, <3>4
  <2>4. QED BY <2>2, <2>3
<1>13. QED BY <1>6, <1>8, <1>9, <1>10, <1>11, <1>12 DEF IdsFit

LEMMA IdsStep ==
    ASSUME EngineInv, [Next]_vars
    PROVE  IdsFit'
<1>0. TypeOK /\ IdsFit /\ OneByRun /\ ClaimsAnswered BY DEF EngineInv
<1>1. ASSUME UNCHANGED <<store, records, issued, todo, cause>>,
             \A a \in ActionId : InWork(a)' => InWork(a)
      PROVE  IdsFit'
  BY <1>0, <1>1, IdsFitKept
<1>2. CASE \E r \in Runs : Submit(r) BY <1>1, <1>2, WorkKept DEF Submit, durable
<1>3. CASE HandleSubmit
  <2>1. PICK r \in Runs :
                /\ cause' = Submission(r)
                /\ \E x \in ActionId \cup {NoAction} :
                      Issues(r, x) /\ Handler(todo', r, <<r, 0>>, x)
    BY <1>0, <1>3, SubmitBegins
  <2>2. PICK x \in ActionId \cup {NoAction} : Issues(r, x) /\ Handler(todo', r, <<r, 0>>, x)
    BY <2>1
  <2>3. cause'.action = <<r, 0>> /\ <<r, 0>> \notin ActionId
    BY <2>1 DEF Submission, ActionId
  <2>4. UNCHANGED <<store, records, worker>> BY <1>3 DEF HandleSubmit, Begin
  <2>5. \A a \in ActionId : InWork(a)' => InWork(a) BY <2>4, WorkKept
  <2>6. /\ \A q \in Runs : IsWaiting(store[q]) => records'[store[q].action] # "Completed"
        /\ \A a \in ActionId : ~Within(issued, a) => records'[a] = "Absent"
    BY <1>0, <2>4 DEF IdsFit
  <2>7. QED BY <1>0, <2>2, <2>3, <2>4, <2>5, <2>6, IdsFitBegun
<1>4. CASE HandleUpdate
  <2>1. PICK u \in Updates : u = Head(updates) BY <1>0, <1>4, UpdateBegins
  <2>2. /\ u.action \in ActionId /\ RunOf(u.action) \in Runs /\ cause' = u
        /\ \E x \in ActionId \cup {NoAction} :
              Issues(RunOf(u.action), x) /\ Handler(todo', RunOf(u.action), u.action, x)
    BY <1>0, <1>4, <2>1, UpdateBegins
  <2>3. PICK x \in ActionId \cup {NoAction} :
              Issues(RunOf(u.action), x) /\ Handler(todo', RunOf(u.action), u.action, x)
    BY <2>2
  <2>4. InWork(u.action) /\ UNCHANGED <<store, records>> BY <1>0, <1>4, <2>1, UpdateEffect
  <2>5. Within(issued, u.action) BY <1>0, <2>2, <2>4 DEF IdsFit
  <2>6. \A a \in ActionId : InWork(a)' => InWork(a) BY <1>4, InWorkEffect
  <2>7. /\ \A q \in Runs : IsWaiting(store[q]) => records'[store[q].action] # "Completed"
        /\ \A a \in ActionId : ~Within(issued, a) => records'[a] = "Absent"
    BY <1>0, <2>4 DEF IdsFit
  <2>8. QED BY <1>0, <2>2, <2>3, <2>4, <2>5, <2>6, <2>7, IdsFitBegun
<1>5. CASE Write BY <1>5, WriteIdsFit
<1>6. CASE WriteFails
  <2>1. UNCHANGED <<store, issued, worker>> BY <1>6 DEF WriteFails
  <2>2. \A a \in ActionId : InWork(a)' => InWork(a) BY <2>1, WorkKept
  <2>3. /\ RunOf(cause.action) \in Runs
        /\ \/ cause' = cause /\ Handler(todo', RunOf(cause.action), cause.action, NoAction)
           \/ cause' = Idle /\ todo' = <<>>
    BY <1>0, <1>6, FailureBegins
  <2>4. /\ \A q \in Runs : IsWaiting(store[q]) => records'[store[q].action] # "Completed"
        /\ \A a \in ActionId : ~Within(issued, a) => records'[a] = "Absent"
    BY <1>6, CutOffRecords DEF WriteFails
  <2>5. CASE cause' = cause /\ Handler(todo', RunOf(cause.action), cause.action, NoAction)
    <3>1. PICK r \in Runs : r = RunOf(cause.action) BY <2>3
    <3>6. PICK c : c = cause.action OBVIOUS
    <3>2. Issues(r, NoAction) BY <2>1 DEF Issues
    <3>3. c \in ActionId => Within(issued, c) BY <1>0, <3>6 DEF IdsFit
    <3>4. Handler(todo', r, c, NoAction) /\ cause'.action = c BY <2>5, <3>1, <3>6
    <3>5. QED BY <1>0, <2>1, <2>2, <2>4, <3>1, <3>2, <3>3, <3>4, IdsFitBegun
  <2>6. CASE cause' = Idle /\ todo' = <<>>
    <3>1. Len(todo') = 0 BY <2>6, EmptySeq
    <3>2. \A a \in ActionId : ~Due(a)' /\ cause'.action # a
      BY <2>6, <3>1, WriteTypes DEF Due, Todo, Idle
    <3>3. \A a : Within(issued', a) <=> Within(issued, a) BY <2>1 DEF Within
    <3>4. QED BY <1>0, <2>1, <2>2, <2>4, <3>1, <3>2, <3>3 DEF IdsFit, Todo
  <2>7. QED BY <2>3, <2>5, <2>6
<1>7. CASE Claim \/ Execute
  <2>1. \A a \in ActionId : InWork(a)' => InWork(a) BY <1>7, InWorkEffect
  <2>2. QED BY <1>1, <1>7, <2>1 DEF Claim, Execute, durable, engine
<1>8. CASE Restart
  <2>1. /\ actionQueue' = <<>> /\ updates' = <<>> /\ executing' = NoAction /\ todo' = <<>>
        /\ cause' = Idle /\ UNCHANGED <<store, issued>>
    BY <1>8 DEF Restart
  <2>2. Len(actionQueue') = 0 /\ Len(updates') = 0 /\ Len(todo') = 0 BY <2>1, EmptySeq
  <2>3. \A a \in ActionId : ~InWork(a)' /\ ~Due(a)' /\ cause'.action # a
    BY <2>1, <2>2, WriteTypes DEF InWork, Queued, Answered, Due, Todo, Idle
  <2>4. \A a : Within(issued', a) <=> Within(issued, a) BY <2>1 DEF Within
  <2>5. /\ \A q \in Runs : IsWaiting(store[q]) => records'[store[q].action] # "Completed"
        /\ \A a \in ActionId : ~Within(issued, a) => records'[a] = "Absent"
    <3>1. CASE todo # <<>> BY <1>8, <3>1, CutOffRecords DEF Restart
    <3>2. CASE todo = <<>> BY <1>0, <1>8, <3>2 DEF Restart, IdsFit
    <3>3. QED BY <3>1, <3>2
  <2>6. QED BY <1>0, <2>1, <2>2, <2>3, <2>4, <2>5 DEF IdsFit, Todo
<1>9. ASSUME NEW r \in Runs, RecoverRun(r) PROVE IdsFit'
  <2>1. UNCHANGED <<store, records, issued, todo, cause, executing, updates>>
    BY <1>9 DEF RecoverRun, durable
  <2>2. CASE actionQueue' = actionQueue BY <1>1, <2>1, <2>2, WorkKept DEF worker
  <2>3. CASE actionQueue' # actionQueue
    <3>1. PICK b \in ActionId :
                  actionQueue' = Append(actionQueue, b) /\ store[r] = Waiting(b)
      BY <1>9, <2>3, RecoverWork
    <3>2. Within(issued, b) BY <1>0, <3>1, SessionFields DEF IdsFit
    <3>3. \A a \in ActionId : InWork(a)' => InWork(a) \/ a = b
      <4>1. \A a \in ActionId : Queued(a)' <=> (Queued(a) \/ a = b)
        BY <1>0, <3>1, EnqueueEffect
      <4>2. \A a \in ActionId : Answered(a)' <=> Answered(a) BY <2>1 DEF Answered
      <4>3. QED BY <2>1, <4>1, <4>2 DEF InWork
    <3>4. \A a : Within(issued', a) <=> Within(issued, a) BY <2>1 DEF Within
    <3>5. \A a \in ActionId : Due(a)' <=> Due(a) BY <2>1 DEF Due, Todo
    <3>6. \A a \in ActionId : InWork(a)' \/ Due(a)' \/ cause'.action = a => Within(issued', a)
      BY <1>0, <2>1, <3>2, <3>3, <3>4, <3>5 DEF IdsFit
    <3>7. QED BY <1>0, <2>1, <3>4, <3>6 DEF IdsFit, Todo
  <2>4. QED BY <2>2, <2>3
<1>10. CASE Recovered BY <1>1, <1>10, WorkKept DEF Recovered, durable
<1>11. CASE UNCHANGED vars
  BY <1>1, <1>11, WorkKept DEF vars, durable, engine
<1>12. QED
  BY <1>2, <1>3, <1>4, <1>5, <1>6, <1>7, <1>8, <1>9, <1>10, <1>11
     DEF Next, EngineStep, Recover

LEMMA EngineInvStep == EngineInv /\ [Next]_vars => EngineInv'
<1>1. SUFFICES ASSUME EngineInv, [Next]_vars PROVE EngineInv' OBVIOUS
<1>2. TypeOK' BY <1>1, TypeStep DEF EngineInv
<1>3. QED
  BY <1>1, <1>2, HandlerStep, CommandsStep, OneStep, WorkStep, IdsStep DEF EngineInv

THEOREM EngineInvariant == Spec => []EngineInv
BY EngineInit, EngineInvStep, PTL DEF Spec

(***************************************************************************)
(* Actions in flight                                                       *)
(***************************************************************************)
LEMMA PlacesOf ==
    ASSUME EngineInv, NEW a \in ActionId, NEW x \in Places(a)
    PROVE  \/ Due(a) /\ \E i \in Todo : x = <<"todo", i>> /\ todo[i] = Enqueue(a)
           \/ Queued(a) /\ \E i \in 1 .. Len(actionQueue) :
                              x = <<"queue", i>> /\ actionQueue[i] = a
           \/ executing = a /\ x = <<"worker", 1>>
           \/ Answered(a) /\ \E i \in 1 .. Len(updates) :
                 x = <<"answer", i>> /\ IsAnswer(updates[i]) /\ updates[i].action = a
           \/ cause.kind \in {"Completed", "Failed"} /\ cause.action = a /\ x = <<"handled", 1>>
<1>1. \/ \E i \in 1 .. Len(todo) :
            x = <<"todo", i>> /\ todo[i].op = "Enqueue" /\ todo[i].action = a
      \/ \E i \in 1 .. Len(actionQueue) : x = <<"queue", i>> /\ actionQueue[i] = a
      \/ executing = a /\ x = <<"worker", 1>>
      \/ \E i \in 1 .. Len(updates) :
            x = <<"answer", i>> /\ updates[i].kind # "Claimed" /\ updates[i].action = a
      \/ cause.kind \in {"Completed", "Failed"} /\ cause.action = a /\ x = <<"handled", 1>>
  BY DEF Places
<1>2. todo \in Seq(Writes) BY DEF EngineInv, TypeOK
<1>3. \A i \in 1 .. Len(todo) :
         todo[i].op = "Enqueue" /\ todo[i].action = a => todo[i] = Enqueue(a)
  <2>1. ASSUME NEW i \in 1 .. Len(todo), todo[i].op = "Enqueue", todo[i].action = a
        PROVE  todo[i] = Enqueue(a)
    <3>1. todo[i] \in Writes BY <1>2, ElementOfSeq
    <3>2. QED
      BY <2>1, <3>1 DEF Writes, SaveRun, RecordStatus, SaveAction, Enqueue, Publish, Reply
  <2>2. QED BY <2>1
<1>4. QED BY <1>1, <1>3 DEF Due, Todo, Queued, Answered, IsAnswer

LEMMA OnlyPlace ==
    ASSUME EngineInv, NEW a \in ActionId, NEW x \in Places(a), NEW y \in Places(a)
    PROVE  x = y
<1>1. /\ a # NoAction
      /\ Due(a) => ~InWork(a) /\ cause.action # a
      /\ InWork(a) /\ cause.kind \in {"Completed", "Failed"} => cause.action # a
      /\ Queued(a) => executing # a /\ ~Answered(a)
      /\ Answered(a) => executing # a
  BY WriteTypes DEF EngineInv, WorkFits, Working, InWork, OneByRun
<1>2. Due(a) => \A i, j \in Todo : todo[i] = Enqueue(a) /\ todo[j] = Enqueue(a) => i = j
  <2>1. SUFFICES ASSUME NEW i \in Todo, NEW j \in Todo, todo[i] = Enqueue(a),
                        todo[j] = Enqueue(a), i < j
                 PROVE  FALSE
    BY DEF Todo
  <2>2. todo # <<>> BY EmptySeq DEF Todo
  <2>3. Orderly(todo, Current, cause.action) BY <2>2 DEF EngineInv, HandlerFits
  <2>4. ~(todo[i].op = "Enqueue" /\ todo[j].op = "Enqueue")
    BY <2>1, <2>3 DEF Orderly, Todo
  <2>5. QED BY <2>1, <2>4 DEF Enqueue
<1>3. \A i, j \in 1 .. Len(actionQueue) : actionQueue[i] = a /\ actionQueue[j] = a => i = j
  BY DEF EngineInv, OneByRun
<1>4. \A i, j \in 1 .. Len(updates) :
         (IsAnswer(updates[i]) /\ updates[i].action = a
            /\ IsAnswer(updates[j]) /\ updates[j].action = a) => i = j
  BY DEF EngineInv, OneByRun
<1>5. CASE Due(a) /\ \E i \in Todo : x = <<"todo", i>> /\ todo[i] = Enqueue(a)
  <2>1. ~Queued(a) /\ ~Answered(a) /\ executing # a /\ cause.action # a
    BY <1>1, <1>5 DEF InWork
  <2>2. \E i \in Todo : y = <<"todo", i>> /\ todo[i] = Enqueue(a) BY <2>1, PlacesOf
  <2>3. QED BY <1>2, <1>5, <2>2
<1>6. CASE Queued(a) /\ \E i \in 1 .. Len(actionQueue) :
                           x = <<"queue", i>> /\ actionQueue[i] = a
  <2>1. /\ ~Due(a) /\ ~Answered(a) /\ executing # a
        /\ ~(cause.kind \in {"Completed", "Failed"} /\ cause.action = a)
    BY <1>1, <1>6 DEF InWork
  <2>2. \E i \in 1 .. Len(actionQueue) : y = <<"queue", i>> /\ actionQueue[i] = a
    BY <2>1, PlacesOf
  <2>3. QED BY <1>3, <1>6, <2>2
<1>7. CASE executing = a /\ x = <<"worker", 1>>
  <2>1. /\ ~Due(a) /\ ~Answered(a) /\ ~Queued(a)
        /\ ~(cause.kind \in {"Completed", "Failed"} /\ cause.action = a)
    BY <1>1, <1>7 DEF InWork
  <2>2. y = <<"worker", 1>> BY <2>1, PlacesOf
  <2>3. QED BY <1>7, <2>2
<1>8. CASE Answered(a) /\ \E i \in 1 .. Len(updates) :
              x = <<"answer", i>> /\ IsAnswer(updates[i]) /\ updates[i].action = a
  <2>1. /\ ~Due(a) /\ ~Queued(a) /\ executing # a
        /\ ~(cause.kind \in {"Completed", "Failed"} /\ cause.action = a)
    BY <1>1, <1>8 DEF InWork
  <2>2. \E i \in 1 .. Len(updates) :
           y = <<"answer", i>> /\ IsAnswer(updates[i]) /\ updates[i].action = a
    BY <2>1, PlacesOf
  <2>3. QED BY <1>4, <1>8, <2>2
<1>9. CASE cause.kind \in {"Completed", "Failed"} /\ cause.action = a /\ x = <<"handled", 1>>
  <2>1. ~Due(a) /\ ~Queued(a) /\ ~Answered(a) /\ executing # a BY <1>1, <1>9 DEF InWork
  <2>2. y = <<"handled", 1>> BY <2>1, PlacesOf
  <2>3. QED BY <1>9, <2>2
<1>10. QED BY <1>5, <1>6, <1>7, <1>8, <1>9, PlacesOf

(* No action is in two places at once: recovery enqueues nothing that is     *)
(* still on its way, and no answer is handled while another is under way     *)
(* (engine.rs:294-317, 478-482).                                             *)
THEOREM NothingIsDoubled == Spec => []OnceInFlight
<1>1. EngineInv => OnceInFlight BY OnlyPlace DEF OnceInFlight
<1>2. QED BY <1>1, EngineInvariant, PTL

(* A run is resumed by the result of the action it waits for, though the     *)
(* code compares no ids (run_executor.rs:108-131).                           *)
THEOREM ResultsAreOwn == Spec => []ResumedByOwnAction
<1>1. ASSUME EngineInv PROVE ResumedByOwnAction
  <2>1. SUFFICES ASSUME NEW a \in ActionId, HasSnapshot(store[RunOf(a)]),
                        NEW x \in Places(a), x[1] \in {"queue", "worker", "answer"}
                 PROVE  store[RunOf(a)] = Waiting(a)
    BY DEF ResumedByOwnAction
  <2>2. InWork(a) BY <1>1, <2>1, PlacesOf DEF InWork
  <2>3. store[RunOf(a)] \in {Failed, Waiting(a)} BY <1>1, <2>2 DEF EngineInv, WorkFits
  <2>4. ~IsWaiting(Failed) BY SessionFields
  <2>5. QED BY <2>1, <2>3, <2>4 DEF HasSnapshot
<1>2. QED BY <1>1, EngineInvariant, PTL

(* The worker executes nothing in vain and nothing twice, unless a write has *)
(* failed: what it claims is what the run waits for, and was not completed   *)
(* before a restart (engine.rs:294-317, 472-482).                            *)
THEOREM ClaimsAreWanted == Spec => ClaimedIsWanted
<1> DEFINE Wanted == (executing' # executing /\ executing' # NoAction /\ faults = 0) =>
                        /\ store[RunOf(executing')] = Waiting(executing')
                        /\ records[executing'] # "Completed"
<1>1. ASSUME EngineInv, [Next]_vars PROVE Wanted
  <2>1. SUFFICES ASSUME executing' # executing, executing' # NoAction, faults = 0
                 PROVE  /\ store[RunOf(executing')] = Waiting(executing')
                        /\ records[executing'] # "Completed"
    OBVIOUS
  <2>2. Claim
    BY <1>1, <2>1 DEF Next, EngineStep, Submit, HandleSubmit, HandleUpdate, Write, Recover,
       Recovered, RecoverRun, WriteFails, Execute, Restart, vars, worker
  <2>3. executing' \in ActionId /\ Queued(executing') BY <1>1, <2>2, ClaimEffect DEF EngineInv
  <2>4. PICK h \in ActionId : h = executing' /\ Queued(h)
    <3>1. actionQueue # <<>> /\ executing' = Head(actionQueue) /\ actionQueue \in Seq(ActionId)
      BY <1>1, <2>2 DEF Claim, EngineInv, TypeOK
    <3>2. executing' = actionQueue[1] /\ 1 \in 1 .. Len(actionQueue) BY <3>1, TailElements
    <3>3. QED BY <2>3, <3>2 DEF Queued
  <2>5. store[RunOf(h)] = Waiting(h)
    BY <1>1, <2>1, <2>4 DEF EngineInv, WorkFits, InWork
  <2>6. records[h] # "Completed"
    <3>1. RunOf(h) \in Runs /\ IsWaiting(store[RunOf(h)]) /\ store[RunOf(h)].action = h
      BY <2>5, WriteTypes, SessionFields
    <3>2. QED BY <1>1, <3>1 DEF EngineInv, IdsFit
  <2>7. QED BY <2>4, <2>5, <2>6
<1>2. QED BY <1>1, EngineInvariant, PTL DEF Spec, ClaimedIsWanted

(* A run that is over is never resumed, whatever answers still arrive for it *)
(* (engine.rs:394-456, run_executor.rs:108-116, 150).                        *)
THEOREM EndsAreFinal == Spec => OverIsFinal
<1>1. ASSUME EngineInv, [Next]_vars, NEW r \in Runs, store[r] \in Terminal
      PROVE  store'[r] \in Terminal
  <2>1. CASE UNCHANGED store BY <1>1, <2>1
  <2>2. CASE Write
    <3>1. /\ todo[1].op = "SaveRun" => todo[1].session \in Sessions
          /\ store' = IF todo[1].op = "SaveRun" THEN [store EXCEPT ![Current] = todo[1].session]
                                                ELSE store
      BY <1>1, <2>2, WriteFocus DEF EngineInv
    <3>2. todo # <<>> /\ 1 \in 1 .. Len(todo) /\ Current \in Runs
      BY <1>1, <2>2, WriteEffect DEF EngineInv, Todo
    <3>3. (todo[1].op = "SaveRun" /\ todo[1].session # Failed) => store[Current] \notin Terminal
      BY <1>1, <3>2 DEF EngineInv, HandlerFits, Resumes
    <3>4. store \in [Runs -> Sessions] BY <1>1 DEF EngineInv, TypeOK
    <3>5. QED BY <1>1, <3>1, <3>2, <3>3, <3>4 DEF Terminal
  <2>3. CASE HandleUpdate BY <1>1, <2>1, <2>3, UpdateEffect DEF EngineInv
  <2>4. QED
    BY <1>1, <2>1, <2>2, <2>3 DEF Next, EngineStep, Submit, HandleSubmit, Recover, Begin,
       Recovered, RecoverRun, WriteFails, Claim, Execute, Restart, vars, durable
<1>2. ASSUME EngineInv, [Next]_vars
      PROVE  \A r \in Runs : store[r] \in Terminal => store'[r] \in Terminal
  BY <1>1, <1>2
<1>3. QED BY <1>2, EngineInvariant, PTL DEF Spec, OverIsFinal

(***************************************************************************)
(* The log and the store                                                   *)
(***************************************************************************)

(* No write is left that can fail and is about this run. *)
Secured(r) == todo # <<>> /\ Current = r => \A i \in Todo : ~CanFail(todo[i])

(* Nothing is told of an unknown run; a run whose end was told is over in    *)
(* the store, and once it completed no write is left that can fail; a run    *)
(* whose end is in the log is over too, in the same way unless it completed  *)
(* and a write failed.                                                       *)
EndFits(r) ==
    /\ store[r] = Unknown => feed[r] = <<>>
    /\ Notified(r, {"RunCompleted"}) => store[r] = Completed /\ Secured(r)
    /\ Notified(r, {"RunFailed"}) => store[r] = Failed
    /\ "RunCompleted" \in log[r] =>
          store[r] \in Terminal /\ (faults = 0 => store[r] = Completed /\ Secured(r))
    /\ "RunFailed" \in log[r] => store[r] = Failed
LogFits == \A r \in Runs : EndFits(r)

(* The end that a write logs, cut off or not, is the end in the store. *)
LEMMA CutOffLog ==
    ASSUME EngineInv, todo # <<>>, CutOff(Head(todo))
    PROVE  \A q \in Runs :
              /\ "RunCompleted" \in log'[q] =>
                    \/ "RunCompleted" \in log[q]
                    \/ /\ store[q] = Completed /\ q = Current
                       /\ todo[1].op = "Publish" /\ todo[1].event.kind = "RunCompleted"
              /\ "RunFailed" \in log'[q] => "RunFailed" \in log[q] \/ store[q] = Failed
<1> DEFINE w == todo[1]
<1>1. /\ w \in Writes /\ 1 \in Todo /\ Current \in Runs /\ Head(todo) = w
      /\ w.op = "Publish" => w.run = Current /\ w.event \in Events
  BY NextWrite
<1>2. \/ log' = log
      \/ /\ w.op = "Publish"
         /\ log' = [log EXCEPT ![Current] = @ \cup ({w.event.kind} \cap TerminalEvents)]
  BY <1>1 DEF CutOff, FirstFile
<1>3. CASE log' = log BY <1>3
<1>4. CASE /\ w.op = "Publish"
           /\ log' = [log EXCEPT ![Current] = @ \cup ({w.event.kind} \cap TerminalEvents)]
  <2>1. log \in [Runs -> SUBSET TerminalEvents] BY DEF EngineInv, TypeOK
  <2>2. \A q \in Runs : \A k : k \in log'[q] =>
           k \in log[q] \/ (q = Current /\ k = w.event.kind)
    BY <1>1, <1>4, <2>1
  <2>3. w.event.kind \in TerminalEvents => store[Current] = Target(w)
    <3>1. SUFFICES ASSUME w.event.kind \in TerminalEvents PROVE store[Current] = Target(w)
      OBVIOUS
    <3>2. HasTarget(w) BY <1>4, <3>1 DEF HasTarget
    <3>3. \/ store[Current] = Target(w)
          \/ \E j \in 1 .. 1 : todo[j] = SaveRun(Current, Target(w))
      BY <1>1, <3>2 DEF EngineInv, HandlerFits
    <3>4. QED BY <1>4, <3>3 DEF SaveRun
  <2>4. /\ w.event.kind = "RunCompleted" => store[Current] = Completed
        /\ w.event.kind = "RunFailed" => store[Current] = Failed
    BY <1>4, <2>3 DEF Target, TerminalEvents
  <2>5. QED BY <1>4, <2>2, <2>4
<1>5. QED BY <1>2, <1>3, <1>4

LEMMA PublishEffect ==
    ASSUME TypeOK, NEW r \in Runs, NEW e \in Events, feed' = [feed EXCEPT ![r] = Append(@, e)]
    PROVE  /\ \A q \in Runs : q # r => feed'[q] = feed[q]
           /\ feed'[r] # <<>> /\ Len(feed'[r]) = Len(feed[r]) + 1 /\ Len(feed[r]) \in Nat
           /\ feed'[r][Len(feed'[r])] = e
           /\ \A kinds : \A q \in Runs :
                 Notified(q, kinds)' => Notified(q, kinds) \/ (q = r /\ e.kind \in kinds)
<1>1. feed \in [Runs -> Seq(Events)] /\ feed[r] \in Seq(Events) BY DEF TypeOK
<1>2. feed'[r] = Append(feed[r], e) /\ \A q \in Runs : q # r => feed'[q] = feed[q] BY <1>1
<1>3. /\ Len(feed'[r]) = Len(feed[r]) + 1 /\ Len(feed[r]) \in Nat
      /\ feed'[r][Len(feed[r]) + 1] = e
      /\ \A i \in 1 .. Len(feed[r]) : feed'[r][i] = feed[r][i]
  BY <1>1, <1>2, AppendProperties, LenProperties
<1>4. feed'[r] # <<>> BY <1>3, EmptySeq
<1>5. ASSUME NEW kinds, NEW q \in Runs, Notified(q, kinds)'
      PROVE  Notified(q, kinds) \/ (q = r /\ e.kind \in kinds)
  <2>1. PICK i \in 1 .. Len(feed'[q]) : feed'[q][i].kind \in kinds BY <1>5 DEF Notified
  <2>2. CASE q # r BY <1>2, <2>1, <2>2 DEF Notified
  <2>3. CASE q = r
    <3>1. i \in 1 .. Len(feed[r]) \/ i = Len(feed[r]) + 1 BY <1>3, <2>1, <2>3
    <3>2. QED BY <1>3, <2>1, <2>3, <3>1 DEF Notified
  <2>4. QED BY <2>2, <2>3
<1>6. QED BY <1>2, <1>3, <1>4, <1>5

LEMMA WriteLogFits ==
    ASSUME EngineInv, LogFits, Write
    PROVE  LogFits'
<1>0. TypeOK /\ HandlerFits BY DEF EngineInv
<1> DEFINE w == todo[1]
<1>1. /\ todo # <<>> /\ Current \in Runs /\ 1 \in Todo /\ w \in Writes /\ Perform(w)
      /\ \A i \in 1 .. Len(todo') : i + 1 \in Todo /\ todo'[i] = todo[i + 1]
      /\ todo' # <<>> => cause' = cause
      /\ faults' = faults
  BY <1>0, WriteEffect
<1>2. /\ w.op = "SaveRun" => w.session \in Sessions \ {Unknown}
      /\ w.op = "Publish" => w.run = Current
      /\ store' = IF w.op = "SaveRun" THEN [store EXCEPT ![Current] = w.session] ELSE store
  BY <1>0, WriteFocus
<1>3. Orderly(todo, Current, cause.action) BY <1>0, <1>1 DEF HandlerFits
<1>4. store \in [Runs -> Sessions] BY <1>0 DEF TypeOK
<1>5. todo' # <<>> => Current' = Current BY <1>1 DEF Current
<1>6. \A i \in Todo' : i + 1 \in Todo /\ i + 1 > 1 /\ todo'[i] = todo[i + 1] BY <1>1 DEF Todo
<1>7. \A q \in Runs : Secured(q) => Secured(q)' BY <1>1, <1>5, <1>6 DEF Secured
<1>8. CASE w.op = "SaveRun"
  <2>1. log' = log /\ feed' = feed BY <1>1, <1>8 DEF Perform, FirstFile
  <2>2. \A q \in Runs : q # Current => store'[q] = store[q] BY <1>2, <1>4, <1>8
  <2>3. store'[Current] = w.session /\ w.session # Unknown BY <1>1, <1>2, <1>4, <1>8
  <2>4. ~Secured(Current) BY <1>1, <1>8 DEF Secured, CanFail
  <2>5. store[Current] \in Terminal => w.session = Failed
    BY <1>0, <1>1, <1>8 DEF HandlerFits, Resumes, Todo
  <2>6. \A q \in Runs : \A kinds : Notified(q, kinds)' <=> Notified(q, kinds) BY <2>1 DEF Notified
  <2>7. ASSUME NEW q \in Runs PROVE EndFits(q)'
    <3>1. EndFits(q) BY DEF LogFits
    <3>2. CASE q = Current
      <4>1. ~Notified(q, {"RunCompleted"})' BY <2>4, <2>6, <3>1, <3>2 DEF EndFits
      <4>2. Notified(q, {"RunFailed"})' => store'[q] = Failed
        BY <2>3, <2>5, <2>6, <3>1, <3>2 DEF EndFits, Terminal
      <4>3. "RunCompleted" \in log'[q] => faults' # 0 /\ store'[q] \in Terminal
        BY <1>1, <2>1, <2>3, <2>4, <2>5, <3>1, <3>2 DEF EndFits, Terminal
      <4>4. "RunFailed" \in log'[q] => store'[q] = Failed
        BY <2>1, <2>3, <2>5, <3>1, <3>2 DEF EndFits, Terminal
      <4>5. QED BY <2>3, <3>2, <4>1, <4>2, <4>3, <4>4 DEF EndFits
    <3>3. CASE q # Current
      <4>1. store'[q] = store[q] BY <2>2, <3>3
      <4>2. QED BY <1>1, <1>7, <2>1, <2>6, <3>1, <4>1 DEF EndFits
    <3>4. QED BY <3>2, <3>3
  <2>8. QED BY <2>7 DEF LogFits
<1>9. CASE w.op = "Publish"
  <2>1. w.event \in Events /\ feed' = [feed EXCEPT ![Current] = Append(@, w.event)]
    BY <1>1, <1>2, <1>9, WriteFields DEF Perform
  <2>2. store' = store BY <1>2, <1>9
  <2>3. /\ \A q \in Runs : q # Current => feed'[q] = feed[q]
        /\ \A kinds : \A q \in Runs :
              Notified(q, kinds)' => Notified(q, kinds) \/ (q = Current /\ w.event.kind \in kinds)
    BY <1>0, <1>1, <2>1, PublishEffect
  <2>4. store[Current] # Unknown BY <1>0, <1>1, <1>9 DEF HandlerFits, Reply
  <2>5. w.event.kind \in TerminalEvents => store[Current] = Target(w)
    <3>1. SUFFICES ASSUME w.event.kind \in TerminalEvents PROVE store[Current] = Target(w)
      OBVIOUS
    <3>2. HasTarget(w) BY <1>9, <3>1 DEF HasTarget
    <3>3. \/ store[Current] = Target(w)
          \/ \E j \in 1 .. 1 : todo[j] = SaveRun(Current, Target(w))
      BY <1>0, <1>1, <3>2 DEF HandlerFits
    <3>4. QED BY <1>9, <3>3 DEF SaveRun
  <2>6. w.event.kind = "RunCompleted" =>
           store[Current] = Completed /\ \A q \in Runs : Secured(q)'
    <3>1. \A i, j \in 1 .. Len(todo) : i < j =>
             (todo[i].op = "Publish" /\ todo[i].event.kind = "RunCompleted" => ~CanFail(todo[j]))
      BY <1>3 DEF Orderly
    <3>2. \A j \in Todo : j > 1 =>
             (w.op = "Publish" /\ w.event.kind = "RunCompleted" => ~CanFail(todo[j]))
      BY <1>1, <3>1 DEF Todo
    <3>3. w.event.kind = "RunCompleted" => store[Current] = Completed
      BY <1>9, <2>5 DEF Target, TerminalEvents
    <3>4. w.event.kind = "RunCompleted" => \A i \in Todo' : ~CanFail(todo'[i])
      BY <1>6, <1>9, <3>2
    <3>5. QED BY <3>3, <3>4 DEF Secured
  <2>7. w.event.kind = "RunFailed" => store[Current] = Failed
    BY <1>9, <2>5 DEF Target, TerminalEvents
  <2>8. /\ \A q \in Runs : "RunCompleted" \in log'[q] =>
              "RunCompleted" \in log[q] \/ (q = Current /\ w.event.kind = "RunCompleted")
        /\ \A q \in Runs : "RunFailed" \in log'[q] => "RunFailed" \in log[q] \/ store[q] = Failed
    <3>1. CutOff(Head(todo)) BY <1>1, NextWrite DEF Perform, CutOff
    <3>2. QED BY <1>1, <3>1, CutOffLog
  <2>9. ASSUME NEW q \in Runs PROVE EndFits(q)'
    <3>0. EndFits(q) /\ faults' = faults BY <1>1 DEF LogFits
    <3>1. store'[q] = Unknown => feed'[q] = <<>> BY <2>2, <2>3, <2>4, <3>0 DEF EndFits
    <3>2. Notified(q, {"RunFailed"})' => store'[q] = Failed BY <2>2, <2>3, <2>7, <3>0 DEF EndFits
    <3>3. Notified(q, {"RunCompleted"})' => store'[q] = Completed /\ Secured(q)'
      <4>1. CASE Notified(q, {"RunCompleted"})
        <5>1. store[q] = Completed /\ Secured(q) BY <3>0, <4>1 DEF EndFits
        <5>2. Secured(q)' BY <1>7, <5>1
        <5>3. QED BY <2>2, <5>1, <5>2
      <4>2. CASE q = Current /\ w.event.kind = "RunCompleted"
        <5>1. store[q] = Completed /\ Secured(q)' BY <2>6, <4>2
        <5>2. QED BY <2>2, <5>1
      <4>3. QED BY <2>3, <4>1, <4>2
    <3>4. "RunCompleted" \in log'[q] =>
             store'[q] \in Terminal /\ (faults' = 0 => store'[q] = Completed /\ Secured(q)')
      <4>1. CASE "RunCompleted" \in log[q]
        <5>1. /\ store[q] \in Terminal
              /\ faults = 0 => store[q] = Completed /\ Secured(q)
          BY <3>0, <4>1 DEF EndFits
        <5>2. Secured(q) => Secured(q)' BY <1>7
        <5>3. QED BY <2>2, <3>0, <5>1, <5>2
      <4>2. CASE q = Current /\ w.event.kind = "RunCompleted"
        <5>1. store[q] = Completed /\ Secured(q)' BY <2>6, <4>2
        <5>2. QED BY <2>2, <5>1 DEF Terminal
      <4>3. QED BY <2>8, <4>1, <4>2
    <3>5. "RunFailed" \in log'[q] => store'[q] = Failed BY <2>2, <2>8, <3>0 DEF EndFits
    <3>6. QED BY <3>1, <3>2, <3>3, <3>4, <3>5 DEF EndFits
  <2>10. QED BY <2>9 DEF LogFits
<1>10. CASE w.op \notin {"SaveRun", "Publish"}
  <2>1. log' = log /\ feed' = feed /\ store' = store BY <1>1, <1>2, <1>10 DEF Perform, FirstFile
  <2>2. \A q \in Runs : \A kinds : Notified(q, kinds)' <=> Notified(q, kinds) BY <2>1 DEF Notified
  <2>3. QED BY <1>1, <1>7, <2>1, <2>2 DEF LogFits, EndFits
<1>11. QED BY <1>8, <1>9, <1>10

LEMMA LogStep ==
    ASSUME EngineInv, LogFits, [Next]_vars
    PROVE  LogFits'
<1>0. TypeOK BY DEF EngineInv
<1>1. ASSUME UNCHANGED <<store, log, feed>>, faults' = 0 => faults = 0,
             todo' # <<>> =>
                \/ UNCHANGED <<todo, cause>>
                \/ Current' \in Runs =>
                      /\ ~Notified(Current', {"RunCompleted"})
                      /\ faults = 0 => "RunCompleted" \notin log[Current']
      PROVE  LogFits'
  <2>1. \A q \in Runs : \A kinds : Notified(q, kinds)' <=> Notified(q, kinds) BY <1>1 DEF Notified
  <2>2. ASSUME NEW q \in Runs, Secured(q),
               Notified(q, {"RunCompleted"}) \/ (faults = 0 /\ "RunCompleted" \in log[q])
        PROVE  Secured(q)'
    <3>1. SUFFICES ASSUME todo' # <<>>, Current' = q PROVE \A i \in Todo' : ~CanFail(todo'[i])
      BY DEF Secured
    <3>2. UNCHANGED <<todo, cause>> BY <1>1, <2>2, <3>1
    <3>3. Current = q /\ Todo' = Todo BY <3>1, <3>2 DEF Current, Todo
    <3>4. QED BY <2>2, <3>1, <3>2, <3>3 DEF Secured
  <2>3. QED BY <1>1, <2>1, <2>2 DEF LogFits, EndFits
<1>2. CASE \E r \in Runs : Submit(r) BY <1>1, <1>2 DEF Submit, durable, bounds
<1>3. CASE HandleSubmit
  <2>1. PICK r \in Runs : r = Head(commands) /\ cause' = Submission(r)
    BY <1>0, <1>3, SubmitBegins
  <2>2. store[r] = Unknown
    <3>1. commands # <<>> /\ commands \in Seq(Runs) BY <1>3 DEF HandleSubmit, EngineInv, TypeOK
    <3>2. r = commands[1] /\ 1 \in 1 .. Len(commands) BY <2>1, <3>1, TailElements
    <3>3. QED BY <3>2 DEF EngineInv, CommandsFit
  <2>3. ~Notified(r, {"RunCompleted"}) /\ "RunCompleted" \notin log[r]
    BY <2>2, SessionFields DEF LogFits, EndFits, Terminal
  <2>4. Current' = r BY <2>1 DEF Current, Submission, RunOf
  <2>5. UNCHANGED <<store, log, feed, faults>> BY <1>3 DEF HandleSubmit, Begin, bounds
  <2>6. QED BY <1>1, <2>3, <2>4, <2>5
<1>4. CASE HandleUpdate
  <2>1. PICK a \in ActionId : InWork(a) /\ a = cause'.action
    BY <1>4, UpdateEffect DEF EngineInv
  <2>2. store[RunOf(a)] \in {Failed, Waiting(a)} BY <2>1 DEF EngineInv, WorkFits
  <2>3. RunOf(a) \in Runs /\ store[RunOf(a)] # Completed BY <2>2, WriteTypes, SessionFields
  <2>4. /\ ~Notified(RunOf(a), {"RunCompleted"})
        /\ faults = 0 => "RunCompleted" \notin log[RunOf(a)]
    BY <2>3 DEF LogFits, EndFits
  <2>5. Current' = RunOf(a) BY <2>1 DEF Current
  <2>6. UNCHANGED <<store, log, feed, faults>> BY <1>4, UpdateEffect DEF EngineInv, bounds
  <2>7. QED BY <1>1, <2>4, <2>5, <2>6
<1>5. CASE Write BY <1>5, WriteLogFits
<1>6. CASE WriteFails
  <2>1. UNCHANGED <<store, feed>> /\ todo # <<>> /\ CanFail(todo[1]) /\ 1 \in Todo
    <3>1. /\ todo # <<>> /\ Head(todo).op \in {"SaveRun", "SaveAction", "Publish"}
          /\ UNCHANGED <<store, feed>>
      BY <1>6 DEF WriteFails
    <3>2. Head(todo) = todo[1] /\ 1 \in Todo BY <3>1, NextWrite
    <3>3. QED BY <3>1, <3>2 DEF CanFail
  <2>2. ~Secured(Current) BY <2>1 DEF Secured
  <2>3. todo' # <<>> => Current' = Current BY <1>0, <1>6, FailureBegins DEF Current
  <2>4. faults' # 0 BY <1>0, <1>6, FailureBegins
  <2>5. \A q \in Runs :
           /\ "RunCompleted" \in log'[q] => "RunCompleted" \in log[q] \/ store[q] = Completed
           /\ "RunFailed" \in log'[q] => "RunFailed" \in log[q] \/ store[q] = Failed
    BY <1>6, <2>1, CutOffLog DEF WriteFails
  <2>6. \A q \in Runs : \A kinds : Notified(q, kinds)' <=> Notified(q, kinds) BY <2>1 DEF Notified
  <2>7. ASSUME NEW q \in Runs PROVE EndFits(q)'
    <3>1. EndFits(q) BY DEF LogFits
    <3>2. Notified(q, {"RunCompleted"}) => Secured(q)'
      <4>1. SUFFICES ASSUME Notified(q, {"RunCompleted"}) PROVE Secured(q)' OBVIOUS
      <4>2. q # Current BY <2>2, <3>1, <4>1 DEF EndFits
      <4>3. QED BY <2>3, <4>2 DEF Secured
    <3>3. "RunCompleted" \in log'[q] => store'[q] \in Terminal
      BY <2>1, <2>5, <3>1 DEF EndFits, Terminal
    <3>4. QED BY <2>1, <2>4, <2>5, <2>6, <3>1, <3>2, <3>3 DEF EndFits
  <2>8. QED BY <2>7 DEF LogFits
<1>7. CASE Claim \/ Execute BY <1>1, <1>7 DEF Claim, Execute, durable, engine, bounds
<1>8. CASE Restart
  <2>1. UNCHANGED <<store, feed, faults>> /\ todo' = <<>> BY <1>8 DEF Restart
  <2>2. \A q \in Runs :
           /\ "RunCompleted" \in log'[q] => "RunCompleted" \in log[q] \/ store[q] = Completed
           /\ "RunFailed" \in log'[q] => "RunFailed" \in log[q] \/ store[q] = Failed
    <3>1. CASE todo # <<>> BY <1>8, <3>1, CutOffLog DEF Restart
    <3>2. CASE todo = <<>> BY <1>8, <3>2 DEF Restart
    <3>3. QED BY <3>1, <3>2
  <2>3. \A q \in Runs : Secured(q)' BY <2>1 DEF Secured
  <2>4. \A q \in Runs : \A kinds : Notified(q, kinds)' <=> Notified(q, kinds) BY <2>1 DEF Notified
  <2>5. ASSUME NEW q \in Runs PROVE EndFits(q)'
    BY <2>1, <2>2, <2>3, <2>4 DEF LogFits, EndFits, Terminal
  <2>6. QED BY <2>5 DEF LogFits
<1>9. CASE Recovered \/ \E r \in Runs : RecoverRun(r)
  BY <1>1, <1>9 DEF Recovered, RecoverRun, durable, bounds
<1>10. CASE UNCHANGED vars BY <1>1, <1>10 DEF vars, durable, engine, bounds
<1>11. QED
  BY <1>2, <1>3, <1>4, <1>5, <1>6, <1>7, <1>8, <1>9, <1>10 DEF Next, EngineStep, Recover

LEMMA LogInvariant == Spec => [](EngineInv /\ LogFits)
<1>1. Init => LogFits
  <2>1. SUFFICES ASSUME Init PROVE LogFits OBVIOUS
  <2>2. \A r \in Runs : feed[r] = <<>> /\ Len(feed[r]) = 0 BY <2>1, EmptySeq DEF Init
  <2>3. \A r \in Runs : \A kinds : ~Notified(r, kinds) BY <2>2 DEF Notified
  <2>4. \A r \in Runs : log[r] = {} BY <2>1 DEF Init
  <2>5. QED BY <2>2, <2>3, <2>4 DEF LogFits, EndFits
<1>2. LogFits /\ EngineInv /\ [Next]_vars => LogFits' BY LogStep
<1>3. QED BY <1>1, <1>2, EngineInvariant, PTL DEF Spec

(* What the subscribers were told of the end of a run is so in the store,    *)
(* and what the log says of it too, through every restart and every write    *)
(* that fails or is cut off between its two files: except that a completed   *)
(* run whose end could not be published may be logged as completed and be    *)
(* saved as failed.  Every run whose end is logged is over, so recovery may  *)
(* skip it (engine.rs:304-306, 467-491, fs.rs:221-225).                      *)
THEOREM LogIsTrue == Spec => []LogTellsTheTruth
<1>1. TypeOK /\ LogFits => LogTellsTheTruth
  BY EngineAssumption DEF TypeOK, LogFits, EndFits, LogTellsTheTruth, Terminal
<1>2. QED BY <1>1, LogInvariant, PTL DEF EngineInv

(***************************************************************************)
(* Waiting runs and recorded statuses                                      *)
(***************************************************************************)

(* The runs the engine task answers for, and those it has given up.          *)
Settled(r) == phase # "refused" /\ r \notin unrecovered
Fallen(r) == reply[r] = "Err" \/ r \in abandoned \/ \E i \in Todo : todo[i] = Reply(r, "Err")

Saving(r) == \E i \in Todo : todo[i].op = "SaveRun" /\ todo[i].run = r
Recording(r) == \E i \in Todo : todo[i].op = "RecordStatus" /\ todo[i].run = r

(* What a run waits for is on its way, and its status is the session saved,  *)
(* unless the current handler is about to make it so or the run fell.        *)
Awaited(r, a) == InWork(a) \/ Due(a) \/ Saving(r) \/ Fallen(r)
Recorded(r) == status[r] = store[r] \/ Recording(r) \/ Fallen(r)

BookFits ==
    /\ phase = "serving" => unrecovered = {}
    /\ \A r \in Runs : Settled(r) =>
          /\ Recorded(r)
          /\ \A a \in ActionId : store[r] = Waiting(a) => Awaited(r, a)

LEMMA Own ==
    ASSUME EngineInv, NEW r \in Runs, NEW a \in ActionId, store[r] = Waiting(a)
    PROVE  RunOf(a) = r
<1>1. IsWaiting(store[r]) /\ store[r].action = a BY SessionFields
<1>2. QED BY <1>1 DEF EngineInv, IdsFit

LEMMA IdleTodo ==
    ASSUME EngineInv, cause = Idle
    PROVE  /\ todo = <<>> /\ Todo = {}
           /\ \A a : ~Due(a)
           /\ \A r : /\ ~Saving(r) /\ ~Recording(r)
                     /\ Fallen(r) <=> reply[r] = "Err" \/ r \in abandoned
<1>1. todo = <<>> /\ Len(todo) = 0 BY EmptySeq DEF EngineInv, TypeOK
<1>2. Todo = {} BY <1>1 DEF Todo
<1>3. QED BY <1>1, <1>2 DEF Due, Saving, Recording, Fallen

(* A handler that begins leaves the books of every run as they are.          *)
LEMMA BeginBookFits ==
    ASSUME EngineInv, BookFits, cause = Idle,
           UNCHANGED <<store, status, reply, abandoned, phase, unrecovered>>,
           \A a \in ActionId : InWork(a) => InWork(a)' \/ Saving(RunOf(a))'
    PROVE  BookFits'
<1>1. /\ \A a : ~Due(a)
      /\ \A r : /\ ~Saving(r) /\ ~Recording(r)
                /\ Fallen(r) <=> reply[r] = "Err" \/ r \in abandoned
  BY IdleTodo
<1>2. \A r \in Runs : Settled(r)' <=> Settled(r) BY DEF Settled
<1>3. \A r \in Runs : Fallen(r) => Fallen(r)' BY <1>1 DEF Fallen
<1>4. ASSUME NEW r \in Runs, Settled(r)
      PROVE  Recorded(r)' /\ \A a \in ActionId : store'[r] = Waiting(a) => Awaited(r, a)'
  <2>1. Recorded(r)' BY <1>1, <1>3, <1>4 DEF BookFits, Recorded
  <2>2. ASSUME NEW a \in ActionId, store'[r] = Waiting(a) PROVE Awaited(r, a)'
    <3>1. store[r] = Waiting(a) /\ RunOf(a) = r BY <2>2, Own
    <3>2. InWork(a) \/ Fallen(r) BY <1>1, <1>4, <3>1 DEF BookFits, Awaited
    <3>3. InWork(a)' \/ Saving(r)' \/ Fallen(r)' BY <1>3, <3>1, <3>2
    <3>4. QED BY <3>3 DEF Awaited
  <2>3. QED BY <2>1, <2>2
<1>5. QED BY <1>2, <1>4 DEF BookFits

LEMMA UpdateBookFits ==
    ASSUME EngineInv, BookFits, HandleUpdate
    PROVE  BookFits'
<1> DEFINE u == Head(updates)
<1>1. /\ UNCHANGED <<store, status, reply, abandoned, phase, unrecovered>>
      /\ u.action \in ActionId /\ u \in Updates /\ cause' = u
  BY UpdateEffect DEF EngineInv
<1>2. cause = Idle BY DEF HandleUpdate, Ready
<1>3. \A a \in ActionId : InWork(a) => InWork(a)' \/ (IsAnswer(u) /\ a = u.action)
  BY InWorkEffect
<1>4. PICK b \in ActionId : b = u.action BY <1>1
<1>5. ASSUME IsAnswer(u) PROVE Saving(RunOf(b))'
  <2>1. Saves(todo') /\ \E x : Handler(todo', RunOf(b), b, x)
    BY <1>4, <1>5, UpdateBegins DEF EngineInv, IsAnswer
  <2>2. \A i \in 1 .. Len(todo') : WriteRun(todo'[i]) = RunOf(b)
    BY <2>1 DEF Handler, Orderly
  <2>3. PICK i \in 1 .. Len(todo') : todo'[i].op = "SaveRun" BY <2>1 DEF Saves
  <2>4. todo'[i].run = RunOf(b) BY <2>2, <2>3 DEF WriteRun
  <2>5. QED BY <2>3, <2>4 DEF Saving, Todo
<1>6. ASSUME NEW a \in ActionId, InWork(a) PROVE InWork(a)' \/ Saving(RunOf(a))'
  <2>1. CASE InWork(a)' BY <2>1
  <2>2. CASE IsAnswer(u) /\ a = b BY <1>5, <2>2
  <2>3. QED BY <1>3, <1>4, <1>6, <2>1, <2>2
<1>7. QED BY <1>1, <1>2, <1>6, BeginBookFits

LEMMA WriteBookFits ==
    ASSUME EngineInv, BookFits, Write
    PROVE  BookFits'
<1>0. TypeOK /\ HandlerFits BY DEF EngineInv
<1> DEFINE w == todo[1]
<1>1. /\ todo # <<>> /\ todo \in Seq(Writes) /\ Current \in Runs /\ 1 \in Todo
      /\ w \in Writes /\ Perform(w)
      /\ \A j \in Todo : j > 1 => j - 1 \in Todo' /\ todo'[j - 1] = todo[j]
      /\ UNCHANGED <<phase, unrecovered, abandoned, executing, updates>>
  BY <1>0, WriteEffect DEF Todo
<1>2. /\ w.op \in {"SaveRun", "RecordStatus", "SaveAction", "Enqueue", "Publish", "Reply"}
      /\ w.op \in {"SaveRun", "RecordStatus", "Publish", "Reply"} => w.run = Current
      /\ w.op = "SaveRun" => w.session \in Sessions \ {Unknown}
      /\ w.op \in {"SaveAction", "Enqueue"} => w.action \in ActionId
      /\ w.op = "Enqueue" => w = Enqueue(w.action)
      /\ store' = IF w.op = "SaveRun" THEN [store EXCEPT ![Current] = w.session] ELSE store
  BY <1>0, WriteFocus
<1>3. Orderly(todo, Current, cause.action) BY <1>0, <1>1 DEF HandlerFits
<1>4. /\ store \in [Runs -> Sessions] /\ status \in [Runs -> Sessions]
      /\ reply \in [Runs -> {"None", "Ok", "Err"}] /\ actionQueue \in Seq(ActionId)
  BY <1>0 DEF TypeOK
<1>5. \A i \in Todo : WriteRun(todo[i]) = Current BY <1>3 DEF Orderly, Todo
<1>6. \A i \in Todo : i = 1 \/ i > 1 BY DEF Todo
<1>7. \A a \in ActionId : InWork(a) => InWork(a)'
  <2>1. \A a \in ActionId : Answered(a)' <=> Answered(a) BY <1>1 DEF Answered
  <2>2. \A a \in ActionId : Queued(a) => Queued(a)'
    <3>1. CASE actionQueue' = actionQueue BY <3>1 DEF Queued
    <3>2. CASE w.op = "Enqueue"
      <4>1. w.action \in ActionId /\ actionQueue' = Append(actionQueue, w.action)
        BY <1>1, <1>2, <3>2 DEF Perform
      <4>2. QED BY <1>0, <4>1, EnqueueEffect
    <3>3. QED BY <1>1, <3>1, <3>2 DEF Perform
  <2>3. QED BY <1>1, <2>1, <2>2 DEF InWork
<1>8. \A a \in ActionId : Due(a) => Due(a)' \/ InWork(a)'
  <2>1. SUFFICES ASSUME NEW a \in ActionId, NEW i \in Todo, todo[i] = Enqueue(a)
                 PROVE  Due(a)' \/ InWork(a)'
    BY DEF Due
  <2>2. CASE i > 1 BY <1>1, <2>1, <2>2 DEF Due
  <2>3. CASE i = 1
    <3>1. w.op = "Enqueue" /\ w.action = a BY <2>1, <2>3 DEF Enqueue
    <3>2. actionQueue' = Append(actionQueue, a) BY <1>1, <3>1 DEF Perform
    <3>3. Queued(a)' BY <1>0, <3>2, EnqueueEffect
    <3>4. QED BY <3>3 DEF InWork
  <2>4. QED BY <1>6, <2>2, <2>3
<1>9. \A r \in Runs : Saving(r) => Saving(r)' \/ (r = Current /\ w.op = "SaveRun")
  BY <1>1, <1>2, <1>6 DEF Saving
<1>10. \A r \in Runs : Recording(r) => Recording(r)' \/ (r = Current /\ w.op = "RecordStatus")
  BY <1>1, <1>2, <1>6 DEF Recording
<1>11. \A r \in Runs : Fallen(r) => Fallen(r)'
  <2>1. reply' = IF w.op = "Reply" THEN [reply EXCEPT ![Current] = w.answer] ELSE reply
    BY <1>1, <1>2 DEF Perform
  <2>2. w.op = "Reply" => reply[Current] = "None"
    BY <1>0, <1>1 DEF HandlerFits, Replies, Todo
  <2>3. ASSUME NEW r \in Runs, reply[r] = "Err" PROVE reply'[r] = "Err"
    BY <1>1, <1>4, <2>1, <2>2, <2>3
  <2>4. ASSUME NEW r \in Runs, NEW i \in Todo, todo[i] = Reply(r, "Err")
        PROVE  reply'[r] = "Err" \/ \E j \in Todo' : todo'[j] = Reply(r, "Err")
    <3>1. CASE i > 1 BY <1>1, <2>4, <3>1
    <3>2. CASE i = 1
      <4>1. w.op = "Reply" /\ w.run = r /\ w.answer = "Err" BY <2>4, <3>2 DEF Reply
      <4>2. QED BY <1>1, <1>2, <1>4, <2>1, <4>1
    <3>3. QED BY <1>6, <3>1, <3>2
  <2>5. QED BY <1>1, <2>3, <2>4 DEF Fallen
<1>12. \A r \in Runs : Settled(r)' <=> Settled(r) BY <1>1 DEF Settled
<1>13. ASSUME NEW r \in Runs, Settled(r)
       PROVE  Recorded(r)' /\ \A a \in ActionId : store'[r] = Waiting(a) => Awaited(r, a)'
  <2>1. CASE r = Current /\ w.op = "SaveRun"
    <3>1. store'[r] = w.session BY <1>2, <1>4, <2>1
    <3>2. /\ \E j \in Todo : j > 1 /\ todo[j].op = "RecordStatus"
          /\ IsWaiting(w.session) => \E j \in Todo : j > 1 /\ todo[j] = Enqueue(w.session.action)
      BY <1>1, <1>3, <2>1 DEF Orderly, Todo
    <3>3. PICK j \in Todo : j > 1 /\ todo[j].op = "RecordStatus" BY <3>2
    <3>4. todo[j].run = Current BY <1>5, <3>3 DEF WriteRun
    <3>5. Recording(r)' BY <1>1, <2>1, <3>3, <3>4 DEF Recording
    <3>6. ASSUME NEW a \in ActionId, store'[r] = Waiting(a) PROVE Due(a)'
      <4>1. IsWaiting(w.session) /\ w.session.action = a BY <3>1, <3>6, SessionFields
      <4>2. QED BY <1>1, <3>2, <4>1 DEF Due
    <3>7. QED BY <3>5, <3>6 DEF Recorded, Awaited
  <2>2. CASE ~(r = Current /\ w.op = "SaveRun")
    <3>1. store'[r] = store[r] BY <1>2, <1>4, <2>2
    <3>2. ASSUME NEW a \in ActionId, store'[r] = Waiting(a) PROVE Awaited(r, a)'
      <4>1. Awaited(r, a) BY <1>13, <3>1, <3>2 DEF BookFits
      <4>2. QED BY <1>7, <1>8, <1>9, <1>11, <2>2, <4>1 DEF Awaited
    <3>3. CASE r = Current /\ w.op = "RecordStatus"
      <4>1. HasTarget(w) /\ Target(w) = w.session BY <3>3 DEF HasTarget, Target
      <4>2. \/ store[Current] = Target(w)
            \/ \E j \in 1 .. 1 : todo[j] = SaveRun(Current, Target(w))
        BY <1>0, <1>1, <4>1 DEF HandlerFits
      <4>3. store[Current] = w.session BY <3>3, <4>1, <4>2 DEF SaveRun
      <4>4. status'[r] = w.session BY <1>1, <1>2, <1>4, <3>3 DEF Perform
      <4>5. Recorded(r)' BY <3>1, <3>3, <4>3, <4>4 DEF Recorded
      <4>6. QED BY <3>2, <4>5
    <3>4. CASE ~(r = Current /\ w.op = "RecordStatus")
      <4>1. status'[r] = status[r] BY <1>1, <1>2, <1>4, <3>4 DEF Perform
      <4>2. Recorded(r)' BY <1>10, <1>11, <1>13, <3>1, <3>4, <4>1 DEF BookFits, Recorded
      <4>3. QED BY <3>2, <4>2
    <3>5. QED BY <3>3, <3>4
  <2>3. QED BY <2>1, <2>2
<1>14. QED BY <1>1, <1>12, <1>13 DEF BookFits

LEMMA FailureBookFits ==
    ASSUME EngineInv, BookFits, WriteFails
    PROVE  BookFits'
<1>1. PICK c \in Runs : c = Current BY FailureBegins DEF EngineInv, Current
<1>2. /\ abandoned \subseteq abandoned'
      /\ \/ todo' = <<Reply(c, "Err")>>
         \/ Saves(todo') /\ Handler(todo', c, cause.action, NoAction)
         \/ c \in abandoned'
  BY <1>1, FailureBegins DEF EngineInv, Current
<1>3. UNCHANGED <<store, status, reply, phase, unrecovered, worker>> /\ todo # <<>>
  BY DEF WriteFails
<1>4. \A a \in ActionId : InWork(a)' <=> InWork(a) BY <1>3, WorkKept
<1>5. \A i \in Todo : WriteRun(todo[i]) = c
  BY <1>1, <1>3 DEF EngineInv, HandlerFits, Orderly, Todo
<1>6. Fallen(c)' \/ (Saving(c)' /\ Recording(c)')
  <2>1. CASE todo' = <<Reply(c, "Err")>>
    <3>1. Len(todo') = 1 /\ todo'[1] = Reply(c, "Err") BY <2>1
    <3>2. QED BY <3>1 DEF Fallen, Todo
  <2>2. CASE Saves(todo') /\ Handler(todo', c, cause.action, NoAction)
    <3>1. \A i \in 1 .. Len(todo') : WriteRun(todo'[i]) = c BY <2>2 DEF Handler, Orderly
    <3>2. PICK i, j \in 1 .. Len(todo') : todo'[i].op = "SaveRun" /\ todo'[j].op = "RecordStatus"
      BY <2>2 DEF Saves
    <3>3. todo'[i].run = c /\ todo'[j].run = c BY <3>1, <3>2 DEF WriteRun
    <3>4. QED BY <3>2, <3>3 DEF Saving, Recording, Todo
  <2>3. QED BY <1>2, <2>1, <2>2 DEF Fallen
<1>7. ASSUME NEW r \in Runs, r # c
      PROVE  /\ ~Saving(r) /\ ~Recording(r) /\ (Fallen(r) => Fallen(r)')
             /\ \A a \in ActionId : RunOf(a) = r => ~Due(a)
  <2>1. ~Saving(r) /\ ~Recording(r) BY <1>5, <1>7 DEF Saving, Recording, WriteRun
  <2>2. \A i \in Todo : todo[i] # Reply(r, "Err") BY <1>5, <1>7 DEF Reply, WriteRun
  <2>3. Fallen(r) => Fallen(r)' BY <1>2, <1>3, <2>2 DEF Fallen
  <2>4. \A a \in ActionId : RunOf(a) = r => ~Due(a) BY <1>5, <1>7 DEF Due, Enqueue, WriteRun
  <2>5. QED BY <2>1, <2>3, <2>4
<1>8. ASSUME NEW r \in Runs, Settled(r)
      PROVE  Recorded(r)' /\ \A a \in ActionId : store'[r] = Waiting(a) => Awaited(r, a)'
  <2>1. CASE r = c BY <1>6, <2>1 DEF Recorded, Awaited
  <2>2. CASE r # c
    <3>1. Recorded(r)' BY <1>3, <1>7, <1>8, <2>2 DEF BookFits, Recorded
    <3>2. ASSUME NEW a \in ActionId, store'[r] = Waiting(a) PROVE Awaited(r, a)'
      <4>1. store[r] = Waiting(a) /\ RunOf(a) = r BY <1>3, <3>2, Own
      <4>2. QED BY <1>4, <1>7, <1>8, <2>2, <4>1 DEF BookFits, Awaited
    <3>3. QED BY <3>1, <3>2
  <2>3. QED BY <2>1, <2>2
<1>9. \A r \in Runs : Settled(r)' <=> Settled(r) BY <1>3 DEF Settled
<1>10. QED BY <1>3, <1>8, <1>9 DEF BookFits

(* Recovery passes over a run only if it does not wait, or if the log says   *)
(* that it is over; then it does not wait either.                            *)
LEMMA RecoverBookFits ==
    ASSUME EngineInv, LogFits, BookFits, NEW c \in Runs, RecoverRun(c)
    PROVE  BookFits'
<1>1. /\ phase = "recovering" /\ unrecovered' = unrecovered \ {c}
      /\ status' = [status EXCEPT ![c] = store[c]] /\ phase' # "serving"
      /\ UNCHANGED <<store, reply, todo, cause, abandoned, executing, updates>>
  BY DEF RecoverRun, durable
<1>2. \A a \in ActionId : InWork(a) => InWork(a)'
  <2>1. \A a \in ActionId : Queued(a) => Queued(a)'
    <3>1. CASE actionQueue' = actionQueue BY <3>1 DEF Queued
    <3>2. ASSUME NEW b \in ActionId, actionQueue' = Append(actionQueue, b)
          PROVE  \A a \in ActionId : Queued(a) => Queued(a)'
      BY <3>2, EnqueueEffect DEF EngineInv
    <3>3. QED BY <3>1, <3>2, RecoverWork
  <2>2. QED BY <1>1, <2>1 DEF InWork, Answered
<1>3. /\ \A r \in Runs : Recording(r)' <=> Recording(r)
      /\ \A r \in Runs : Saving(r)' <=> Saving(r)
      /\ \A r \in Runs : Fallen(r)' <=> Fallen(r)
      /\ \A a \in ActionId : Due(a)' <=> Due(a)
  BY <1>1 DEF Recording, Saving, Fallen, Due, Todo
<1>4. ASSUME NEW r \in Runs, Settled(r)'
      PROVE  Recorded(r)' /\ \A a \in ActionId : store'[r] = Waiting(a) => Awaited(r, a)'
  <2>1. CASE r # c
    <3>1. Settled(r) BY <1>1, <1>4, <2>1 DEF Settled
    <3>2. status'[r] = status[r] BY <1>1, <2>1 DEF EngineInv, TypeOK
    <3>3. Recorded(r)' BY <1>1, <1>3, <3>1, <3>2 DEF BookFits, Recorded
    <3>4. QED BY <1>1, <1>2, <1>3, <3>1, <3>3 DEF BookFits, Awaited
  <2>2. CASE r = c
    <3>1. status'[r] = store'[r] BY <1>1, <2>2 DEF EngineInv, TypeOK
    <3>2. ASSUME NEW a \in ActionId, store'[r] = Waiting(a) PROVE Awaited(r, a)'
      <4>1. IsWaiting(store[c]) /\ store[c].action = a BY <1>1, <2>2, <3>2, SessionFields
      <4>2. store[c] \notin Terminal BY <1>1, <2>2, <3>2, SessionFields DEF Terminal
      <4>3. log[c] = {}
        <5>1. log[c] \subseteq TerminalEvents BY DEF EngineInv, TypeOK
        <5>2. QED BY <4>2, <5>1 DEF LogFits, EndFits, Terminal, TerminalEvents
      <4>4. phase' # "refused" BY <1>4 DEF Settled
      <4>5. actionQueue' = Append(actionQueue, a) BY <4>1, <4>3, <4>4 DEF RecoverRun
      <4>6. Queued(a)' BY <4>5, EnqueueEffect DEF EngineInv
      <4>7. QED BY <4>6 DEF Awaited, InWork
    <3>3. QED BY <3>1, <3>2 DEF Recorded
  <2>3. QED BY <2>1, <2>2
<1>5. QED BY <1>1, <1>4 DEF BookFits

LEMMA BookStep ==
    ASSUME EngineInv, LogFits, BookFits, [Next]_vars
    PROVE  BookFits'
<1>1. ASSUME UNCHANGED <<store, status, reply, abandoned, unrecovered, todo, cause>>,
             phase' = "serving" => phase = "serving" \/ unrecovered = {},
             phase = "refused" => phase' = "refused",
             \A a \in ActionId : InWork(a) => InWork(a)'
      PROVE  BookFits'
  <2>1. /\ \A r \in Runs : Recording(r)' <=> Recording(r)
        /\ \A r \in Runs : Saving(r)' <=> Saving(r)
        /\ \A r \in Runs : Fallen(r)' <=> Fallen(r)
        /\ \A a \in ActionId : Due(a)' <=> Due(a)
    BY <1>1 DEF Recording, Saving, Fallen, Due, Todo
  <2>2. \A r \in Runs : Settled(r)' => Settled(r) BY <1>1 DEF Settled
  <2>3. \A r \in Runs : Recorded(r) => Recorded(r)' BY <1>1, <2>1 DEF Recorded
  <2>4. \A r \in Runs, a \in ActionId : Awaited(r, a) => Awaited(r, a)'
    BY <1>1, <2>1 DEF Awaited
  <2>5. QED BY <1>1, <2>2, <2>3, <2>4 DEF BookFits
<1>2. CASE \E r \in Runs : Submit(r) BY <1>1, <1>2, WorkKept DEF Submit, durable
<1>3. CASE HandleSubmit
  <2>1. UNCHANGED <<store, status, reply, abandoned, phase, unrecovered, worker>> /\ cause = Idle
    BY <1>3 DEF HandleSubmit, Ready, Begin
  <2>2. \A a \in ActionId : InWork(a)' <=> InWork(a) BY <2>1, WorkKept
  <2>3. QED BY <2>1, <2>2, BeginBookFits
<1>4. CASE HandleUpdate BY <1>4, UpdateBookFits
<1>5. CASE Write BY <1>5, WriteBookFits
<1>6. CASE WriteFails BY <1>6, FailureBookFits
<1>7. CASE Claim \/ Execute
  <2>1. \A a \in ActionId : InWork(a)' <=> InWork(a) BY <1>7, InWorkEffect
  <2>2. QED BY <1>1, <1>7, <2>1 DEF Claim, Execute, durable, engine
<1>8. CASE Restart
  <2>1. /\ phase' = "recovering" /\ unrecovered' = {r \in Runs : store[r] # Unknown}
        /\ status' = [r \in Runs |-> Unknown] /\ store' = store
    BY <1>8 DEF Restart
  <2>2. ASSUME NEW r \in Runs, Settled(r)'
        PROVE  store'[r] = Unknown /\ status'[r] = store'[r]
    BY <2>1, <2>2 DEF Settled
  <2>3. \A a \in ActionId : Unknown # Waiting(a) BY SessionFields
  <2>4. QED BY <2>1, <2>2, <2>3 DEF BookFits, Recorded
<1>9. CASE \E r \in Runs : RecoverRun(r) BY <1>9, RecoverBookFits
<1>10. CASE Recovered BY <1>1, <1>10, WorkKept DEF Recovered, durable
<1>11. CASE UNCHANGED vars BY <1>1, <1>11, WorkKept DEF vars, durable, engine
<1>12. QED
  BY <1>2, <1>3, <1>4, <1>5, <1>6, <1>7, <1>8, <1>9, <1>10, <1>11 DEF Next, EngineStep, Recover

LEMMA BookInvariant == Spec => [](EngineInv /\ LogFits /\ BookFits)
<1>1. Init => BookFits
  <2>1. SUFFICES ASSUME Init PROVE BookFits OBVIOUS
  <2>2. phase = "recovering" /\ \A r \in Runs : store[r] = Unknown /\ status[r] = Unknown
    BY <2>1 DEF Init
  <2>3. \A a \in ActionId : Unknown # Waiting(a) BY SessionFields
  <2>4. QED BY <2>2, <2>3 DEF BookFits, Recorded
<1>2. BookFits /\ LogFits /\ EngineInv /\ [Next]_vars => BookFits' BY BookStep
<1>3. QED BY <1>1, <1>2, LogInvariant, PTL DEF Spec

(* While the engine serves, the action a waiting run waits for is on its     *)
(* way, or a handler is at work on the run, or its submitter was told that   *)
(* it failed, or its failure could not be recorded (engine.rs:246-249,       *)
(* 294-317, 467-491).                                                        *)
THEOREM RunsAreRemembered == Spec => []NoRunForgotten
<1>1. ASSUME EngineInv, BookFits PROVE NoRunForgotten
  <2>1. SUFFICES ASSUME phase = "serving", NEW r \in Runs, IsWaiting(store[r])
                 PROVE  \/ Places(store[r].action) # {}
                        \/ cause # Idle /\ RunOf(cause.action) = r
                        \/ reply[r] = "Err" \/ r \in abandoned
    BY DEF NoRunForgotten
  <2>2. PICK a \in ActionId : a = store[r].action /\ store[r] = Waiting(a)
    BY <1>1, <2>1, SessionFields DEF EngineInv, TypeOK
  <2>3. Awaited(r, a) BY <1>1, <2>1, <2>2 DEF BookFits, Settled
  <2>4. CASE InWork(a) \/ Due(a)
    <3>1. CASE \E i \in Todo : todo[i] = Enqueue(a)
      <4>1. PICK i \in 1 .. Len(todo) : todo[i].op = "Enqueue" /\ todo[i].action = a
        BY <3>1 DEF Todo, Enqueue
      <4>2. <<"todo", i>> \in Places(a) BY <4>1 DEF Places
      <4>3. QED BY <2>2, <4>2
    <3>2. CASE \E i \in 1 .. Len(actionQueue) : actionQueue[i] = a
      <4>1. PICK i \in 1 .. Len(actionQueue) : actionQueue[i] = a BY <3>2
      <4>2. <<"queue", i>> \in Places(a) BY <4>1 DEF Places
      <4>3. QED BY <2>2, <4>2
    <3>3. CASE executing = a
      <4>1. <<"worker", 1>> \in Places(a) BY <3>3 DEF Places
      <4>2. QED BY <2>2, <4>1
    <3>4. CASE \E i \in 1 .. Len(updates) : IsAnswer(updates[i]) /\ updates[i].action = a
      <4>1. PICK i \in 1 .. Len(updates) : updates[i].kind # "Claimed" /\ updates[i].action = a
        BY <3>4 DEF IsAnswer
      <4>2. <<"answer", i>> \in Places(a) BY <4>1 DEF Places
      <4>3. QED BY <2>2, <4>2
    <3>5. QED BY <2>4, <3>1, <3>2, <3>3, <3>4 DEF InWork, Queued, Answered, Due
  <2>5. CASE \E i \in Todo : \/ todo[i].op = "SaveRun" /\ todo[i].run = r
                             \/ todo[i] = Reply(r, "Err")
    <3>1. todo # <<>> BY <2>5, EmptySeq DEF Todo
    <3>2. cause # Idle BY <1>1, <3>1 DEF EngineInv, TypeOK
    <3>3. \A i \in Todo : WriteRun(todo[i]) = Current
      BY <1>1, <3>1 DEF EngineInv, HandlerFits, Orderly, Todo
    <3>4. Current = r BY <2>5, <3>3 DEF WriteRun, Reply
    <3>5. QED BY <3>2, <3>4 DEF Current
  <2>6. QED BY <2>3, <2>4, <2>5 DEF Awaited, Saving, Fallen
<1>2. QED BY <1>1, BookInvariant, PTL

(* Between two handlers run_status answers with the session that is saved,   *)
(* for every run whose submission did not fail and whose failure could be    *)
(* recorded (engine.rs:88-99, 299-302, 488).                                 *)
THEOREM StatusesAreCurrent == Spec => []StatusIsCurrent
<1>1. ASSUME EngineInv, BookFits PROVE StatusIsCurrent
  <2>1. SUFFICES ASSUME phase = "serving", cause = Idle, NEW r \in Runs
                 PROVE  status[r] = store[r] \/ reply[r] = "Err" \/ r \in abandoned
    BY DEF StatusIsCurrent
  <2>2. Recorded(r) BY <1>1, <2>1 DEF BookFits, Settled
  <2>3. QED BY <1>1, <2>1, <2>2, IdleTodo DEF Recorded
<1>2. QED BY <1>1, BookInvariant, PTL

(***************************************************************************)
(* The events of a run, in their order                                     *)
(***************************************************************************)

(* The last event of a run, and the order RunLifecycle asks for.             *)
Stage(r) == IF feed[r] = <<>> THEN "None" ELSE feed[r][Len(feed[r])].kind
Stages == {"None"} \cup {e.kind : e \in Events}
Follows(k, l) == k \in Lifecycle!Before[l]

(* The first and the last event among writes, and the order between.         *)
Opening(p, i) == IsPublish(p[i]) /\ \A j \in 1 .. Len(p) : j < i => ~IsPublish(p[j])
Closing(p, i) == IsPublish(p[i]) /\ \A j \in 1 .. Len(p) : j > i => ~IsPublish(p[j])
Chained(p) ==
    \A i, j \in 1 .. Len(p) :
       (/\ i < j /\ IsPublish(p[i]) /\ IsPublish(p[j])
        /\ \A m \in 1 .. Len(p) : i < m /\ m < j => ~IsPublish(p[m]))
       => Follows(p[i].event.kind, p[j].event.kind)

(* k is the last event of run r once the current handler is done.            *)
Heads(r, k) ==
    \/ \E i \in Todo : Closing(todo, i) /\ todo[i].run = r /\ todo[i].event.kind = k
    \/ Stage(r) = k /\ \A i \in Todo : ~(IsPublish(todo[i]) /\ todo[i].run = r)

(* After a restart an action may be claimed a second time.                   *)
Claimable(k) == k = "ActionEnqueued" \/ (crashes > 0 /\ k \notin TerminalEvents)
MayFollow(k, l) == Follows(k, l) \/ (l = "ActionClaimed" /\ Claimable(k))

Announced(a) == \E i \in 1 .. Len(updates) : ~IsAnswer(updates[i]) /\ updates[i].action = a
Unclaimed(a) == Queued(a) \/ Announced(a)

(* Unless a write has failed, the events to be published continue those the  *)
(* subscribers know, and what is in work is at the point the last one tells. *)
EventFits ==
    /\ unrecovered # {} => crashes > 0
    /\ faults = 0 =>
         /\ Chained(todo)
         /\ \A i \in Todo : Opening(todo, i) => MayFollow(Stage(Current), todo[i].event.kind)
         /\ \A a \in ActionId, k \in Stages : Heads(RunOf(a), k) =>
               /\ Unclaimed(a) => Claimable(k)
               /\ InWork(a) /\ ~Unclaimed(a) => k = "ActionClaimed"
               /\ Due(a) => k = "ActionEnqueued"

LEMMA Orders ==
    /\ DOMAIN Lifecycle!Before =
          {"RunSubmitted", "RunStarted", "ActionEnqueued", "ActionClaimed", "ActionCompleted",
           "RunResumed", "RunCompleted", "ActionFailed", "RunFailed"}
    /\ Follows("None", "RunSubmitted") /\ Follows("RunSubmitted", "RunStarted")
    /\ Follows("RunStarted", "ActionEnqueued") /\ Follows("RunResumed", "ActionEnqueued")
    /\ Follows("ActionEnqueued", "ActionClaimed") /\ Follows("ActionClaimed", "ActionCompleted")
    /\ Follows("ActionCompleted", "RunResumed") /\ Follows("RunStarted", "RunCompleted")
    /\ Follows("RunResumed", "RunCompleted") /\ Follows("ActionClaimed", "ActionFailed")
    /\ Follows("ActionFailed", "RunFailed")
BY DEF Follows, Lifecycle!Before

LEMMA StageType ==
    ASSUME TypeOK, NEW r \in Runs
    PROVE  /\ Stage(r) \in Stages
           /\ Stage(r) \in TerminalEvents => Notified(r, TerminalEvents)
<1>1. feed[r] \in Seq(Events) BY DEF TypeOK
<1>2. feed[r] # <<>> => Len(feed[r]) \in 1 .. Len(feed[r]) BY <1>1, EmptySeq, LenProperties
<1>3. feed[r] # <<>> => feed[r][Len(feed[r])] \in Events BY <1>1, <1>2, ElementOfSeq
<1>4. "None" \notin TerminalEvents BY DEF TerminalEvents
<1>5. QED BY <1>2, <1>3, <1>4 DEF Stage, Stages, Notified

(***************************************************************************)
(* The events of the handlers                                              *)
(***************************************************************************)
LEMMA StepEvents ==
    ASSUME NEW r, NEW c, NEW a, NEW p, NEW n, Stepwise(p, n, r, c, a)
    PROVE  /\ Chained(p)
           /\ \A i \in 1 .. Len(p) : Opening(p, i) =>
                 p[i].event.kind = IF c # NoAction THEN "ActionCompleted" ELSE "RunSubmitted"
           /\ a # NoAction =>
                 \A i \in 1 .. Len(p) : Closing(p, i) => p[i].event.kind = "ActionEnqueued"
           /\ n - 1 \in 1 .. Len(p) /\ IsPublish(p[n - 1]) /\ p[n - 1].run = r
<1>1. n \in 5 .. 8 /\ Len(p) \in n .. n + 1 /\ (c # NoAction => n > 5) BY DEF Stepwise
<1>2. \A i \in 1 .. Len(p) : FieldsAt(p, n, i, r, c, a) BY StepFields
<1>3. n - 3 \in 1 .. Len(p) /\ n - 2 \in 1 .. Len(p) /\ n - 1 \in 1 .. Len(p) BY <1>1
<1>4. \A i \in 1 .. Len(p) : IsPublish(p[i]) =>
         \/ /\ i = n - 3
            /\ p[i].event.kind = IF c # NoAction THEN "ActionCompleted" ELSE "RunSubmitted"
         \/ i = n - 2 /\ p[i].event.kind = IF c # NoAction THEN "RunResumed" ELSE "RunStarted"
         \/ i = n - 1 /\ p[i].event.kind = IF a # NoAction THEN "ActionEnqueued" ELSE "RunCompleted"
  BY <1>2 DEF FieldsAt, IsPublish
<1>5. IsPublish(p[n - 3])
  <2>1. FieldsAt(p, n, n - 3, r, c, a) BY <1>2, <1>3
  <2>2. QED BY <1>1, <2>1 DEF FieldsAt, IsPublish
<1>6. IsPublish(p[n - 2])
  <2>1. FieldsAt(p, n, n - 2, r, c, a) BY <1>2, <1>3
  <2>2. QED BY <1>1, <2>1 DEF FieldsAt, IsPublish
<1>7. IsPublish(p[n - 1]) /\ p[n - 1].run = r
  <2>1. FieldsAt(p, n, n - 1, r, c, a) BY <1>2, <1>3
  <2>2. QED BY <1>1, <2>1 DEF FieldsAt, IsPublish
<1>8. Chained(p)
  <2>1. SUFFICES ASSUME NEW i \in 1 .. Len(p), NEW j \in 1 .. Len(p), i < j,
                        IsPublish(p[i]), IsPublish(p[j]),
                        \A m \in 1 .. Len(p) : i < m /\ m < j => ~IsPublish(p[m])
                 PROVE  Follows(p[i].event.kind, p[j].event.kind)
    BY DEF Chained
  <2>2. ~(i = n - 3 /\ j = n - 1) BY <1>1, <1>3, <1>6, <2>1
  <2>3. \/ i = n - 3 /\ j = n - 2
        \/ i = n - 2 /\ j = n - 1
    BY <1>1, <1>4, <2>1, <2>2
  <2>4. QED BY <1>1, <1>4, <2>1, <2>3, Orders
<1>9. ASSUME NEW i \in 1 .. Len(p), Opening(p, i) PROVE i = n - 3
  BY <1>1, <1>3, <1>4, <1>5, <1>9 DEF Opening
<1>10. ASSUME NEW i \in 1 .. Len(p), Closing(p, i) PROVE i = n - 1
  BY <1>1, <1>3, <1>4, <1>7, <1>10 DEF Closing
<1>11. \A i \in 1 .. Len(p) : Opening(p, i) =>
          p[i].event.kind = IF c # NoAction THEN "ActionCompleted" ELSE "RunSubmitted"
  BY <1>1, <1>4, <1>9 DEF Opening
<1>12. ASSUME a # NoAction, NEW i \in 1 .. Len(p), Closing(p, i)
       PROVE  p[i].event.kind = "ActionEnqueued"
  BY <1>1, <1>4, <1>10, <1>12 DEF Closing
<1>13. QED BY <1>3, <1>7, <1>8, <1>11, <1>12

LEMMA FailActionEvents ==
    ASSUME NEW a \in ActionId, NEW saveFirst \in BOOLEAN, NEW p, p = FailAction(a, saveFirst)
    PROVE  /\ Chained(p)
           /\ \A i \in 1 .. Len(p) : Opening(p, i) => p[i].event.kind = "ActionFailed"
<1>1. /\ Len(p) = 5
      /\ p[1] = (IF saveFirst THEN SaveAction(a, "Failed")
                              ELSE Publish(RunOf(a), "ActionFailed", a))
      /\ p[2] = (IF saveFirst THEN Publish(RunOf(a), "ActionFailed", a)
                              ELSE SaveAction(a, "Failed"))
      /\ p[3] = SaveRun(RunOf(a), Failed)
      /\ p[4] = Publish(RunOf(a), "RunFailed", NoAction)
      /\ p[5] = RecordStatus(RunOf(a), Failed)
  BY FailActionElements
<1>2. /\ IsPublish(p[1]) => ~saveFirst /\ p[1].event.kind = "ActionFailed"
      /\ IsPublish(p[2]) => saveFirst /\ p[2].event.kind = "ActionFailed"
      /\ IsPublish(p[1]) \/ IsPublish(p[2])
      /\ ~IsPublish(p[3]) /\ ~IsPublish(p[5])
      /\ IsPublish(p[4]) /\ p[4].event.kind = "RunFailed"
  BY <1>1 DEF IsPublish, SaveAction, Publish, SaveRun, RecordStatus
<1>3. \A i \in 1 .. Len(p) : i \in {1, 2, 3, 4, 5} BY <1>1
<1>4. 1 \in 1 .. Len(p) /\ 2 \in 1 .. Len(p) BY <1>1
<1>5. Chained(p) BY <1>2, <1>3, Orders DEF Chained
<1>6. \A i \in 1 .. Len(p) : Opening(p, i) => p[i].event.kind = "ActionFailed"
  BY <1>2, <1>3, <1>4 DEF Opening
<1>7. QED BY <1>5, <1>6

(* What handle_submit sets out to write. *)
LEMMA SubmitPrograms ==
    ASSUME TypeOK, HandleSubmit
    PROVE  LET r == Head(commands)
           IN  /\ r \in Runs /\ cause' = Submission(r)
               /\ \E x \in ActionId \cup {NoAction} :
                    /\ Handler(todo', r, <<r, 0>>, x)
                    /\ \/ \E n : Stepwise(todo', n, r, NoAction, x)
                       \/ todo' = <<Reply(r, "Err")>>
<1> DEFINE r == Head(commands)
<1>1. commands # <<>> /\ commands \in Seq(Runs) BY DEF HandleSubmit, TypeOK
<1>2. r \in Runs BY <1>1, TailElements
<1> HIDE DEF r
<1>3. /\ cause' = Submission(r)
      /\ \/ /\ Suspends(r)
            /\ todo' = Step(r, NoAction, NextAction(r)) \o <<Reply(r, "Ok")>>
         \/ /\ todo' = Step(r, NoAction, NoAction) \o <<Reply(r, "Ok")>>
            /\ UNCHANGED issued
         \/ todo' = <<Reply(r, "Err")>>
  BY DEF HandleSubmit, Begin, r
<1>4. ASSUME NEW x, Issues(r, x), todo' = Step(r, NoAction, x) \o <<Reply(r, "Ok")>>
      PROVE  /\ x \in ActionId \cup {NoAction} /\ Handler(todo', r, <<r, 0>>, x)
             /\ \E n : Stepwise(todo', n, r, NoAction, x)
  <2>1. x \in ActionId \cup {NoAction} /\ (x # NoAction => RunOf(x) = r)
    BY <1>2, <1>4, IssuesType
  <2>2. Stepwise(todo', Len(Step(r, NoAction, x)), r, NoAction, x)
    BY <1>2, <1>4, <2>1, RepliedStepIsStepwise
  <2>3. NoAction \in ActionId \cup {NoAction} OBVIOUS
  <2>4. Handler(todo', r, <<r, 0>>, x) BY <1>2, <2>1, <2>2, <2>3, StepHandles
  <2>5. QED BY <2>1, <2>2, <2>4
<1>5. CASE Suspends(r) /\ todo' = Step(r, NoAction, NextAction(r)) \o <<Reply(r, "Ok")>>
  <2>1. Issues(r, NextAction(r)) BY <1>5 DEF Issues
  <2>2. QED BY <1>2, <1>3, <1>4, <1>5, <2>1 DEF r
<1>6. CASE todo' = Step(r, NoAction, NoAction) \o <<Reply(r, "Ok")>> /\ UNCHANGED issued
  <2>1. Issues(r, NoAction) BY <1>6 DEF Issues
  <2>2. QED BY <1>2, <1>3, <1>4, <1>6, <2>1 DEF r
<1>7. CASE todo' = <<Reply(r, "Err")>>
  <2>1. Handler(todo', r, <<r, 0>>, NoAction) BY <1>2, <1>7, ReplyHandles
  <2>2. NoAction \in ActionId \cup {NoAction} OBVIOUS
  <2>3. QED BY <1>2, <1>3, <1>7, <2>1, <2>2 DEF r
<1>8. QED BY <1>3, <1>5, <1>6, <1>7

(***************************************************************************)
(* What is ahead of a run                                                  *)
(***************************************************************************)
LEMMA HeadsKept ==
    ASSUME UNCHANGED <<todo, feed>>
    PROVE  \A r, k : Heads(r, k)' <=> Heads(r, k)
BY DEF Heads, Todo, Stage

(* A handler that begins for run c changes nothing for the others, and leads *)
(* c to the last event it is to publish.                                     *)
LEMMA BeginHeads ==
    ASSUME cause = Idle, EngineInv, feed' = feed, NEW c, NEW d, NEW x, Handler(todo', c, d, x)
    PROVE  /\ \A r, k : r # c /\ Heads(r, k)' => Heads(r, k)
           /\ \A r : Heads(r, Stage(r))
           /\ \A k : (\E i \in 1 .. Len(todo') : IsPublish(todo'[i])) /\ Heads(c, k)' =>
                 \E i \in 1 .. Len(todo') : Closing(todo', i) /\ todo'[i].event.kind = k
<1>1. todo = <<>> /\ Todo = {} BY IdleTodo
<1>2. \A i \in 1 .. Len(todo') : WriteRun(todo'[i]) = c BY DEF Handler, Orderly
<1>3. \A i \in 1 .. Len(todo') : IsPublish(todo'[i]) => todo'[i].run = c
  BY <1>2 DEF WriteRun, IsPublish
<1>4. \A r : Stage(r)' = Stage(r) BY DEF Stage
<1>5. ASSUME NEW r, NEW k, r # c, Heads(r, k)' PROVE Heads(r, k)
  <2>1. Stage(r)' = k BY <1>3, <1>5 DEF Heads, Todo, Closing
  <2>2. QED BY <1>1, <1>4, <2>1 DEF Heads
<1>6. \A r : Heads(r, Stage(r)) BY <1>1 DEF Heads
<1>7. ASSUME NEW k, NEW j \in 1 .. Len(todo'), IsPublish(todo'[j]), Heads(c, k)'
      PROVE  \E i \in 1 .. Len(todo') : Closing(todo', i) /\ todo'[i].event.kind = k
  <2>1. todo'[j].run = c BY <1>3, <1>7
  <2>2. QED BY <1>7, <2>1 DEF Heads, Todo
<1>8. QED BY <1>5, <1>6, <1>7

(* Publishing an event is what was ahead. *)
LEMMA WriteHeads ==
    ASSUME EngineInv, Write
    PROVE  /\ \A r \in Runs : \A k : Heads(r, k)' => Heads(r, k)
           /\ ~IsPublish(todo[1]) => feed' = feed
           /\ IsPublish(todo[1]) =>
                 /\ \A r \in Runs : Stage(r)' = IF r = Current THEN todo[1].event.kind ELSE Stage(r)
                 /\ todo[1].event \in Events /\ Opening(todo, 1)
<1>0. TypeOK /\ HandlerFits BY DEF EngineInv
<1> DEFINE w == todo[1]
<1>1. /\ todo # <<>> /\ 1 \in Todo /\ w \in Writes /\ Perform(w) /\ Current \in Runs
      /\ \A i \in 1 .. Len(todo') : i + 1 \in Todo /\ todo'[i] = todo[i + 1]
      /\ \A j \in Todo : j > 1 => j - 1 \in 1 .. Len(todo') /\ todo'[j - 1] = todo[j]
  BY <1>0, WriteEffect
<1>2. \A i \in Todo : IsPublish(todo[i]) => todo[i].run = Current
  BY <1>0, <1>1 DEF HandlerFits, Orderly, WriteRun, IsPublish, Todo
<1>3. Todo \subseteq Int /\ \A i \in Todo : i = 1 \/ i > 1 BY DEF Todo
<1>4. ~IsPublish(w) => feed' = feed BY <1>1 DEF Perform, IsPublish
<1>5. IsPublish(w) =>
        /\ w.event \in Events /\ Opening(todo, 1)
        /\ \A r \in Runs : Stage(r)' = IF r = Current THEN w.event.kind ELSE Stage(r)
  <2>1. SUFFICES ASSUME IsPublish(w)
                 PROVE  /\ w.event \in Events /\ Opening(todo, 1)
                        /\ \A r \in Runs :
                              Stage(r)' = IF r = Current THEN w.event.kind ELSE Stage(r)
    OBVIOUS
  <2>2. w.event \in Events /\ feed' = [feed EXCEPT ![Current] = Append(@, w.event)]
    BY <1>1, <1>2, <2>1, WriteFields DEF Perform, IsPublish
  <2>3. PICK c \in Runs : c = Current BY <1>1
  <2>4. /\ \A q \in Runs : q # c => feed'[q] = feed[q]
        /\ feed'[c] # <<>> /\ feed'[c][Len(feed'[c])] = w.event
    BY <1>0, <2>2, <2>3, PublishEffect
  <2>5. \A q \in Runs : q # c => Stage(q)' = Stage(q) BY <2>4 DEF Stage
  <2>6. Stage(c)' = w.event.kind BY <2>4 DEF Stage
  <2>7. Opening(todo, 1) BY <1>1, <2>1 DEF Opening, Todo
  <2>8. QED BY <2>2, <2>3, <2>5, <2>6, <2>7
<1>6. ASSUME NEW r \in Runs, NEW k, Heads(r, k)' PROVE Heads(r, k)
  <2>1. CASE \E i \in 1 .. Len(todo') :
                Closing(todo', i) /\ todo'[i].run = r /\ todo'[i].event.kind = k
    <3>1. PICK i \in 1 .. Len(todo') :
                 Closing(todo', i) /\ todo'[i].run = r /\ todo'[i].event.kind = k
      BY <2>1
    <3>2. i + 1 \in Todo /\ todo'[i] = todo[i + 1] BY <1>1
    <3>3. ASSUME NEW j \in Todo, j > i + 1 PROVE ~IsPublish(todo[j])
      <4>1. j > 1 /\ j - 1 > i BY <1>3, <3>3
      <4>2. j - 1 \in 1 .. Len(todo') /\ todo'[j - 1] = todo[j] BY <1>1, <4>1
      <4>3. QED BY <3>1, <4>1, <4>2 DEF Closing
    <3>4. Closing(todo, i + 1) BY <3>1, <3>2, <3>3 DEF Closing, Todo
    <3>5. QED BY <3>1, <3>2, <3>4 DEF Heads
  <2>2. CASE /\ Stage(r)' = k
             /\ \A i \in 1 .. Len(todo') : ~(IsPublish(todo'[i]) /\ todo'[i].run = r)
    <3>1. \A j \in Todo : j > 1 => ~(IsPublish(todo[j]) /\ todo[j].run = r)
      BY <1>1, <2>2
    <3>2. CASE IsPublish(w) /\ r = Current
      <4>1. w.event.kind = k BY <1>5, <2>2, <3>2
      <4>2. \A j \in Todo : j > 1 => ~IsPublish(todo[j]) BY <1>2, <3>1, <3>2
      <4>3. Closing(todo, 1) BY <3>2, <4>2 DEF Closing, Todo
      <4>4. w.run = r BY <1>1, <1>2, <3>2
      <4>5. QED BY <1>1, <4>1, <4>3, <4>4 DEF Heads
    <3>3. CASE ~(IsPublish(w) /\ r = Current)
      <4>1. Stage(r)' = Stage(r)
        <5>1. CASE IsPublish(w) BY <1>5, <3>3, <5>1
        <5>2. CASE ~IsPublish(w) BY <1>4, <5>2 DEF Stage
        <5>3. QED BY <5>1, <5>2
      <4>2. \A j \in Todo : ~(IsPublish(todo[j]) /\ todo[j].run = r)
        BY <1>1, <1>2, <1>3, <3>1, <3>3
      <4>3. QED BY <2>2, <4>1, <4>2 DEF Heads
    <3>4. QED BY <3>2, <3>3
  <2>3. QED BY <1>6, <2>1, <2>2 DEF Heads, Todo
<1>7. QED BY <1>4, <1>5, <1>6

(* What is not claimed yet is in work; what is answered was claimed before.  *)
LEMMA UnclaimedInWork ==
    ASSUME EngineInv
    PROVE  /\ \A a \in ActionId : Unclaimed(a) => InWork(a)
           /\ \A a \in ActionId : executing = a => ~Queued(a)
           /\ \A a \in ActionId : Answered(a) => ~Queued(a) /\ executing # a
<1>1. \A a \in ActionId : Announced(a) => InWork(a)
  BY DEF EngineInv, ClaimsAnswered, Announced, InWork, Answered
<1>2. \A a \in ActionId : a # NoAction BY WriteTypes
<1>3. QED BY <1>1, <1>2 DEF EngineInv, OneByRun, Unclaimed, InWork

LEMMA HandledWasClaimed ==
    ASSUME EngineInv, HandleUpdate, IsAnswer(Head(updates))
    PROVE  ~Unclaimed(Head(updates).action)
<1> DEFINE u == Head(updates)
<1>1. /\ u.action \in ActionId /\ u = updates[1] /\ 1 \in 1 .. Len(updates)
      /\ Answered(u.action)
  BY UpdateInWork DEF EngineInv, IsAnswer
<1>2. PICK a \in ActionId : a = u.action BY <1>1
<1>3. ~Queued(a) /\ executing # a BY <1>1, <1>2, UnclaimedInWork
<1>4. ASSUME NEW i \in 1 .. Len(updates), ~IsAnswer(updates[i]), updates[i].action = a
      PROVE  FALSE
  <2>1. PICK j \in 1 .. Len(updates) :
               j > i /\ IsAnswer(updates[j]) /\ updates[j].action = a
    BY <1>3, <1>4 DEF EngineInv, ClaimsAnswered
  <2>2. j = 1 BY <1>1, <1>2, <2>1 DEF EngineInv, OneByRun
  <2>3. QED BY <2>1, <2>2
<1>5. ~Unclaimed(a) BY <1>3, <1>4 DEF Unclaimed, Announced
<1>6. QED BY <1>2, <1>5

(***************************************************************************)
(* The events stay in order                                                *)
(***************************************************************************)
LEMMA BeginEventFits ==
    ASSUME EngineInv, EventFits, cause = Idle,
           UNCHANGED <<feed, crashes, faults, unrecovered>>,
           NEW c \in Runs, NEW d, NEW x, Handler(todo', c, d, x), RunOf(cause'.action) = c,
           faults = 0 =>
             /\ Chained(todo')
             /\ \A i \in 1 .. Len(todo') :
                   Opening(todo', i) => MayFollow(Stage(c), todo'[i].event.kind)
             /\ \A a \in ActionId : RunOf(a) # c =>
                   /\ Unclaimed(a)' => Unclaimed(a)
                   /\ InWork(a)' /\ ~Unclaimed(a)' => InWork(a) /\ ~Unclaimed(a)
             /\ \A a \in ActionId : RunOf(a) = c =>
                   /\ ~Unclaimed(a)'
                   /\ InWork(a)' \/ Due(a)' => \E i \in 1 .. Len(todo') : IsPublish(todo'[i])
                   /\ InWork(a)' => \A i \in 1 .. Len(todo') :
                         Closing(todo', i) => todo'[i].event.kind = "ActionClaimed"
                   /\ Due(a)' => \A i \in 1 .. Len(todo') :
                         Closing(todo', i) => todo'[i].event.kind = "ActionEnqueued"
    PROVE  EventFits'
<1>1. /\ \A r, k : r # c /\ Heads(r, k)' => Heads(r, k)
      /\ \A k : (\E i \in 1 .. Len(todo') : IsPublish(todo'[i])) /\ Heads(c, k)' =>
            \E i \in 1 .. Len(todo') : Closing(todo', i) /\ todo'[i].event.kind = k
  BY BeginHeads
<1>2. \A i \in 1 .. Len(todo') : WriteRun(todo'[i]) = c BY DEF Handler, Orderly
<1>3. SUFFICES ASSUME faults = 0 PROVE EventFits' BY DEF EventFits
<1>4. \A k, l : MayFollow(k, l)' <=> MayFollow(k, l) BY DEF MayFollow, Claimable
<1>5. \A i \in 1 .. Len(todo') :
         Opening(todo', i) => MayFollow(Stage(Current), todo[i].event.kind)'
  <2>1. SUFFICES ASSUME NEW i \in 1 .. Len(todo'), Opening(todo', i)
                 PROVE  MayFollow(Stage(Current), todo[i].event.kind)'
    OBVIOUS
  <2>2. MayFollow(Stage(c), todo'[i].event.kind) BY <1>3, <2>1
  <2>3. QED BY <2>2 DEF MayFollow, Claimable, Stage, Current
<1>6. ASSUME NEW a \in ActionId, NEW k \in Stages, Heads(RunOf(a), k)'
      PROVE  /\ Unclaimed(a)' => Claimable(k)'
             /\ InWork(a)' /\ ~Unclaimed(a)' => k = "ActionClaimed"
             /\ Due(a)' => k = "ActionEnqueued"
  <2>1. CASE RunOf(a) # c
    <3>1. Heads(RunOf(a), k) BY <1>1, <1>6, <2>1
    <3>2. ~Due(a)' BY <1>2, <2>1 DEF Due, Todo, WriteRun, Enqueue
    <3>3. QED BY <1>3, <2>1, <3>1, <3>2 DEF EventFits, Claimable
  <2>2. CASE RunOf(a) = c
    <3>1. InWork(a)' \/ Due(a)' =>
             \E i \in 1 .. Len(todo') : Closing(todo', i) /\ todo'[i].event.kind = k
      BY <1>1, <1>3, <1>6, <2>2
    <3>2. QED BY <1>3, <2>2, <3>1
  <2>3. QED BY <2>1, <2>2
<1>7. QED BY <1>3, <1>5, <1>6 DEF EventFits, Todo

LEMMA SubmitEventFits ==
    ASSUME EngineInv, LogFits, EventFits, HandleSubmit
    PROVE  EventFits'
<1>1. PICK r \in Runs : r = Head(commands) BY SubmitPrograms DEF EngineInv
<1>2. PICK x \in ActionId \cup {NoAction} :
            /\ Handler(todo', r, <<r, 0>>, x)
            /\ \/ \E n : Stepwise(todo', n, r, NoAction, x)
               \/ todo' = <<Reply(r, "Err")>>
  BY <1>1, SubmitPrograms DEF EngineInv
<1>3. /\ cause = Idle /\ UNCHANGED <<store, feed, crashes, faults, unrecovered, worker>>
      /\ RunOf(cause'.action) = r
  <2>1. cause' = Submission(r) BY <1>1, SubmitPrograms DEF EngineInv
  <2>2. QED BY <2>1 DEF HandleSubmit, Ready, Begin, bounds, Submission, RunOf
<1>4. store[r] = Unknown
  <2>1. commands # <<>> /\ commands \in Seq(Runs) BY DEF HandleSubmit, EngineInv, TypeOK
  <2>2. r = commands[1] /\ 1 \in 1 .. Len(commands) BY <1>1, <2>1, TailElements
  <2>3. QED BY <2>2 DEF EngineInv, CommandsFit
<1>5. Stage(r) = "None" BY <1>4 DEF LogFits, EndFits, Stage
<1>6. \A a \in ActionId : /\ InWork(a)' <=> InWork(a)
                          /\ Unclaimed(a)' <=> Unclaimed(a)
  <2>1. \A a \in ActionId : (InWork(a)' <=> InWork(a)) /\ (Queued(a)' <=> Queued(a))
    BY <1>3, WorkKept
  <2>2. updates' = updates BY <1>3 DEF worker
  <2>3. QED BY <2>1, <2>2 DEF Unclaimed, Announced
<1>7. \A a \in ActionId : RunOf(a) = r => ~InWork(a)
  BY <1>4, SessionFields DEF EngineInv, WorkFits
<1>8. \A a \in ActionId : RunOf(a) = r => ~Unclaimed(a) BY <1>7, UnclaimedInWork
<1>9. /\ Chained(todo')
      /\ \A i \in 1 .. Len(todo') : Opening(todo', i) => todo'[i].event.kind = "RunSubmitted"
      /\ \A a \in ActionId : Due(a)' =>
            /\ \E i \in 1 .. Len(todo') : IsPublish(todo'[i])
            /\ \A i \in 1 .. Len(todo') :
                  Closing(todo', i) => todo'[i].event.kind = "ActionEnqueued"
  <2>1. CASE \E n : Stepwise(todo', n, r, NoAction, x)
    <3>1. PICK n : Stepwise(todo', n, r, NoAction, x) BY <2>1
    <3>2. /\ Chained(todo')
          /\ \A i \in 1 .. Len(todo') : Opening(todo', i) => todo'[i].event.kind = "RunSubmitted"
          /\ x # NoAction => \A i \in 1 .. Len(todo') :
                Closing(todo', i) => todo'[i].event.kind = "ActionEnqueued"
          /\ n - 1 \in 1 .. Len(todo') /\ IsPublish(todo'[n - 1])
      BY <3>1, StepEvents
    <3>3. ASSUME NEW a \in ActionId, Due(a)' PROVE x # NoAction
      <4>1. PICK i \in 1 .. Len(todo') : todo'[i] = Enqueue(a) BY <3>3 DEF Due, Todo
      <4>2. todo'[i].op = "Enqueue" /\ todo'[i].action = a BY <4>1 DEF Enqueue
      <4>3. x = a BY <1>2, <4>2 DEF Handler
      <4>4. QED BY <4>3, WriteTypes
    <3>4. QED BY <3>2, <3>3
  <2>2. CASE todo' = <<Reply(r, "Err")>>
    <3>1. Len(todo') = 1 /\ todo'[1] = Reply(r, "Err") BY <2>2
    <3>2. \A i \in 1 .. Len(todo') : i = 1 /\ todo'[i].op = "Reply" BY <3>1 DEF Reply
    <3>3. \A i \in 1 .. Len(todo') : ~IsPublish(todo'[i]) BY <3>2 DEF IsPublish
    <3>4. \A a \in ActionId : ~Due(a)' BY <3>2 DEF Due, Todo, Enqueue
    <3>5. QED BY <3>3, <3>4 DEF Chained, Opening
  <2>3. QED BY <1>2, <2>1, <2>2
<1>10. \A i \in 1 .. Len(todo') :
          Opening(todo', i) => MayFollow(Stage(r), todo'[i].event.kind)
  BY <1>5, <1>9, Orders DEF MayFollow
<1>11. QED BY <1>2, <1>3, <1>6, <1>7, <1>8, <1>9, <1>10, BeginEventFits

LEMMA UpdateEventFits ==
    ASSUME EngineInv, EventFits, HandleUpdate
    PROVE  EventFits'
<1> DEFINE u == Head(updates)
<1>1. /\ cause = Idle
      /\ UNCHANGED <<store, feed, crashes, faults, unrecovered, actionQueue, executing>>
      /\ u \in Updates /\ u.action \in ActionId /\ cause' = u /\ InWork(u.action)
      /\ u = updates[1] /\ 1 \in 1 .. Len(updates)
      /\ \A i \in 1 .. Len(updates') : i + 1 \in 1 .. Len(updates) /\ updates'[i] = updates[i + 1]
      /\ \A j \in 1 .. Len(updates) : j > 1 =>
            j - 1 \in 1 .. Len(updates') /\ updates'[j - 1] = updates[j]
  BY UpdateEffect DEF EngineInv, HandleUpdate, Ready
<1>2. PICK a \in ActionId : a = u.action BY <1>1
<1>3. PICK r \in Runs : r = RunOf(a) BY WriteTypes
<1>4. /\ \A b \in ActionId : InWork(b)' => InWork(b)
      /\ \A b \in ActionId : InWork(b)' /\ IsAnswer(u) => RunOf(b) # r
  BY <1>2, <1>3, InWorkEffect
<1>5. \A b \in ActionId : Queued(b)' <=> Queued(b) BY <1>1 DEF Queued
<1>6. \A b \in ActionId : /\ Announced(b)' => Announced(b)
                          /\ Announced(b) => Announced(b)' \/ (b = a /\ ~IsAnswer(u))
  <2>1. \A b \in ActionId : Announced(b)' => Announced(b) BY <1>1 DEF Announced
  <2>2. ASSUME NEW b \in ActionId, NEW i \in 1 .. Len(updates), ~IsAnswer(updates[i]),
               updates[i].action = b
        PROVE  Announced(b)' \/ (b = a /\ ~IsAnswer(u))
    <3>1. CASE i = 1 BY <1>1, <1>2, <2>2, <3>1
    <3>2. CASE i > 1 BY <1>1, <2>2, <3>2 DEF Announced
    <3>3. QED BY <3>1, <3>2
  <2>3. QED BY <2>1, <2>2 DEF Announced
<1>7. \A b \in ActionId : RunOf(b) # r =>
         /\ Unclaimed(b)' => Unclaimed(b)
         /\ InWork(b)' /\ ~Unclaimed(b)' => InWork(b) /\ ~Unclaimed(b)
  BY <1>3, <1>4, <1>5, <1>6 DEF Unclaimed
<1>8. EngineInv' BY EngineInvStep DEF Next, EngineStep
<1>9. \A b \in ActionId : Unclaimed(b)' => InWork(b)'
  BY <1>8 DEF EngineInv, ClaimsAnswered, Announced, InWork, Answered, Unclaimed
<1>10. Stage(r) \in Stages /\ Heads(r, Stage(r))
  <2>1. todo = <<>> /\ Todo = {} BY <1>1, IdleTodo
  <2>2. QED BY <2>1, StageType DEF EngineInv, Heads
<1>11. PICK x \in ActionId \cup {NoAction} :
             /\ Handler(todo', r, a, x)
             /\ \/ IsAnswer(u) /\ \E n : Stepwise(todo', n, r, a, x)
                \/ IsAnswer(u) /\ todo' = FailAction(a, u.kind = "Completed")
                \/ ~IsAnswer(u) /\ todo' = <<Publish(r, "ActionClaimed", a)>>
  BY <1>2, <1>3, UpdateBegins DEF EngineInv, IsAnswer
<1>12. RunOf(cause'.action) = r BY <1>1, <1>2, <1>3
<1>13. CASE IsAnswer(u)
  <2>1. ~Unclaimed(a) BY <1>2, <1>13, HandledWasClaimed
  <2>2. faults = 0 => Stage(r) = "ActionClaimed"
    BY <1>1, <1>2, <1>3, <1>10, <2>1 DEF EventFits
  <2>3. /\ Chained(todo')
        /\ \A i \in 1 .. Len(todo') : Opening(todo', i) =>
              todo'[i].event.kind \in {"ActionCompleted", "ActionFailed"}
        /\ \A b \in ActionId : Due(b)' =>
              /\ \E i \in 1 .. Len(todo') : IsPublish(todo'[i])
              /\ \A i \in 1 .. Len(todo') :
                    Closing(todo', i) => todo'[i].event.kind = "ActionEnqueued"
    <3>1. CASE \E n : Stepwise(todo', n, r, a, x)
      <4>1. PICK n : Stepwise(todo', n, r, a, x) BY <3>1
      <4>2. a # NoAction BY WriteTypes
      <4>3. /\ Chained(todo')
            /\ \A i \in 1 .. Len(todo') :
                  Opening(todo', i) => todo'[i].event.kind = "ActionCompleted"
            /\ x # NoAction => \A i \in 1 .. Len(todo') :
                  Closing(todo', i) => todo'[i].event.kind = "ActionEnqueued"
            /\ n - 1 \in 1 .. Len(todo') /\ IsPublish(todo'[n - 1])
        BY <4>1, <4>2, StepEvents
      <4>4. ASSUME NEW b \in ActionId, Due(b)' PROVE x # NoAction
        <5>1. PICK i \in 1 .. Len(todo') : todo'[i] = Enqueue(b) BY <4>4 DEF Due, Todo
        <5>2. todo'[i].op = "Enqueue" /\ todo'[i].action = b BY <5>1 DEF Enqueue
        <5>3. x = b BY <1>11, <5>2 DEF Handler
        <5>4. QED BY <5>3, WriteTypes
      <4>5. QED BY <4>3, <4>4
    <3>2. CASE todo' = FailAction(a, u.kind = "Completed")
      <4>1. (u.kind = "Completed") \in BOOLEAN OBVIOUS
      <4>2. /\ Chained(todo')
            /\ \A i \in 1 .. Len(todo') :
                  Opening(todo', i) => todo'[i].event.kind = "ActionFailed"
        BY <3>2, <4>1, FailActionEvents
      <4>3. \A i \in 1 .. Len(todo') : todo'[i].op # "Enqueue"
        <5>1. /\ Len(todo') = 5
              /\ todo'[1] \in {SaveAction(a, "Failed"), Publish(RunOf(a), "ActionFailed", a)}
              /\ todo'[2] \in {SaveAction(a, "Failed"), Publish(RunOf(a), "ActionFailed", a)}
              /\ todo'[3] = SaveRun(RunOf(a), Failed)
              /\ todo'[4] = Publish(RunOf(a), "RunFailed", NoAction)
              /\ todo'[5] = RecordStatus(RunOf(a), Failed)
          BY <3>2, <4>1, FailActionElements
        <5>2. \A i \in 1 .. Len(todo') : i \in {1, 2, 3, 4, 5} BY <5>1
        <5>3. QED BY <5>1, <5>2 DEF SaveAction, Publish, SaveRun, RecordStatus
      <4>4. \A b \in ActionId : ~Due(b)' BY <4>3 DEF Due, Todo, Enqueue
      <4>5. QED BY <4>2, <4>4
    <3>3. QED BY <1>11, <1>13, <3>1, <3>2
  <2>4. \A b \in ActionId : RunOf(b) = r => ~InWork(b)' /\ ~Unclaimed(b)'
    BY <1>4, <1>9, <1>13
  <2>5. faults = 0 => \A i \in 1 .. Len(todo') :
           Opening(todo', i) => MayFollow(Stage(r), todo'[i].event.kind)
    BY <2>2, <2>3, Orders DEF MayFollow
  <2>6. QED BY <1>1, <1>7, <1>11, <1>12, <2>3, <2>4, <2>5, BeginEventFits
<1>14. CASE ~IsAnswer(u)
  <2>1. Announced(a) BY <1>1, <1>2, <1>14 DEF Announced
  <2>2. faults = 0 => Claimable(Stage(r)) BY <1>3, <1>10, <2>1 DEF EventFits, Unclaimed
  <2>3. Len(todo') = 1 /\ todo'[1] = Publish(r, "ActionClaimed", a) BY <1>11, <1>14
  <2>4. \A i \in 1 .. Len(todo') : i = 1 BY <2>3
  <2>5. 1 \in 1 .. Len(todo') BY <2>3
  <2>6. /\ todo'[1].event.kind = "ActionClaimed" /\ todo'[1].op = "Publish"
        /\ IsPublish(todo'[1])
    BY <2>3 DEF Publish, IsPublish
  <2>7. Chained(todo') BY <2>4 DEF Chained
  <2>8. \A b \in ActionId : ~Due(b)' BY <2>4, <2>6 DEF Due, Todo, Enqueue
  <2>9. \A i \in 1 .. Len(todo') :
           /\ Opening(todo', i) => todo'[i].event.kind = "ActionClaimed"
           /\ Closing(todo', i) => todo'[i].event.kind = "ActionClaimed"
    BY <2>4, <2>6
  <2>10. executing = a \/ Answered(a)
    BY <1>1, <1>2, <1>14 DEF EngineInv, ClaimsAnswered, Answered
  <2>11. ~Queued(a) BY <2>10, UnclaimedInWork
  <2>12. ~Announced(a)'
    <3>1. SUFFICES ASSUME NEW i \in 1 .. Len(updates'), ~IsAnswer(updates'[i]),
                          updates'[i].action = a
                   PROVE  FALSE
      BY DEF Announced
    <3>2. i + 1 \in 1 .. Len(updates) /\ updates[i + 1] = updates'[i] BY <1>1
    <3>3. i + 1 = 1 BY <1>1, <1>2, <1>14, <3>1, <3>2 DEF EngineInv, ClaimsAnswered
    <3>4. QED BY <3>3
  <2>13. ASSUME faults = 0, NEW b \in ActionId, RunOf(b) = r, InWork(b)' PROVE b = a
    <3>1. InWork(b) /\ InWork(a) BY <1>1, <1>2, <1>4, <2>13
    <3>2. store[r] = Waiting(b) /\ store[r] = Waiting(a)
      BY <1>3, <2>13, <3>1 DEF EngineInv, WorkFits
    <3>3. QED BY <3>2, SessionFields
  <2>14. faults = 0 => \A b \in ActionId : RunOf(b) = r => ~Unclaimed(b)'
    BY <1>5, <1>9, <2>11, <2>12, <2>13 DEF Unclaimed
  <2>15. faults = 0 => \A i \in 1 .. Len(todo') :
            Opening(todo', i) => MayFollow(Stage(r), todo'[i].event.kind)
    BY <2>2, <2>9 DEF MayFollow
  <2>16. QED
    BY <1>1, <1>7, <1>11, <1>12, <2>5, <2>6, <2>7, <2>8, <2>9, <2>14, <2>15, BeginEventFits
<1>15. QED BY <1>13, <1>14

LEMMA WriteEventFits ==
    ASSUME EngineInv, EventFits, Write
    PROVE  EventFits'
<1>0. TypeOK /\ HandlerFits BY DEF EngineInv
<1> DEFINE w == todo[1]
<1>1. /\ todo # <<>> /\ 1 \in Todo /\ w \in Writes /\ Perform(w) /\ Current \in Runs
      /\ \A i \in 1 .. Len(todo') : i + 1 \in Todo /\ todo'[i] = todo[i + 1]
      /\ \A j \in Todo : j > 1 => j - 1 \in 1 .. Len(todo') /\ todo'[j - 1] = todo[j]
      /\ todo' # <<>> => cause' = cause
      /\ UNCHANGED <<unrecovered, executing, updates, crashes, faults>>
  BY <1>0, WriteEffect
<1>2. /\ \A r \in Runs : \A k : Heads(r, k)' => Heads(r, k)
      /\ ~IsPublish(w) => feed' = feed
      /\ IsPublish(w) =>
            /\ \A r \in Runs : Stage(r)' = IF r = Current THEN w.event.kind ELSE Stage(r)
            /\ Opening(todo, 1)
  BY WriteHeads
<1>3. SUFFICES ASSUME faults = 0 PROVE EventFits' BY <1>1 DEF EventFits
<1>4. PICK c \in Runs : c = Current BY <1>1
<1>5. /\ Chained(todo)
      /\ \A i \in Todo : Opening(todo, i) => MayFollow(Stage(c), todo[i].event.kind)
      /\ \A a \in ActionId, k \in Stages : Heads(RunOf(a), k) =>
            /\ Unclaimed(a) => Claimable(k)
            /\ InWork(a) /\ ~Unclaimed(a) => k = "ActionClaimed"
            /\ Due(a) => k = "ActionEnqueued"
  BY <1>3, <1>4 DEF EventFits
<1>6. Todo \subseteq Int /\ \A i \in Todo : i = 1 \/ i > 1 BY DEF Todo
<1>7. Chained(todo')
  <2>1. SUFFICES ASSUME NEW i \in 1 .. Len(todo'), NEW j \in 1 .. Len(todo'), i < j,
                        IsPublish(todo'[i]), IsPublish(todo'[j]),
                        \A m \in 1 .. Len(todo') : i < m /\ m < j => ~IsPublish(todo'[m])
                 PROVE  Follows(todo'[i].event.kind, todo'[j].event.kind)
    BY DEF Chained
  <2>2. /\ i + 1 \in Todo /\ todo'[i] = todo[i + 1]
        /\ j + 1 \in Todo /\ todo'[j] = todo[j + 1] /\ i + 1 < j + 1
    BY <1>1, <2>1
  <2>3. ASSUME NEW m \in Todo, i + 1 < m, m < j + 1 PROVE ~IsPublish(todo[m])
    <3>1. m > 1 /\ i < m - 1 /\ m - 1 < j BY <1>6, <2>3
    <3>2. m - 1 \in 1 .. Len(todo') /\ todo'[m - 1] = todo[m] BY <1>1, <3>1
    <3>3. QED BY <2>1, <3>1, <3>2
  <2>4. QED BY <1>5, <2>1, <2>2, <2>3 DEF Chained, Todo
<1>8. ASSUME NEW i \in 1 .. Len(todo'), Opening(todo', i)
      PROVE  MayFollow(Stage(Current), todo[i].event.kind)'
  <2>1. i + 1 \in Todo /\ todo'[i] = todo[i + 1] /\ IsPublish(todo[i + 1])
    BY <1>1, <1>8 DEF Opening
  <2>2. ASSUME NEW m \in Todo, 1 < m, m < i + 1 PROVE ~IsPublish(todo[m])
    <3>1. m - 1 < i BY <1>6, <2>2
    <3>2. m - 1 \in 1 .. Len(todo') /\ todo'[m - 1] = todo[m] BY <1>1, <2>2
    <3>3. QED BY <1>8, <3>1, <3>2 DEF Opening
  <2>3. Current' = c
    <3>1. todo' # <<>> BY EmptySeq
    <3>2. QED BY <1>1, <1>4, <3>1 DEF Current
  <2>4. MayFollow(Stage(c)', todo[i + 1].event.kind)
    <3>1. CASE IsPublish(w)
      <4>1. Follows(w.event.kind, todo[i + 1].event.kind)
        <5>1. 1 < i + 1 OBVIOUS
        <5>2. \A m \in Todo : 1 < m /\ m < i + 1 => ~IsPublish(todo[m]) BY <2>2
        <5>3. QED BY <1>1, <1>5, <2>1, <3>1, <5>1, <5>2 DEF Chained, Todo
      <4>2. Stage(c)' = w.event.kind BY <1>2, <1>4, <3>1
      <4>3. QED BY <4>1, <4>2 DEF MayFollow
    <3>2. CASE ~IsPublish(w)
      <4>1. Stage(c)' = Stage(c) BY <1>2, <3>2 DEF Stage
      <4>2. Opening(todo, i + 1) BY <1>6, <2>1, <2>2, <3>2 DEF Opening, Todo
      <4>3. QED BY <1>5, <2>1, <4>1, <4>2
    <3>3. QED BY <3>1, <3>2
  <2>5. QED BY <1>1, <2>1, <2>3, <2>4 DEF MayFollow, Claimable, Stage
<1>9. /\ w.op # "Enqueue" => actionQueue' = actionQueue
      /\ w.op = "Enqueue" =>
            actionQueue' = Append(actionQueue, w.action) /\ w.action \in ActionId /\ Due(w.action)
  BY WriteWork
<1>10. \A a \in ActionId :
          /\ Queued(a) => Queued(a)'
          /\ Queued(a)' => Queued(a) \/ Due(a)
          /\ Due(a)' => Due(a)
  <2>1. \A a \in ActionId : Due(a)' => Due(a) BY <1>1 DEF Due, Todo
  <2>2. CASE w.op # "Enqueue" BY <1>9, <2>1, <2>2 DEF Queued
  <2>3. CASE w.op = "Enqueue"
    <3>1. PICK b \in ActionId : b = w.action /\ Due(b) BY <1>9, <2>3
    <3>2. \A a \in ActionId : Queued(a)' <=> (Queued(a) \/ a = b)
      BY <1>0, <1>9, <2>3, <3>1, EnqueueEffect
    <3>3. QED BY <2>1, <3>1, <3>2
  <2>4. QED BY <2>2, <2>3
<1>11. \A a \in ActionId : (Announced(a)' <=> Announced(a)) /\ (Answered(a)' <=> Answered(a))
  BY <1>1 DEF Announced, Answered
<1>12. ASSUME NEW a \in ActionId, NEW k \in Stages, Heads(RunOf(a), k)'
       PROVE  /\ Unclaimed(a)' => Claimable(k)'
              /\ InWork(a)' /\ ~Unclaimed(a)' => k = "ActionClaimed"
              /\ Due(a)' => k = "ActionEnqueued"
  <2>1. RunOf(a) \in Runs BY WriteTypes
  <2>2. Heads(RunOf(a), k) BY <1>2, <1>12, <2>1
  <2>3. /\ Unclaimed(a) => Claimable(k)
        /\ InWork(a) /\ ~Unclaimed(a) => k = "ActionClaimed"
        /\ Due(a) => k = "ActionEnqueued"
    BY <1>5, <2>2
  <2>4. Unclaimed(a)' => Unclaimed(a) \/ Due(a) BY <1>10, <1>11 DEF Unclaimed
  <2>5. Claimable(k)' <=> Claimable(k) BY <1>1 DEF Claimable
  <2>6. Due(a) => Claimable(k) BY <2>3 DEF Claimable
  <2>7. ~Unclaimed(a)' => ~Unclaimed(a) BY <1>10, <1>11 DEF Unclaimed
  <2>8. InWork(a)' /\ ~Unclaimed(a)' => InWork(a)
    BY <1>1, <1>11 DEF InWork, Unclaimed
  <2>9. QED BY <1>10, <2>3, <2>4, <2>5, <2>6, <2>7, <2>8
<1>13. QED BY <1>1, <1>7, <1>8, <1>12, <1>3, <1>5 DEF EventFits, Todo

(* Nothing but the worker's queues changes: what is in work is so still, and *)
(* no claim is lost or made up.                                              *)
LEMMA WorkerEventFits ==
    ASSUME EventFits, UNCHANGED <<todo, cause, feed, crashes, faults>>,
           unrecovered' \subseteq unrecovered,
           \A a \in ActionId : /\ Unclaimed(a)' => Unclaimed(a)
                               /\ InWork(a)' /\ ~Unclaimed(a)' => InWork(a) /\ ~Unclaimed(a)
    PROVE  EventFits'
<1>1. SUFFICES ASSUME faults = 0 PROVE EventFits' BY DEF EventFits
<1>2. \A r, k : Heads(r, k)' <=> Heads(r, k) BY HeadsKept
<1>3. \A i \in Todo : Opening(todo, i) => MayFollow(Stage(Current), todo[i].event.kind)
  BY <1>1 DEF EventFits
<1>4. \A i \in Todo' : Opening(todo', i) => MayFollow(Stage(Current), todo[i].event.kind)'
  BY <1>3 DEF MayFollow, Claimable, Stage, Current, Todo
<1>5. ASSUME NEW a \in ActionId, NEW k \in Stages, Heads(RunOf(a), k)'
      PROVE  /\ Unclaimed(a)' => Claimable(k)'
             /\ InWork(a)' /\ ~Unclaimed(a)' => k = "ActionClaimed"
             /\ Due(a)' => k = "ActionEnqueued"
  BY <1>1, <1>2, <1>5 DEF EventFits, Claimable, Due, Todo
<1>6. QED BY <1>1, <1>4, <1>5 DEF EventFits

LEMMA ClaimEventFits ==
    ASSUME EngineInv, EventFits, Claim
    PROVE  EventFits'
<1>1. PICK h \in ActionId : h = executing' BY ClaimEffect DEF EngineInv
<1>2. /\ Queued(h) /\ executing = NoAction
      /\ \A a \in ActionId :
           /\ Queued(a)' => Queued(a)
           /\ Queued(a) => Queued(a)' \/ a = h
      /\ updates'[Len(updates) + 1].action = h /\ ~IsAnswer(updates'[Len(updates) + 1])
      /\ Len(updates') = Len(updates) + 1 /\ Len(updates) \in Nat
      /\ \A i \in 1 .. Len(updates) : i \in 1 .. Len(updates') /\ updates'[i] = updates[i]
      /\ \A i \in 1 .. Len(updates') : i \in 1 .. Len(updates) \/ i = Len(updates) + 1
      /\ UNCHANGED <<durable, engine, bounds>>
  <2>1. Queued(h)
    <3>1. actionQueue # <<>> /\ h = Head(actionQueue) /\ actionQueue \in Seq(ActionId)
      BY <1>1 DEF Claim, EngineInv, TypeOK
    <3>2. h = actionQueue[1] /\ 1 \in 1 .. Len(actionQueue) BY <3>1, TailElements
    <3>3. QED BY <3>2 DEF Queued
  <2>2. QED BY <1>1, <2>1, ClaimEffect DEF EngineInv
<1>3. /\ Announced(h)'
      /\ \A a \in ActionId : /\ Announced(a)' => Announced(a) \/ a = h
                             /\ Announced(a) => Announced(a)'
  BY <1>2 DEF Announced
<1>4. \A a \in ActionId : Unclaimed(a)' <=> Unclaimed(a) BY <1>2, <1>3 DEF Unclaimed
<1>5. \A a \in ActionId : InWork(a)' <=> InWork(a) BY InWorkEffect
<1>6. QED BY <1>2, <1>4, <1>5, WorkerEventFits DEF durable, engine, bounds

LEMMA ExecuteEventFits ==
    ASSUME EngineInv, EventFits, Execute
    PROVE  EventFits'
<1>1. /\ \A a \in ActionId : Queued(a)' <=> Queued(a)
      /\ IsAnswer(updates'[Len(updates) + 1])
      /\ \A i \in 1 .. Len(updates) : i \in 1 .. Len(updates') /\ updates'[i] = updates[i]
      /\ \A i \in 1 .. Len(updates') : i \in 1 .. Len(updates) \/ i = Len(updates) + 1
      /\ UNCHANGED <<durable, engine, bounds>>
  BY ExecuteEffect DEF EngineInv
<1>2. \A a \in ActionId : Announced(a)' <=> Announced(a) BY <1>1 DEF Announced
<1>3. \A a \in ActionId : Unclaimed(a)' <=> Unclaimed(a) BY <1>1, <1>2 DEF Unclaimed
<1>4. \A a \in ActionId : InWork(a)' <=> InWork(a) BY InWorkEffect
<1>5. QED BY <1>1, <1>3, <1>4, WorkerEventFits DEF durable, engine, bounds

(* Recovery enqueues only after a crash, and only for runs that are not over *)
(* in the log.                                                               *)
LEMMA RecoverEventFits ==
    ASSUME EngineInv, LogFits, EventFits, NEW c \in Runs, RecoverRun(c)
    PROVE  EventFits'
<1>1. /\ phase = "recovering" /\ c \in unrecovered /\ unrecovered' = unrecovered \ {c}
      /\ UNCHANGED <<todo, cause, feed, crashes, faults, executing, updates>>
  BY DEF RecoverRun, durable, bounds
<1>2. \A a \in ActionId : (Announced(a)' <=> Announced(a)) /\ (Answered(a)' <=> Answered(a))
  BY <1>1 DEF Announced, Answered
<1>3. CASE actionQueue' = actionQueue
  <2>1. \A a \in ActionId : Queued(a)' <=> Queued(a) BY <1>3 DEF Queued
  <2>2. \A a \in ActionId : /\ Unclaimed(a)' <=> Unclaimed(a)
                            /\ InWork(a)' <=> InWork(a)
    BY <1>1, <1>2, <2>1 DEF Unclaimed, InWork
  <2>3. QED BY <1>1, <2>2, WorkerEventFits
<1>4. ASSUME NEW b \in ActionId, actionQueue' = Append(actionQueue, b), RunOf(b) = c,
             store[c] = Waiting(b)
      PROVE  EventFits'
  <2>1. SUFFICES ASSUME faults = 0 PROVE EventFits' BY <1>1 DEF EventFits
  <2>2. crashes > 0 BY <1>1 DEF EventFits
  <2>3. Stage(c) \notin TerminalEvents
    <3>1. store[c] \notin Terminal BY <1>4, SessionFields DEF Terminal
    <3>2. ~Notified(c, {"RunCompleted"}) /\ ~Notified(c, {"RunFailed"})
      BY <3>1 DEF LogFits, EndFits, Terminal
    <3>3. ~Notified(c, TerminalEvents) BY <3>2 DEF Notified, TerminalEvents
    <3>4. QED BY <3>3, StageType DEF EngineInv
  <2>4. todo = <<>> /\ Todo = {} BY <1>1, IdleTodo DEF EngineInv, CommandsFit
  <2>5. \A a \in ActionId : Queued(a)' <=> (Queued(a) \/ a = b)
    BY <1>4, EnqueueEffect DEF EngineInv
  <2>6. \A r, k : Heads(r, k)' <=> Heads(r, k) BY <1>1, HeadsKept
  <2>7. \A k : Heads(c, k) => k = Stage(c) BY <2>4 DEF Heads
  <2>8. ASSUME NEW a \in ActionId, NEW k \in Stages, Heads(RunOf(a), k)'
        PROVE  /\ Unclaimed(a)' => Claimable(k)'
               /\ InWork(a)' /\ ~Unclaimed(a)' => k = "ActionClaimed"
               /\ Due(a)' => k = "ActionEnqueued"
    <3>1. CASE a = b
      <4>1. Claimable(k)' BY <1>1, <1>4, <2>2, <2>3, <2>6, <2>7, <2>8, <3>1 DEF Claimable
      <4>2. Unclaimed(a)' BY <2>5, <3>1 DEF Unclaimed
      <4>3. ~Due(a)' BY <1>1, <2>4 DEF Due, Todo
      <4>4. QED BY <4>1, <4>2, <4>3
    <3>2. CASE a # b
      <4>1. (Unclaimed(a)' <=> Unclaimed(a)) /\ (InWork(a)' <=> InWork(a))
        BY <1>1, <1>2, <2>5, <3>2 DEF Unclaimed, InWork
      <4>2. Due(a)' <=> Due(a) BY <1>1 DEF Due, Todo
      <4>3. QED BY <1>1, <2>1, <2>6, <2>8, <4>1, <4>2 DEF EventFits, Claimable
    <3>3. QED BY <3>1, <3>2
  <2>9. Chained(todo') /\ Todo' = {} BY <1>1, <2>1, <2>4 DEF EventFits, Todo
  <2>10. QED BY <1>1, <2>2, <2>8, <2>9 DEF EventFits
<1>5. QED BY <1>3, <1>4, RecoverWork

LEMMA EventStep ==
    ASSUME EngineInv, LogFits, EventFits, [Next]_vars
    PROVE  EventFits'
<1>1. ASSUME UNCHANGED <<todo, cause, feed, crashes, faults, unrecovered, worker>>
      PROVE  EventFits'
  <2>1. \A a \in ActionId : /\ InWork(a)' <=> InWork(a)
                            /\ Queued(a)' <=> Queued(a)
    BY <1>1, WorkKept
  <2>2. \A a \in ActionId : Unclaimed(a)' <=> Unclaimed(a)
    BY <1>1, <2>1 DEF Unclaimed, Announced, worker
  <2>3. QED BY <1>1, <2>1, <2>2, WorkerEventFits
<1>2. CASE \E r \in Runs : Submit(r) BY <1>1, <1>2 DEF Submit, durable, bounds
<1>3. CASE HandleSubmit BY <1>3, SubmitEventFits
<1>4. CASE HandleUpdate BY <1>4, UpdateEventFits
<1>5. CASE Write BY <1>5, WriteEventFits
<1>6. CASE WriteFails
  <2>1. faults' > 0 /\ unrecovered' = unrecovered /\ crashes' = crashes
    BY <1>6, FailureBegins DEF EngineInv, WriteFails
  <2>2. QED BY <2>1 DEF EventFits
<1>7. CASE Claim BY <1>7, ClaimEventFits
<1>8. CASE Execute BY <1>8, ExecuteEventFits
<1>9. CASE Restart
  <2>1. /\ crashes' = crashes + 1 /\ todo' = <<>> /\ actionQueue' = <<>> /\ updates' = <<>>
        /\ executing' = NoAction
    BY <1>9 DEF Restart
  <2>2. Len(actionQueue') = 0 /\ Len(updates') = 0 /\ Len(todo') = 0 BY <2>1, EmptySeq
  <2>3. \A a \in ActionId : ~InWork(a)' /\ ~Unclaimed(a)' /\ ~Due(a)'
    BY <2>1, <2>2, WriteTypes DEF InWork, Queued, Answered, Unclaimed, Announced, Due, Todo
  <2>4. crashes' > 0 BY <2>1, EngineAssumption DEF EngineInv, TypeOK
  <2>5. Chained(todo') BY <2>2 DEF Chained
  <2>6. QED BY <2>2, <2>3, <2>4, <2>5 DEF EventFits, Todo
<1>10. CASE \E r \in Runs : RecoverRun(r) BY <1>10, RecoverEventFits
<1>11. CASE Recovered BY <1>1, <1>11 DEF Recovered, durable, bounds
<1>12. CASE UNCHANGED vars BY <1>1, <1>12 DEF vars, durable, engine, bounds
<1>13. QED
  BY <1>2, <1>3, <1>4, <1>5, <1>6, <1>7, <1>8, <1>9, <1>10, <1>11, <1>12
     DEF Next, EngineStep, Recover

LEMMA EventInvariant == Spec => [](EngineInv /\ LogFits /\ EventFits)
<1>1. Init => EventFits
  <2>1. SUFFICES ASSUME Init PROVE EventFits OBVIOUS
  <2>2. /\ unrecovered = {} /\ Len(todo) = 0 /\ Len(actionQueue) = 0 /\ Len(updates) = 0
        /\ executing = NoAction
    BY <2>1, EmptySeq DEF Init
  <2>3. \A a \in ActionId : ~InWork(a) /\ ~Unclaimed(a) /\ ~Due(a)
    BY <2>2, WriteTypes DEF InWork, Queued, Answered, Unclaimed, Announced, Due, Todo
  <2>4. QED BY <2>2, <2>3 DEF EventFits, Chained, Todo
<1>2. EventFits /\ LogFits /\ EngineInv /\ [Next]_vars => EventFits' BY EventStep
<1>3. QED BY <1>1, <1>2, LogInvariant, PTL DEF Spec

(***************************************************************************)
(* The engine implements the life cycle of its runs                        *)
(***************************************************************************)
StageOf == [r \in Runs |-> Stage(r)]

LEMMA LifecycleStep ==
    ASSUME EngineInv, EventFits, [Next]_vars
    PROVE  [Lifecycle!Next]_<<StageOf, crashes > 0, faults > 0>>
<1>0. TypeOK /\ crashes \in Nat /\ faults \in Nat
  BY EngineAssumption DEF EngineInv, TypeOK
<1>1. ASSUME UNCHANGED <<feed, crashes, faults>>
      PROVE  [Lifecycle!Next]_<<StageOf, crashes > 0, faults > 0>>
  BY <1>1 DEF StageOf, Stage
<1>2. CASE Write
  <2>1. /\ UNCHANGED <<crashes, faults>> /\ Current \in Runs /\ 1 \in Todo
        /\ ~IsPublish(todo[1]) => feed' = feed
        /\ IsPublish(todo[1]) =>
              /\ \A r \in Runs :
                    Stage(r)' = IF r = Current THEN todo[1].event.kind ELSE Stage(r)
              /\ todo[1].event \in Events /\ Opening(todo, 1)
    BY <1>0, <1>2, WriteEffect, WriteHeads
  <2>2. CASE ~IsPublish(todo[1]) BY <1>1, <2>1, <2>2
  <2>3. CASE IsPublish(todo[1]) /\ faults > 0
    <3>1. (faults > 0)' = TRUE BY <2>1, <2>3
    <3>2. Lifecycle!Next BY <3>1 DEF Lifecycle!Next
    <3>3. QED BY <3>2 DEF StageOf, Stage
  <2>4. CASE IsPublish(todo[1]) /\ ~(faults > 0)
    <3>1. PICK c \in Runs : c = Current BY <2>1
    <3>2. PICK k : k = todo[1].event.kind OBVIOUS
    <3>3. MayFollow(StageOf[c], k)
      BY <1>0, <2>1, <2>4, <3>1, <3>2 DEF EventFits, StageOf
    <3>4. StageOf' = [StageOf EXCEPT ![c] = k]
      <4>1. \A r \in Runs : Stage(r)' = IF r = c THEN k ELSE Stage(r)
        BY <2>1, <2>4, <3>1, <3>2
      <4>2. QED BY <4>1 DEF StageOf
    <3>5. k \in DOMAIN Lifecycle!Before
      BY <2>1, <2>4, <3>2, Orders DEF Events, TerminalEvents
    <3>6. (crashes > 0)' = (crashes > 0) /\ (faults > 0)' = (faults > 0) BY <2>1
    <3>7. CASE Follows(StageOf[c], k)
      <4>1. Lifecycle!Publish(c, k)
        BY <3>4, <3>6, <3>7 DEF Lifecycle!Publish, Follows, StageOf, Stage
      <4>2. QED BY <3>5, <4>1 DEF Lifecycle!Next, StageOf, Stage
    <3>8. CASE k = "ActionClaimed" /\ crashes > 0 /\ StageOf[c] \notin TerminalEvents
      <4>1. Lifecycle!Reclaim(c)
        BY <3>4, <3>6, <3>8
           DEF Lifecycle!Reclaim, Lifecycle!Over, TerminalEvents, StageOf, Stage
      <4>2. QED BY <4>1 DEF Lifecycle!Next, StageOf, Stage
    <3>9. QED BY <3>3, <3>7, <3>8, Orders DEF MayFollow, Claimable
  <2>5. QED BY <2>2, <2>3, <2>4
<1>3. CASE WriteFails
  <2>1. (faults > 0)' = TRUE BY <1>0, <1>3 DEF WriteFails
  <2>2. Lifecycle!Next BY <2>1 DEF Lifecycle!Next
  <2>3. QED BY <2>2 DEF StageOf, Stage
<1>4. CASE Restart
  <2>1. crashes' = crashes + 1 /\ UNCHANGED <<feed, faults>> BY <1>4 DEF Restart
  <2>2. (crashes > 0)' = TRUE /\ (faults > 0)' = (faults > 0) BY <1>0, <2>1
  <2>3. StageOf' = StageOf BY <2>1 DEF StageOf, Stage
  <2>4. Lifecycle!Restart BY <2>2, <2>3 DEF Lifecycle!Restart, StageOf, Stage
  <2>5. QED BY <2>4 DEF Lifecycle!Next, StageOf, Stage
<1>5. CASE HandleUpdate BY <1>1, <1>5, UpdateEffect DEF EngineInv
<1>6. QED
  BY <1>1, <1>2, <1>3, <1>4, <1>5 DEF Next, EngineStep, Recover, Submit, HandleSubmit, Begin,
     Recovered, RecoverRun, Claim, Execute, vars, durable, bounds

(* The events of every run are published in the order of RunLifecycle, the *)
(* last event of each run being its stage, through every interleaving with *)
(* the worker and every restart, until a write fails (engine.rs:467-549,   *)
(* 394-456).                                                               *)
THEOREM EngineImplementsLifecycle == Spec => EventsInOrder
<1>1. Init => Lifecycle!Init
  <2>1. SUFFICES ASSUME Init PROVE Lifecycle!Init OBVIOUS
  <2>2. \A r \in Runs : feed[r] = <<>> BY <2>1 DEF Init
  <2>3. (crashes > 0) = FALSE /\ (faults > 0) = FALSE BY <2>1 DEF Init
  <2>4. QED BY <2>2, <2>3 DEF Lifecycle!Init
<1>2. EngineInv /\ EventFits /\ [Next]_vars =>
         [Lifecycle!Next]_<<StageOf, crashes > 0, faults > 0>>
  BY LifecycleStep
<1>3. QED
  BY <1>1, <1>2, EventInvariant, PTL DEF Spec, EventsInOrder, Lifecycle!Spec, StageOf, Stage
=============================================================================
