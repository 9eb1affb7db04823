----------------------------- MODULE ActionQueue -----------------------------
(***************************************************************************)
(* What the engine may rely on when it enqueues actions: they are claimed  *)
(* one at a time, in the order they were enqueued, and every claimed       *)
(* action is answered, exactly once and before the next one is claimed.    *)
(***************************************************************************)
EXTENDS Naturals, Sequences

CONSTANT Requests

VARIABLES
    accepted,  \* the actions enqueued so far
    queue,     \* those not yet claimed
    serving,   \* the one claimed and not yet answered, or Nothing
    told       \* the updates sent to the engine

Nothing == 0

qVars == <<accepted, queue, serving, told>>

Init == accepted = {} /\ queue = <<>> /\ serving = Nothing /\ told = <<>>

Accept(a) ==
    /\ a \notin accepted
    /\ accepted' = accepted \cup {a}
    /\ queue' = Append(queue, a)
    /\ UNCHANGED <<serving, told>>

Claim ==
    /\ serving = Nothing /\ queue # <<>>
    /\ serving' = Head(queue)
    /\ queue' = Tail(queue)
    /\ told' = Append(told, <<"Claimed", serving'>>)
    /\ UNCHANGED accepted

Answer ==
    /\ serving # Nothing
    /\ told' = Append(told, <<"Answered", serving>>)
    /\ serving' = Nothing
    /\ UNCHANGED <<accepted, queue>>

Next == Claim \/ Answer \/ \E a \in Requests : Accept(a)

Spec == Init /\ [][Next]_qVars /\ WF_qVars(Claim) /\ WF_qVars(Answer)
=============================================================================
