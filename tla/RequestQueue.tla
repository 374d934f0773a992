---------------------------- MODULE RequestQueue ----------------------------
(***************************************************************************)
(* What the queues of a SockWrapper promise to a script, without threads,   *)
(* locks or sockets: a request is issued once, handed out in the order it   *)
(* was issued, finished by whoever holds it, and its result is delivered    *)
(* once, in the order in which the results were posted.                     *)
(***************************************************************************)
EXTENDS Integers, Sequences

VARIABLES
    issued,     \* how many requests were ever issued; their ids are 1..issued
    waiting,    \* SockWrapper::Todo, the ids not yet taken by a worker
    inHand,     \* the ids some worker has taken and not yet posted
    posted,     \* SockWrapper::Callbacks, the ids whose result is not delivered
    delivered   \* the ids whose result Engine::Think has handled

qvars == <<issued, waiting, inHand, posted, delivered>>

Init ==
    /\ issued = 0
    /\ waiting = <<>>
    /\ inHand = {}
    /\ posted = <<>>
    /\ delivered = {}

\* A script call that has a callback to report to queues a SockEvent.
Issue ==
    /\ issued' = issued + 1
    /\ waiting' = Append(waiting, issued + 1)
    /\ UNCHANGED <<inHand, posted, delivered>>

\* A worker takes the oldest request.
Dispatch ==
    /\ waiting # <<>>
    /\ waiting' = Tail(waiting)
    /\ inHand' = inHand \union {Head(waiting)}
    /\ UNCHANGED <<issued, posted, delivered>>

\* The worker that holds request id posts its result.
Finish(id) ==
    /\ id \in inHand
    /\ inHand' = inHand \ {id}
    /\ posted' = Append(posted, id)
    /\ UNCHANGED <<issued, waiting, delivered>>

\* Engine::Think handles the oldest result.
Deliver ==
    /\ posted # <<>>
    /\ posted' = Tail(posted)
    /\ delivered' = delivered \union {Head(posted)}
    /\ UNCHANGED <<issued, waiting, inHand>>

Next ==
    \/ Issue
    \/ Dispatch
    \/ \E id \in inHand : Finish(id)
    \/ Deliver

Spec == Init /\ [][Next]_qvars

=============================================================================
