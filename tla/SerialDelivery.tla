--------------------------- MODULE SerialDelivery ---------------------------
(***************************************************************************)
(* What the event queue of a v2 facade promises its user, with neither the *)
(* lock nor the goroutines that provide it: events wait in one line, one   *)
(* callback runs at a time, and it always runs for the event at the front. *)
(***************************************************************************)
EXTENDS Sequences

CONSTANTS
    Event,      \* what can be posted
    None        \* "no callback is running"

VARIABLES
    pending,    \* events posted and not yet handed to a callback
    running     \* the event whose callback is running, or None

vars == <<pending, running>>

Init ==
    /\ pending = <<>>
    /\ running = None

Post(e) ==
    /\ pending' = Append(pending, e)
    /\ UNCHANGED running

Begin ==
    /\ running = None
    /\ pending # <<>>
    /\ running' = Head(pending)
    /\ pending' = Tail(pending)

Finish ==
    /\ running # None
    /\ running' = None
    /\ UNCHANGED pending

Next ==
    \/ \E e \in Event : Post(e)
    \/ Begin
    \/ Finish

Spec == Init /\ [][Next]_vars
=============================================================================
