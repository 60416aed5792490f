----------------------------- MODULE EventFifo -----------------------------
(***************************************************************************)
(* What the event queue of a server promises the application: events come  *)
(* out one at a time, each one once, in the order in which they were       *)
(* accepted, and no more than Capacity of them wait.                       *)
(***************************************************************************)
EXTENDS Naturals, Sequences

CONSTANTS
    Event,      \* the events that can be queued
    NoEvent,    \* the application holds no event
    Capacity    \* how many events can wait

VARIABLES
    queue,      \* the waiting events, the oldest first
    taken       \* the event the application is handling

Init == queue = <<>> /\ taken = NoEvent

\* a connection's event is accepted
Put(e) ==
    /\ Len(queue) < Capacity
    /\ queue' = Append(queue, e)
    /\ UNCHANGED taken

\* the application takes the oldest event
Take ==
    /\ queue # <<>> /\ taken = NoEvent
    /\ taken' = Head(queue)
    /\ queue' = Tail(queue)

\* and is done with it
Done == taken' = NoEvent /\ UNCHANGED queue

Next == (\E e \in Event : Put(e)) \/ Take \/ Done

Spec == Init /\ [][Next]_<<queue, taken>>

=============================================================================
