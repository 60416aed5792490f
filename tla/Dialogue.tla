------------------------------ MODULE Dialogue ------------------------------
(***************************************************************************)
(* What a client may rely on once it has connected: its messages take      *)
(* effect one at a time and in the order it sent them.  An input event is  *)
(* handed to the application once; an update request is answered in the    *)
(* pixel format the client asked for before it, or ignored.  The dialogue  *)
(* may be over at any time, and nothing takes effect afterwards.           *)
(***************************************************************************)
EXTENDS Naturals, Sequences

CONSTANTS
    Message,         \* what a client may send
    FirstFormat      \* the pixel format in force before the client asks for one

VARIABLES
    asked,           \* the messages of the client, in the order it sent them
    handled,         \* how many of them have taken effect
    events,          \* the events handed to the application
    answers,         \* the pixel format of every update sent to the client
    format,          \* the pixel format in force
    open             \* FALSE once the dialogue is over

EventTypes == {"key", "pointer", "text"}
EventOf(m) == [type |-> m.type, n |-> m.n]

Init ==
    /\ asked = <<>> /\ handled = 0 /\ events = <<>> /\ answers = <<>>
    /\ format = FirstFormat /\ open = TRUE

\* The client sends one more message.
Ask ==
    /\ \E m \in Message : asked' = Append(asked, m)
    /\ UNCHANGED <<handled, events, answers, format, open>>

\* A request is answered unless its corner is outside the rectangle it asks
\* for; it may be ignored unless it starts in the corner of the screen.
MayAnswer(m) == m.type = "update" /\ m.rect.x <= m.rect.w /\ m.rect.y <= m.rect.h
MayKeepSilent(m) == m.type = "update" => m.rect.x # 0 \/ m.rect.y # 0

\* The oldest message that has not taken effect does.
Serve ==
    /\ open /\ handled < Len(asked)
    /\ handled' = handled + 1
    /\ LET m == asked[handled + 1] IN
          /\ events' = IF m.type \in EventTypes THEN Append(events, EventOf(m)) ELSE events
          /\ format' = IF m.type = "format" THEN m.n ELSE format
          /\ \/ MayAnswer(m) /\ answers' = Append(answers, format)
             \/ MayKeepSilent(m) /\ UNCHANGED answers
    /\ UNCHANGED <<asked, open>>

\* The end, with at most one event made of what could not be understood.
Close ==
    /\ open /\ open' = FALSE
    /\ \/ UNCHANGED events
       \/ Len(events') = Len(events) + 1 /\ SubSeq(events', 1, Len(events)) = events
    /\ UNCHANGED <<asked, handled, answers, format>>

Next == Ask \/ Serve \/ Close

Spec == Init /\ [][Next]_<<asked, handled, events, answers, format, open>>

=============================================================================
