---------------------------- MODULE EventQueue ----------------------------
(***************************************************************************)
(* The event queue of a server (server.c): a ring of TRFB_EVENTS_QUEUE_LEN *)
(* slots under srv->lock, filled by the message handlers of the connection *)
(* threads (connection.c) and emptied by the application.  A clipboard     *)
(* event owns a text allocated by ClientCutText, and trfb_event_move hands *)
(* that ownership from the handler to the ring and on to the application,  *)
(* which releases it with trfb_event_clear.                                *)
(***************************************************************************)
EXTENDS Integers, Sequences

CONSTANTS
    Clients,    \* the connection threads
    QueueLen,   \* TRFB_EVENTS_QUEUE_LEN
    Codes,      \* what a key or pointer event carries
    Texts,      \* the blocks malloc can hand out
    Nothing     \* the content of a zeroed event

ASSUME QueueAssumption ==
    /\ QueueLen \in Nat \ {0}
    /\ Texts \cap Codes = {}
    /\ Nothing \notin Texts \cup Codes

VARIABLES
    events,     \* srv->events
    event_cur,  \* srv->event_cur
    event_len,  \* srv->event_len
    conPc,      \* where each connection thread is
    local,      \* the variable "event" of its handler
    appEvent,   \* the application's variable "event"
    heap,       \* the texts that are allocated
    leaked      \* history: the allocated texts nothing refers to any more

vars == <<events, event_cur, event_len, conPc, local, appEvent, heap, leaked>>

Slots == 0..QueueLen - 1

\* trfb_event_t: a key or pointer event, or a clipboard event with its text
InputEvent == [type : {"INPUT"}, data : Codes]
TextEvent == [type : {"CUT_TEXT"}, data : Texts]
NoEvent == [type |-> "NONE", data |-> Nothing]
Event == InputEvent \cup TextEvent

TypeOK ==
    /\ events \in [Slots -> Event \cup {NoEvent}]
    /\ event_cur \in Slots
    /\ event_len \in 0..QueueLen
    /\ conPc \in [Clients -> {"reading", "text", "add", "ended"}]
    /\ local \in [Clients -> Event \cup {NoEvent}]
    /\ appEvent \in Event \cup {NoEvent}
    /\ heap \subseteq Texts
    /\ leaked \subseteq Texts

\* trfb_server_create zeroes the structure
Init ==
    /\ events = [i \in Slots |-> NoEvent]
    /\ event_cur = 0 /\ event_len = 0
    /\ conPc = [c \in Clients |-> "reading"]
    /\ local = [c \in Clients |-> NoEvent]
    /\ appEvent = NoEvent
    /\ heap = {} /\ leaked = {}

-----------------------------------------------------------------------------
(* The connection threads. *)

ConGoto(c, l) == conPc' = [conPc EXCEPT ![c] = l]
RingSame == UNCHANGED <<events, event_cur, event_len>>

\* KeyEvent and PointerEvent have read their message
ReadsInput(c) ==
    /\ conPc[c] = "reading"
    /\ \E e \in InputEvent : local' = [local EXCEPT ![c] = e]
    /\ ConGoto(c, "add")
    /\ RingSame /\ UNCHANGED <<appEvent, heap, leaked>>

\* ClientCutText has read its header and allocates the text
MallocText(c) ==
    /\ conPc[c] = "reading"
    /\ \E t \in Texts \ heap :
         /\ heap' = heap \cup {t}
         /\ local' = [local EXCEPT ![c] = [type |-> "CUT_TEXT", data |-> t]]
    /\ ConGoto(c, "text")
    /\ RingSame /\ UNCHANGED <<appEvent, leaked>>

\* ... and has read the text
ReadsText(c) ==
    /\ conPc[c] = "text"
    /\ ConGoto(c, "add")
    /\ RingSame /\ UNCHANGED <<local, appEvent, heap, leaked>>

\* The thread ends in EXIT_THREAD or check_stopped inside a read, or because
\* malloc fails: nobody frees the text of a clipboard event being read
ConEnds(c) ==
    /\ conPc[c] \in {"reading", "text"}
    /\ leaked' = leaked \cup ({local[c].data} \cap Texts)
    /\ local' = [local EXCEPT ![c] = NoEvent]
    /\ ConGoto(c, "ended")
    /\ RingSame /\ UNCHANGED <<appEvent, heap>>

\* another client is accepted
ConStarts(c) ==
    /\ conPc[c] = "ended"
    /\ ConGoto(c, "reading")
    /\ RingSame /\ UNCHANGED <<local, appEvent, heap, leaked>>

\* what trfb_event_move leaves behind in the source
Vacated_Kept(e) == e
Vacated(e) == NoEvent

\* trfb_server_add_event, one critical section.  Refused when the ring is full:
\* the handler ignores that and drops its event, text and all.
IsFull == event_len >= QueueLen
TailSlot_FromZero == event_len % QueueLen
TailSlot == (event_cur + event_len) % QueueLen

AddEvent(c) ==
    /\ conPc[c] = "add" /\ ~IsFull
    /\ events' = [events EXCEPT ![TailSlot] = local[c]]
    /\ local' = [local EXCEPT ![c] = Vacated(@)]
    /\ event_len' = event_len + 1
    /\ ConGoto(c, "reading")
    /\ UNCHANGED <<event_cur, appEvent, heap, leaked>>

RefuseEvent(c) ==
    /\ conPc[c] = "add" /\ IsFull
    /\ leaked' = leaked \cup ({local[c].data} \cap Texts)
    /\ local' = [local EXCEPT ![c] = NoEvent]
    /\ ConGoto(c, "reading")
    /\ RingSame /\ UNCHANGED <<appEvent, heap>>

ConStep(c) ==
    \/ ReadsInput(c) \/ MallocText(c) \/ ReadsText(c)
    \/ ConEnds(c) \/ ConStarts(c)
    \/ AddEvent(c) \/ RefuseEvent(c)

-----------------------------------------------------------------------------
(* The application thread: while (trfb_server_poll_event(srv, &event)) { ... *)
(* trfb_event_clear(&event); }                                               *)

NextCur == (event_cur + 1) % QueueLen
LenBehindPoll_Reset == 0
LenBehindPoll == event_len - 1

PollEvent ==
    /\ appEvent = NoEvent
    /\ event_len # 0
    /\ appEvent' = events[event_cur]
    /\ events' = [events EXCEPT ![event_cur] = Vacated(@)]
    /\ event_cur' = NextCur
    /\ event_len' = LenBehindPoll
    /\ UNCHANGED <<conPc, local, heap, leaked>>

ClearEvent ==
    /\ appEvent # NoEvent
    /\ heap' = heap \ (IF appEvent.type = "CUT_TEXT" THEN {appEvent.data} ELSE {})
    /\ appEvent' = NoEvent
    /\ RingSame /\ UNCHANGED <<conPc, local, leaked>>

Next == (\E c \in Clients : ConStep(c)) \/ PollEvent \/ ClearEvent

Spec == Init /\ [][Next]_vars

\* The application's loop keeps running; nothing is assumed of the clients.
FairSpec == Spec /\ WF_vars(PollEvent) /\ WF_vars(ClearEvent)

-----------------------------------------------------------------------------
(* Properties. *)

\* the slot of the i-th waiting event
Slot(i) == (event_cur + i - 1) % QueueLen
Waiting == {Slot(i) : i \in 1..event_len}

\* An event that is not waiting has left nothing in the ring: trfb_event_move
\* zeroes the slot it takes from, so no text is reachable through a stale slot.
StaleSlotsAreZero == \A s \in Slots \ Waiting : events[s] = NoEvent

\* the places that can refer to a text, and what they hold
Places == ({"slot"} \X Slots) \cup ({"local"} \X Clients) \cup {<<"app", Nothing>>}
HeldAt(p) ==
    CASE p[1] = "slot"  -> events[p[2]]
      [] p[1] = "local" -> local[p[2]]
      [] p[1] = "app"   -> appEvent
Holders(t) == {p \in Places : HeldAt(p).data = t}

\* Every text has one owner as long as it is allocated, and none afterwards, so
\* that it is freed at most once: the handler reading it, one slot of the ring,
\* the application, or nobody because it was lost in a full ring or in an
\* interrupted read.
TextsHaveOneOwner ==
    \A t \in Texts :
        /\ t \in heap <=> Holders(t) # {} \/ t \in leaked
        /\ t \in leaked => Holders(t) = {}
        /\ \A p, q \in Holders(t) : p = q

\* The ring implements the queue it stands for: events reach the application
\* once each, in the order in which trfb_server_add_event accepted them.
Queue == [i \in 1..event_len |-> events[Slot(i)]]
Fifo == INSTANCE EventFifo WITH queue <- Queue, taken <- appEvent, Capacity <- QueueLen
IsFifo == Fifo!Spec

\* A queued text reaches the application, whatever the clients go on sending.
TextIsDelivered ==
    \A t \in Texts :
        (\E i \in Waiting : events[i].data = t) ~> appEvent.data = t

=============================================================================
