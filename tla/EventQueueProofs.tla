-------------------------- MODULE EventQueueProofs --------------------------
(***************************************************************************)
(* Proofs about EventQueue for every ring length, every set of clients and *)
(* every supply of texts: the types, the zeroed slots outside the window   *)
(* of waiting events, the single owner of every text, and that the ring    *)
(* implements the bounded queue of EventFifo.                              *)
(***************************************************************************)
EXTENDS EventQueue, SequenceTheorems, TLAPS

USE DEF ConGoto, RingSame

-----------------------------------------------------------------------------
(* Arithmetic of the ring. *)

\* An index past the end of the ring wraps around once.
LEMMA WrapOnce ==
    ASSUME NEW N \in Nat \ {0}, NEW a \in 0..N - 1, NEW b \in 0..N
    PROVE  (a + b) % N = IF a + b < N THEN a + b ELSE a + b - N
<1>1. CASE a + b < N
  <2>1. a + b \in 0..N - 1
    BY <1>1
  <2> QED
    BY <1>1, <2>1
<1>2. CASE ~(a + b < N)
  <2>1. a + b \in N..(2 * N - 1)
    BY <1>2
  <2>2. PICK x \in N..(2 * N - 1) : x = a + b
    BY <2>1
  <2>3. x % N = x - N
    BY <2>2
  <2> QED
    BY <1>2, <2>2, <2>3
<1> QED
  BY <1>1, <1>2

\* Waiting events lie in slots of the ring, different ones in different slots,
\* and the slot that is filled next is none of theirs.
LEMMA SlotsDiffer ==
    ASSUME NEW N \in Nat \ {0}, NEW a \in 0..N - 1, NEW i \in 0..N - 1, NEW j \in 0..N - 1
    PROVE  /\ (a + i) % N \in 0..N - 1
           /\ (a + i) % N = (a + j) % N => i = j
<1>1. i \in 0..N /\ j \in 0..N
  OBVIOUS
<1>2. (a + i) % N = IF a + i < N THEN a + i ELSE a + i - N
  BY <1>1, WrapOnce, Zenon
<1>3. (a + j) % N = IF a + j < N THEN a + j ELSE a + j - N
  BY <1>1, WrapOnce, Zenon
<1> DEFINE x == (a + i) % N
           y == (a + j) % N
<1>4. x = (IF a + i < N THEN a + i ELSE a + i - N) /\ y = (IF a + j < N THEN a + j ELSE a + j - N)
  BY <1>2, <1>3, Zenon
<1> HIDE DEF x, y
<1>5. x \in 0..N - 1 /\ (x = y => i = j)
  BY <1>4
<1> QED
  BY <1>5 DEF x, y

\* Once the head has moved on, the i-th waiting event is the former i+1st.
LEMMA HeadMoves ==
    ASSUME NEW N \in Nat \ {0}, NEW a \in 0..N - 1, NEW i \in 1..N - 1
    PROVE  (((a + 1) % N) + i - 1) % N = (a + i) % N
<1>1. 1 \in 0..N /\ i \in 0..N /\ i - 1 \in 0..N
  OBVIOUS
<1> DEFINE b == (a + 1) % N
<1>2. b = IF a + 1 < N THEN a + 1 ELSE a + 1 - N
  BY <1>1, WrapOnce, Zenon
<1> HIDE DEF b
<1>3. b \in 0..N - 1
  BY <1>2
<1> DEFINE x == (b + (i - 1)) % N
           y == (a + i) % N
<1>4. x = IF b + (i - 1) < N THEN b + (i - 1) ELSE b + (i - 1) - N
  BY <1>1, <1>3, WrapOnce, Zenon
<1>5. y = IF a + i < N THEN a + i ELSE a + i - N
  BY <1>1, WrapOnce, Zenon
<1> HIDE DEF x, y
<1>6. x = y
  BY <1>2, <1>4, <1>5
<1>7. b + i - 1 = b + (i - 1)
  BY <1>3
<1> QED
  BY <1>6, <1>7, Zenon DEF x, y, b

-----------------------------------------------------------------------------
(* The types and the stale slots. *)

\* Every step keeps the types.
LEMMA TypeStep ==
    ASSUME TypeOK, [Next]_vars
    PROVE  TypeOK'
<1> USE QueueAssumption DEF QueueAssumption, TypeOK, Slots, Event, InputEvent, TextEvent
<1>1. ASSUME NEW c \in Clients, ReadsInput(c)
      PROVE  TypeOK'
  BY <1>1 DEF ReadsInput
<1>2. ASSUME NEW c \in Clients, MallocText(c)
      PROVE  TypeOK'
  BY <1>2 DEF MallocText
<1>3. ASSUME NEW c \in Clients, ReadsText(c)
      PROVE  TypeOK'
  BY <1>3 DEF ReadsText
<1>4. ASSUME NEW c \in Clients, ConEnds(c)
      PROVE  TypeOK'
  BY <1>4 DEF ConEnds
<1>5. ASSUME NEW c \in Clients, ConStarts(c)
      PROVE  TypeOK'
  BY <1>5 DEF ConStarts
<1>6. ASSUME NEW c \in Clients, AddEvent(c)
      PROVE  TypeOK'
  <2>1. event_len' = event_len + 1 /\ event_len < QueueLen
    BY <1>6 DEF AddEvent, IsFull
  <2>2. event_len' \in 0..QueueLen
    BY <2>1
  <2>3. events' \in [Slots -> Event \cup {NoEvent}]
    BY <1>6 DEF AddEvent
  <2> QED
    BY <1>6, <2>2, <2>3 DEF AddEvent, Vacated
<1>7. ASSUME NEW c \in Clients, RefuseEvent(c)
      PROVE  TypeOK'
  BY <1>7 DEF RefuseEvent
<1>8. CASE PollEvent
  <2>1. event_len' \in 0..QueueLen
    BY <1>8 DEF PollEvent, LenBehindPoll
  <2>2. event_cur' \in Slots
    <3>1. 0 \in 0..QueueLen - 1 /\ 1 \in 0..QueueLen
      OBVIOUS
    <3>2. NextCur = IF event_cur + 1 < QueueLen THEN event_cur + 1
                                                ELSE event_cur + 1 - QueueLen
      BY <3>1, WrapOnce, Zenon DEF NextCur
    <3> QED
      BY <1>8, <3>2 DEF PollEvent
  <2>3. events' \in [Slots -> Event \cup {NoEvent}] /\ appEvent' \in Event \cup {NoEvent}
    BY <1>8 DEF PollEvent, Vacated
  <2> QED
    BY <1>8, <2>1, <2>2, <2>3 DEF PollEvent
<1>9. CASE ClearEvent
  BY <1>9 DEF ClearEvent
<1>10. CASE UNCHANGED vars
  BY <1>10 DEF vars
<1> QED
  BY <1>1, <1>2, <1>3, <1>4, <1>5, <1>6, <1>7, <1>8, <1>9, <1>10 DEF Next, ConStep

\* The slot that AddEvent fills, and the head, in terms of the waiting slots.
LEMMA RingSlots ==
    ASSUME TypeOK
    PROVE  /\ \A i \in 1..QueueLen : Slot(i) \in Slots
           /\ \A i, j \in 1..QueueLen : Slot(i) = Slot(j) => i = j
           /\ event_len < QueueLen => TailSlot = Slot(event_len + 1)
           /\ Slot(1) = event_cur
<1>1. ASSUME NEW i \in 1..QueueLen
      PROVE  /\ i - 1 \in 0..QueueLen - 1
             /\ event_cur + i - 1 = event_cur + (i - 1)
  BY QueueAssumption DEF QueueAssumption, TypeOK, Slots
<1>2. ASSUME NEW i \in 1..QueueLen, NEW j \in 1..QueueLen
      PROVE  Slot(i) \in Slots /\ (Slot(i) = Slot(j) => i = j)
  <2>1. i - 1 \in 0..QueueLen - 1 /\ j - 1 \in 0..QueueLen - 1
    BY <1>1
  <2>2. Slot(i) = (event_cur + (i - 1)) % QueueLen /\ Slot(j) = (event_cur + (j - 1)) % QueueLen
    BY <1>1, Zenon DEF Slot
  <2>3. QueueLen \in Nat \ {0} /\ event_cur \in 0..QueueLen - 1
    BY QueueAssumption DEF QueueAssumption, TypeOK, Slots
  <2>4. Slot(i) \in Slots /\ (Slot(i) = Slot(j) => i - 1 = j - 1)
    BY <2>1, <2>2, <2>3, SlotsDiffer, Zenon DEF Slots
  <2> QED
    BY <2>4
<1>3. event_len < QueueLen => TailSlot = Slot(event_len + 1)
  <2>1. event_cur + (event_len + 1) - 1 = event_cur + event_len
    BY DEF TypeOK, Slots
  <2> QED
    BY <2>1, Zenon DEF TailSlot, Slot
<1>4. Slot(1) = event_cur
  <2>1. event_cur + 1 - 1 = event_cur /\ event_cur \in 0..QueueLen - 1
        /\ QueueLen \in Nat \ {0}
    BY QueueAssumption DEF QueueAssumption, TypeOK, Slots
  <2>2. event_cur % QueueLen = event_cur
    BY <2>1
  <2> QED
    BY <2>1, <2>2, Zenon DEF Slot
<1> QED
  BY <1>2, <1>3, <1>4

\* PollEvent moves the window by one.
LEMMA WindowMoves ==
    ASSUME TypeOK, PollEvent
    PROVE  \A i \in 1..event_len - 1 : Slot(i)' = Slot(i + 1)
<1> SUFFICES ASSUME NEW i \in 1..event_len - 1
             PROVE  Slot(i)' = Slot(i + 1)
  OBVIOUS
<1>1. QueueLen \in Nat \ {0} /\ event_cur \in 0..QueueLen - 1 /\ i \in 1..QueueLen - 1
  BY QueueAssumption DEF QueueAssumption, TypeOK, Slots
<1>2. (((event_cur + 1) % QueueLen) + i - 1) % QueueLen = (event_cur + i) % QueueLen
  BY <1>1, HeadMoves, Zenon
<1>3. event_cur + (i + 1) - 1 = event_cur + i
  BY <1>1
<1>4. event_cur' = (event_cur + 1) % QueueLen
  BY DEF PollEvent, NextCur
<1> QED
  BY <1>2, <1>3, <1>4, Zenon DEF Slot

\* What is in the window now, and what is in it afterwards.
LEMMA InWindow ==
    /\ \A i \in 1..event_len : Slot(i) \in Waiting
    /\ \A i \in 1..event_len' : Slot(i)' \in Waiting'
    /\ \A s \in Waiting : \E i \in 1..event_len : s = Slot(i)
    /\ \A s \in Waiting' : \E i \in 1..event_len' : s = Slot(i)'
  BY Zenon DEF Waiting, Slot

\* A slot is zeroed when its event is taken and filled when it joins the window.
LEMMA StaleStep ==
    ASSUME TypeOK, StaleSlotsAreZero, [Next]_vars
    PROVE  StaleSlotsAreZero'
<1> SUFFICES ASSUME NEW s \in Slots, s \notin Waiting'
             PROVE  events'[s] = NoEvent
  BY DEF StaleSlotsAreZero
<1>1. ASSUME NEW c \in Clients, AddEvent(c)
      PROVE  events'[s] = NoEvent
  <2>1. /\ event_len' = event_len + 1 /\ event_cur' = event_cur
        /\ events' = [events EXCEPT ![TailSlot] = local[c]]
        /\ event_len \in 0..QueueLen - 1
    BY <1>1, QueueAssumption DEF QueueAssumption, AddEvent, IsFull, TypeOK
  <2>2. ASSUME NEW i \in 1..event_len + 1
        PROVE  Slot(i) \in Waiting'
    <3>1. Slot(i)' = Slot(i)
      BY <2>1, Zenon DEF Slot
    <3>2. i \in 1..event_len'
      BY <2>1
    <3> QED
      BY <3>1, <3>2, InWindow
  <2>3. s # TailSlot
    <3>1. event_len + 1 \in 1..event_len + 1 /\ event_len < QueueLen
      BY <2>1, QueueAssumption DEF QueueAssumption
    <3>2. TailSlot = Slot(event_len + 1)
      BY <3>1, RingSlots
    <3> QED
      BY <2>2, <3>1, <3>2, Zenon
  <2>4. ASSUME NEW i \in 1..event_len
        PROVE  s # Slot(i)
    BY <2>1, <2>2
  <2>5. s \notin Waiting
    BY <2>4, InWindow
  <2> QED
    BY <2>1, <2>3, <2>5 DEF StaleSlotsAreZero, TypeOK
<1>2. CASE PollEvent
  <2>1. /\ events' = [events EXCEPT ![event_cur] = NoEvent]
        /\ event_len' = event_len - 1 /\ event_len \in 1..QueueLen
    BY <1>2 DEF PollEvent, Vacated, LenBehindPoll, TypeOK
  <2>2. CASE s = event_cur
    BY <2>1, <2>2 DEF TypeOK
  <2>3. CASE s # event_cur
    <3>1. ASSUME NEW i \in 1..event_len, s = Slot(i)
          PROVE  FALSE
      <4>1. i # 1
        BY <2>3, <3>1, RingSlots
      <4>2. i - 1 \in 1..event_len - 1
        BY <2>1, <4>1
      <4>3. Slot(i - 1)' = Slot((i - 1) + 1)
        BY <1>2, <4>2, WindowMoves
      <4>4. (i - 1) + 1 = i
        BY <4>2
      <4>5. i - 1 \in 1..event_len'
        BY <2>1, <4>2
      <4>6. Slot(i - 1)' \in Waiting'
        BY <4>5, InWindow
      <4> QED
        BY <3>1, <4>3, <4>4, <4>6
    <3>2. s \notin Waiting
      BY <3>1, InWindow
    <3> QED
      BY <2>1, <2>3, <3>2 DEF StaleSlotsAreZero, TypeOK
  <2> QED
    BY <2>2, <2>3
<1>3. ASSUME UNCHANGED <<events, event_cur, event_len>>
      PROVE  events'[s] = NoEvent
  BY <1>3 DEF StaleSlotsAreZero, Waiting, Slot
<1> QED
  BY <1>1, <1>2, <1>3
     DEF Next, ConStep, ReadsInput, MallocText, ReadsText, ConEnds, ConStarts, RefuseEvent,
         ClearEvent, vars

-----------------------------------------------------------------------------
(* The owners of the texts. *)

\* A handler holds an event exactly while it is in the middle of one.
LocalAgrees ==
    \A c \in Clients :
        /\ conPc[c] \in {"reading", "ended"} => local[c] = NoEvent
        /\ conPc[c] \in {"text", "add"} => local[c] \in Event

IInv ==
    /\ TypeOK
    /\ StaleSlotsAreZero
    /\ LocalAgrees
    /\ TextsHaveOneOwner

\* Handlers start and end with nothing, and add nothing but events.
LEMMA LocalStep ==
    ASSUME TypeOK, LocalAgrees, [Next]_vars
    PROVE  LocalAgrees'
<1> USE DEF TypeOK, LocalAgrees
<1>1. ASSUME NEW c \in Clients, ConStep(c)
      PROVE  LocalAgrees'
  <2>1. CASE ReadsInput(c)
    BY <2>1 DEF ReadsInput, Event
  <2>2. CASE MallocText(c)
    BY <2>2 DEF MallocText, Event, TextEvent
  <2>3. CASE ReadsText(c)
    BY <2>3 DEF ReadsText
  <2>4. CASE ConEnds(c)
    BY <2>4 DEF ConEnds
  <2>5. CASE ConStarts(c)
    BY <2>5 DEF ConStarts
  <2>6. CASE AddEvent(c)
    BY <2>6 DEF AddEvent, Vacated
  <2>7. CASE RefuseEvent(c)
    BY <2>7 DEF RefuseEvent
  <2> QED
    BY <1>1, <2>1, <2>2, <2>3, <2>4, <2>5, <2>6, <2>7 DEF ConStep
<1>2. CASE PollEvent \/ ClearEvent \/ UNCHANGED vars
  BY <1>2 DEF PollEvent, ClearEvent, vars
<1> QED
  BY <1>1, <1>2 DEF Next

\* Moving an event from p to a place q that held none keeps one owner each.
LEMMA MoveKeepsOwner ==
    ASSUME TextsHaveOneOwner, NEW p \in Places, NEW q \in Places, p # q,
           HeldAt(q).data \notin Texts,
           HeldAt(q)' = HeldAt(p), HeldAt(p)'.data \notin Texts,
           \A r \in Places \ {p, q} : HeldAt(r)' = HeldAt(r),
           UNCHANGED <<heap, leaked>>
    PROVE  TextsHaveOneOwner'
<1> SUFFICES ASSUME NEW t \in Texts
             PROVE  /\ t \in heap <=> Holders(t)' # {} \/ t \in leaked
                    /\ t \in leaked => Holders(t)' = {}
                    /\ \A r1, r2 \in Holders(t)' : r1 = r2
  BY DEF TextsHaveOneOwner
<1>1. \A r \in Places : r \in Holders(t)' <=> HeldAt(r)'.data = t
  BY DEF Holders, Places
<1>2. \A r \in Places : r \in Holders(t) <=> HeldAt(r).data = t
  BY DEF Holders
<1>3. Holders(t)' \subseteq Places /\ Holders(t) \subseteq Places
  BY DEF Holders, Places
<1>4. p \notin Holders(t)' /\ q \notin Holders(t) /\ (q \in Holders(t)' <=> p \in Holders(t))
  BY <1>1, <1>2
<1>5. \A r \in Places \ {p, q} : r \in Holders(t)' <=> r \in Holders(t)
  BY <1>1, <1>2
<1>6. /\ t \in heap <=> Holders(t) # {} \/ t \in leaked
      /\ t \in leaked => Holders(t) = {}
      /\ \A r1, r2 \in Holders(t) : r1 = r2
  BY DEF TextsHaveOneOwner
<1>7. Holders(t) = {} <=> Holders(t)' = {}
  BY <1>3, <1>4, <1>5
<1>8. \A r1, r2 \in Holders(t)' : r1 = r2
  BY <1>3, <1>4, <1>5, <1>6
<1> QED
  BY <1>6, <1>7, <1>8

\* A place that drops its text hands it to nobody (leaked) or to free().
LEMMA ReleaseKeepsOwner ==
    ASSUME TextsHaveOneOwner, NEW p \in Places,
           HeldAt(p)'.data \notin Texts,
           \A r \in Places \ {p} : HeldAt(r)' = HeldAt(r),
           \/ /\ leaked' = leaked \cup ({HeldAt(p).data} \cap Texts)
              /\ heap' = heap
           \/ /\ heap' = heap \ ({HeldAt(p).data} \cap Texts)
              /\ leaked' = leaked
    PROVE  TextsHaveOneOwner'
<1> SUFFICES ASSUME NEW t \in Texts
             PROVE  /\ t \in heap' <=> Holders(t)' # {} \/ t \in leaked'
                    /\ t \in leaked' => Holders(t)' = {}
                    /\ \A r1, r2 \in Holders(t)' : r1 = r2
  BY DEF TextsHaveOneOwner
<1>1. \A r \in Places : r \in Holders(t)' <=> HeldAt(r)'.data = t
  BY DEF Holders, Places
<1>2. \A r \in Places : r \in Holders(t) <=> HeldAt(r).data = t
  BY DEF Holders
<1>3. Holders(t)' \subseteq Places /\ Holders(t) \subseteq Places
  BY DEF Holders, Places
<1>4. /\ t \in heap <=> Holders(t) # {} \/ t \in leaked
      /\ t \in leaked => Holders(t) = {}
      /\ \A r1, r2 \in Holders(t) : r1 = r2
  BY DEF TextsHaveOneOwner
<1>5. p \notin Holders(t)' /\ (p \in Holders(t) <=> HeldAt(p).data = t)
  BY <1>1, <1>2
<1>6. \A r \in Places \ {p} : r \in Holders(t)' <=> r \in Holders(t)
  BY <1>1, <1>2
<1>7. Holders(t)' = Holders(t) \ {p}
  BY <1>3, <1>5, <1>6
<1>8. CASE HeldAt(p).data = t
  <2>1. Holders(t) = {p} /\ Holders(t)' = {}
    BY <1>4, <1>5, <1>7, <1>8
  <2> QED
    BY <1>4, <1>8, <2>1
<1>9. CASE HeldAt(p).data # t
  <2>1. Holders(t)' = Holders(t)
    BY <1>5, <1>7, <1>9
  <2>2. (t \in heap' <=> t \in heap) /\ (t \in leaked' <=> t \in leaked)
    BY <1>9
  <2> QED
    BY <1>4, <2>1, <2>2
<1> QED
  BY <1>8, <1>9

\* A place that held no text gets a new event; its text, if any, is fresh.
LEMMA AcquireKeepsOwner ==
    ASSUME TextsHaveOneOwner, NEW q \in Places,
           HeldAt(q).data \notin Texts,
           HeldAt(q)'.data \notin heap,
           \A r \in Places \ {q} : HeldAt(r)' = HeldAt(r),
           heap' = heap \cup ({HeldAt(q)'.data} \cap Texts),
           leaked' = leaked
    PROVE  TextsHaveOneOwner'
<1> SUFFICES ASSUME NEW t \in Texts
             PROVE  /\ t \in heap' <=> Holders(t)' # {} \/ t \in leaked'
                    /\ t \in leaked' => Holders(t)' = {}
                    /\ \A r1, r2 \in Holders(t)' : r1 = r2
  BY DEF TextsHaveOneOwner
<1>1. \A r \in Places : r \in Holders(t)' <=> HeldAt(r)'.data = t
  BY DEF Holders, Places
<1>2. \A r \in Places : r \in Holders(t) <=> HeldAt(r).data = t
  BY DEF Holders
<1>3. Holders(t)' \subseteq Places /\ Holders(t) \subseteq Places
  BY DEF Holders, Places
<1>4. /\ t \in heap <=> Holders(t) # {} \/ t \in leaked
      /\ t \in leaked => Holders(t) = {}
      /\ \A r1, r2 \in Holders(t) : r1 = r2
  BY DEF TextsHaveOneOwner
<1>5. q \notin Holders(t) /\ (q \in Holders(t)' <=> HeldAt(q)'.data = t)
  BY <1>1, <1>2
<1>6. \A r \in Places \ {q} : r \in Holders(t)' <=> r \in Holders(t)
  BY <1>1, <1>2
<1>7. CASE HeldAt(q)'.data = t
  <2>1. t \notin heap /\ Holders(t) = {} /\ t \notin leaked
    BY <1>4, <1>7
  <2>2. Holders(t)' = {q}
    BY <1>3, <1>5, <1>6, <1>7, <2>1
  <2> QED
    BY <1>7, <2>1, <2>2
<1>8. CASE HeldAt(q)'.data # t
  <2>1. Holders(t)' = Holders(t)
    BY <1>3, <1>5, <1>6, <1>8
  <2>2. (t \in heap' <=> t \in heap) /\ (t \in leaked' <=> t \in leaked)
    BY <1>8
  <2> QED
    BY <1>4, <2>1, <2>2
<1> QED
  BY <1>7, <1>8

\* What each kind of place holds.
LEMMA PlaceValues ==
    /\ \A s \in Slots : <<"slot", s>> \in Places /\ HeldAt(<<"slot", s>>) = events[s]
                                                /\ HeldAt(<<"slot", s>>)' = events'[s]
    /\ \A c \in Clients : <<"local", c>> \in Places /\ HeldAt(<<"local", c>>) = local[c]
                                                   /\ HeldAt(<<"local", c>>)' = local'[c]
    /\ <<"app", Nothing>> \in Places /\ HeldAt(<<"app", Nothing>>) = appEvent
                                     /\ HeldAt(<<"app", Nothing>>)' = appEvent'
    /\ \A r \in Places : \/ \E s \in Slots : r = <<"slot", s>>
                         \/ \E c \in Clients : r = <<"local", c>>
                         \/ r = <<"app", Nothing>>
<1>1. \A s \in Slots : <<"slot", s>> \in Places /\ HeldAt(<<"slot", s>>) = events[s]
                                              /\ HeldAt(<<"slot", s>>)' = events'[s]
  BY DEF Places, HeldAt
<1>2. \A c \in Clients : <<"local", c>> \in Places /\ HeldAt(<<"local", c>>) = local[c]
                                                 /\ HeldAt(<<"local", c>>)' = local'[c]
  BY DEF Places, HeldAt
<1>3. <<"app", Nothing>> \in Places /\ HeldAt(<<"app", Nothing>>) = appEvent
                                   /\ HeldAt(<<"app", Nothing>>)' = appEvent'
  BY DEF Places, HeldAt
<1>4. \A r \in Places : \/ \E s \in Slots : r = <<"slot", s>>
                        \/ \E c \in Clients : r = <<"local", c>>
                        \/ r = <<"app", Nothing>>
  <2> SUFFICES ASSUME NEW r \in Places
               PROVE  \/ \E s \in Slots : r = <<"slot", s>>
                      \/ \E c \in Clients : r = <<"local", c>>
                      \/ r = <<"app", Nothing>>
    OBVIOUS
  <2>1. CASE r \in {"slot"} \X Slots
    BY <2>1
  <2>2. CASE r \in {"local"} \X Clients
    BY <2>2
  <2> QED
    BY <2>1, <2>2 DEF Places
<1> QED
  BY <1>1, <1>2, <1>3, <1>4

\* A handler changes only the place of its own variable.
LEMMA LocalFrame ==
    ASSUME TypeOK, NEW c \in Clients, NEW e, local' = [local EXCEPT ![c] = e],
           UNCHANGED <<events, appEvent>>
    PROVE  /\ <<"local", c>> \in Places
           /\ HeldAt(<<"local", c>>) = local[c] /\ HeldAt(<<"local", c>>)' = e
           /\ \A r \in Places \ {<<"local", c>>} : HeldAt(r)' = HeldAt(r)
<1>1. local'[c] = e /\ \A d \in Clients \ {c} : local'[d] = local[d]
  BY DEF TypeOK
<1>2. ASSUME NEW r \in Places, r # <<"local", c>>
      PROVE  HeldAt(r)' = HeldAt(r)
  <2>1. CASE \E s \in Slots : r = <<"slot", s>>
    BY <2>1, PlaceValues
  <2>2. CASE \E d \in Clients : r = <<"local", d>>
    <3>1. PICK d \in Clients : r = <<"local", d>>
      BY <2>2
    <3>2. d # c
      BY <1>2, <3>1
    <3> QED
      BY <1>1, <3>1, <3>2, PlaceValues
  <2>3. CASE r = <<"app", Nothing>>
    BY <2>3, PlaceValues
  <2> QED
    BY <2>1, <2>2, <2>3, PlaceValues
<1> QED
  BY <1>1, <1>2, PlaceValues

\* AddEvent moves the event of the handler to the slot at the tail ...
LEMMA AddFrame ==
    ASSUME TypeOK, NEW c \in Clients, NEW s \in Slots, UNCHANGED appEvent,
           events' = [events EXCEPT ![s] = local[c]], local' = [local EXCEPT ![c] = NoEvent]
    PROVE  /\ <<"local", c>> \in Places /\ <<"slot", s>> \in Places
           /\ HeldAt(<<"slot", s>>) = events[s] /\ HeldAt(<<"local", c>>) = local[c]
           /\ HeldAt(<<"slot", s>>)' = local[c] /\ HeldAt(<<"local", c>>)' = NoEvent
           /\ \A r \in Places \ {<<"local", c>>, <<"slot", s>>} : HeldAt(r)' = HeldAt(r)
<1>1. local'[c] = NoEvent /\ \A d \in Clients \ {c} : local'[d] = local[d]
  BY DEF TypeOK
<1>2. events'[s] = local[c] /\ \A i \in Slots \ {s} : events'[i] = events[i]
  BY DEF TypeOK
<1>3. ASSUME NEW r \in Places, r # <<"local", c>>, r # <<"slot", s>>
      PROVE  HeldAt(r)' = HeldAt(r)
  <2>1. CASE \E i \in Slots : r = <<"slot", i>>
    <3>1. PICK i \in Slots : r = <<"slot", i>>
      BY <2>1
    <3>2. i # s
      BY <1>3, <3>1
    <3> QED
      BY <1>2, <3>1, <3>2, PlaceValues
  <2>2. CASE \E d \in Clients : r = <<"local", d>>
    <3>1. PICK d \in Clients : r = <<"local", d>>
      BY <2>2
    <3>2. d # c
      BY <1>3, <3>1
    <3> QED
      BY <1>1, <3>1, <3>2, PlaceValues
  <2>3. CASE r = <<"app", Nothing>>
    BY <2>3, PlaceValues
  <2> QED
    BY <2>1, <2>2, <2>3, PlaceValues
<1> QED
  BY <1>1, <1>2, <1>3, PlaceValues

\* ... and PollEvent the event at the head to the application.
LEMMA PollFrame ==
    ASSUME TypeOK, NEW s \in Slots, events' = [events EXCEPT ![s] = NoEvent],
           appEvent' = events[s], UNCHANGED local
    PROVE  /\ <<"slot", s>> \in Places /\ <<"app", Nothing>> \in Places
           /\ HeldAt(<<"slot", s>>) = events[s] /\ HeldAt(<<"app", Nothing>>) = appEvent
           /\ HeldAt(<<"slot", s>>)' = NoEvent /\ HeldAt(<<"app", Nothing>>)' = events[s]
           /\ \A r \in Places \ {<<"slot", s>>, <<"app", Nothing>>} : HeldAt(r)' = HeldAt(r)
<1>1. events'[s] = NoEvent /\ \A i \in Slots \ {s} : events'[i] = events[i]
  BY DEF TypeOK
<1>2. ASSUME NEW r \in Places, r # <<"slot", s>>, r # <<"app", Nothing>>
      PROVE  HeldAt(r)' = HeldAt(r)
  <2>1. CASE \E i \in Slots : r = <<"slot", i>>
    <3>1. PICK i \in Slots : r = <<"slot", i>>
      BY <2>1
    <3>2. i # s
      BY <1>2, <3>1
    <3> QED
      BY <1>1, <3>1, <3>2, PlaceValues
  <2>2. CASE \E d \in Clients : r = <<"local", d>>
    BY <2>2, PlaceValues
  <2> QED
    BY <1>2, <2>1, <2>2, PlaceValues
<1> QED
  BY <1>1, <1>2, PlaceValues

\* A zeroed event and an input event hold no text, a clipboard event one.
LEMMA EventData ==
    /\ NoEvent.data \notin Texts
    /\ \A e \in InputEvent : e.data \notin Texts
    /\ \A e \in Event \cup {NoEvent} :
         {e.data} \cap Texts = IF e.type = "CUT_TEXT" THEN {e.data} ELSE {}
  BY QueueAssumption DEF QueueAssumption, NoEvent, Event, InputEvent, TextEvent

\* Every step leaves every text with its one owner.
LEMMA OwnerStep ==
    ASSUME IInv, [Next]_vars
    PROVE  TextsHaveOneOwner'
<1>0. TypeOK /\ StaleSlotsAreZero /\ LocalAgrees /\ TextsHaveOneOwner
  BY DEF IInv
<1>1. ASSUME NEW c \in Clients, ReadsInput(c)
      PROVE  TextsHaveOneOwner'
  <2>1. PICK e \in InputEvent : local' = [local EXCEPT ![c] = e]
    BY <1>1 DEF ReadsInput
  <2>2. local[c] = NoEvent /\ e.data \notin Texts /\ NoEvent.data \notin Texts
    BY <1>0, <1>1, EventData DEF ReadsInput, LocalAgrees
  <2>3. UNCHANGED <<events, appEvent, heap, leaked>> /\ heap \subseteq Texts
    BY <1>0, <1>1 DEF ReadsInput, TypeOK
  <2> DEFINE q == <<"local", c>>
  <2>4. /\ q \in Places /\ HeldAt(q) = local[c] /\ HeldAt(q)' = e
        /\ \A r \in Places \ {q} : HeldAt(r)' = HeldAt(r)
    BY <1>0, <2>1, <2>3, LocalFrame
  <2> HIDE DEF q
  <2>5. HeldAt(q)'.data \notin heap /\ heap' = heap \cup ({HeldAt(q)'.data} \cap Texts)
    BY <2>2, <2>3, <2>4
  <2> QED
    BY <1>0, <2>2, <2>3, <2>4, <2>5, AcquireKeepsOwner
<1>2. ASSUME NEW c \in Clients, MallocText(c)
      PROVE  TextsHaveOneOwner'
  <2>1. PICK t \in Texts \ heap :
          /\ heap' = heap \cup {t}
          /\ local' = [local EXCEPT ![c] = [type |-> "CUT_TEXT", data |-> t]]
    BY <1>2 DEF MallocText
  <2>2. local[c] = NoEvent /\ NoEvent.data \notin Texts
    BY <1>0, <1>2, EventData DEF MallocText, LocalAgrees
  <2>3. UNCHANGED <<events, appEvent, leaked>>
    BY <1>2 DEF MallocText
  <2> DEFINE q == <<"local", c>>
  <2>4. /\ q \in Places /\ HeldAt(q) = local[c]
        /\ HeldAt(q)' = [type |-> "CUT_TEXT", data |-> t]
        /\ \A r \in Places \ {q} : HeldAt(r)' = HeldAt(r)
    BY <1>0, <2>1, <2>3, LocalFrame
  <2> HIDE DEF q
  <2>5. HeldAt(q)'.data = t
    BY <2>4
  <2>6. HeldAt(q)'.data \notin heap /\ heap' = heap \cup ({HeldAt(q)'.data} \cap Texts)
    BY <2>1, <2>5
  <2> QED
    BY <1>0, <2>2, <2>3, <2>4, <2>6, AcquireKeepsOwner
<1>3. ASSUME NEW c \in Clients, AddEvent(c)
      PROVE  TextsHaveOneOwner'
  <2>1. /\ events' = [events EXCEPT ![TailSlot] = local[c]]
        /\ local' = [local EXCEPT ![c] = NoEvent]
        /\ UNCHANGED <<appEvent, heap, leaked>>
        /\ event_len \in 0..QueueLen - 1
    BY <1>0, <1>3, QueueAssumption DEF QueueAssumption, AddEvent, Vacated, IsFull, TypeOK
  <2>2. /\ TailSlot = Slot(event_len + 1) /\ event_len + 1 \in 1..QueueLen
        /\ \A i \in 1..event_len : i \in 1..QueueLen /\ i # event_len + 1
    BY <1>0, <2>1, RingSlots, QueueAssumption DEF QueueAssumption
  <2>3. TailSlot \in Slots /\ \A i \in 1..event_len : Slot(i) # TailSlot
    BY <1>0, <2>2, RingSlots
  <2>4. TailSlot \notin Waiting
    BY <2>3, InWindow
  <2>5. events[TailSlot] = NoEvent /\ NoEvent.data \notin Texts
    BY <1>0, <2>3, <2>4, EventData DEF StaleSlotsAreZero
  <2> PICK s \in Slots : s = TailSlot
    BY <2>3
  <2> DEFINE p == <<"local", c>>
             q == <<"slot", s>>
  <2>6. /\ p \in Places /\ q \in Places
        /\ HeldAt(q) = events[s] /\ HeldAt(p) = local[c]
        /\ HeldAt(q)' = local[c] /\ HeldAt(p)' = NoEvent
        /\ \A r \in Places \ {p, q} : HeldAt(r)' = HeldAt(r)
    BY <1>0, <2>1, <2>3, AddFrame
  <2>7. p # q
    OBVIOUS
  <2> HIDE DEF p, q
  <2> QED
    BY <1>0, <2>1, <2>5, <2>6, <2>7, MoveKeepsOwner
<1>4. ASSUME NEW c \in Clients, ConEnds(c) \/ RefuseEvent(c)
      PROVE  TextsHaveOneOwner'
  <2>1. /\ local' = [local EXCEPT ![c] = NoEvent]
        /\ leaked' = leaked \cup ({local[c].data} \cap Texts)
        /\ UNCHANGED <<events, appEvent, heap>>
    BY <1>4 DEF ConEnds, RefuseEvent
  <2> DEFINE p == <<"local", c>>
  <2>2. /\ p \in Places /\ HeldAt(p) = local[c] /\ HeldAt(p)' = NoEvent
        /\ \A r \in Places \ {p} : HeldAt(r)' = HeldAt(r)
    BY <1>0, <2>1, LocalFrame
  <2> HIDE DEF p
  <2> QED
    BY <1>0, <2>1, <2>2, EventData, ReleaseKeepsOwner
<1>5. CASE PollEvent
  <2>1. /\ events' = [events EXCEPT ![event_cur] = NoEvent]
        /\ appEvent' = events[event_cur] /\ appEvent = NoEvent
        /\ UNCHANGED <<local, heap, leaked>> /\ event_cur \in Slots
    BY <1>0, <1>5 DEF PollEvent, Vacated, TypeOK
  <2> PICK s \in Slots : s = event_cur
    BY <2>1
  <2> DEFINE p == <<"slot", s>>
             q == <<"app", Nothing>>
  <2>2. /\ p \in Places /\ q \in Places
        /\ HeldAt(p) = events[s] /\ HeldAt(q) = appEvent
        /\ HeldAt(p)' = NoEvent /\ HeldAt(q)' = events[s]
        /\ \A r \in Places \ {p, q} : HeldAt(r)' = HeldAt(r)
    BY <1>0, <2>1, PollFrame
  <2>3. p # q
    OBVIOUS
  <2> HIDE DEF p, q
  <2> QED
    BY <1>0, <2>1, <2>2, <2>3, EventData, MoveKeepsOwner
<1>6. CASE ClearEvent
  <2>1. /\ heap' = heap \ ({appEvent.data} \cap Texts)
        /\ appEvent' = NoEvent /\ UNCHANGED <<events, local, leaked>>
    <3>1. {appEvent.data} \cap Texts = IF appEvent.type = "CUT_TEXT" THEN {appEvent.data} ELSE {}
      BY <1>0, EventData DEF TypeOK
    <3> QED
      BY <1>6, <3>1 DEF ClearEvent
  <2> DEFINE p == <<"app", Nothing>>
  <2>2. /\ p \in Places /\ HeldAt(p) = appEvent /\ HeldAt(p)' = NoEvent
        /\ \A r \in Places \ {p} : HeldAt(r)' = HeldAt(r)
    <3>1. \A r \in Places \ {p} : HeldAt(r)' = HeldAt(r)
      BY <2>1, PlaceValues
    <3> QED
      BY <2>1, <3>1, PlaceValues
  <2> HIDE DEF p
  <2> QED
    BY <1>0, <2>1, <2>2, EventData, ReleaseKeepsOwner
<1>7. ASSUME UNCHANGED <<events, local, appEvent, heap, leaked>>
      PROVE  TextsHaveOneOwner'
  <2>1. \A r \in Places : HeldAt(r)' = HeldAt(r)
    BY <1>7, PlaceValues
  <2>2. \A t : Holders(t)' = Holders(t)
    BY <2>1 DEF Holders, Places
  <2> QED
    BY <1>0, <1>7, <2>2 DEF TextsHaveOneOwner
<1> QED
  BY <1>1, <1>2, <1>3, <1>4, <1>5, <1>6, <1>7
     DEF Next, ConStep, ReadsText, ConStarts, vars

-----------------------------------------------------------------------------
(* The ring is a queue. *)

\* The waiting events, oldest first.
LEMMA QueueValues ==
    ASSUME TypeOK
    PROVE  /\ Queue \in Seq(Event \cup {NoEvent})
           /\ Len(Queue) = event_len
           /\ \A i \in 1..event_len : Queue[i] = events[Slot(i)]
<1>1. event_len \in Nat /\ \A i \in 1..event_len : i \in 1..QueueLen
  BY QueueAssumption DEF QueueAssumption, TypeOK
<1>2. \A i \in 1..event_len : events[Slot(i)] \in Event \cup {NoEvent}
  BY <1>1, RingSlots DEF TypeOK
<1>3. Queue \in [1..event_len -> Event \cup {NoEvent}]
  BY <1>2 DEF Queue
<1>4. Queue \in Seq(Event \cup {NoEvent}) /\ Len(Queue) = event_len
  BY <1>1, <1>3
<1> QED
  BY <1>4 DEF Queue

\* Adding an event puts it at the end of the queue.
LEMMA AddIsPut ==
    ASSUME TypeOK, TypeOK', LocalAgrees, NEW c \in Clients, AddEvent(c)
    PROVE  Fifo!Put(local[c]) /\ local[c] \in Event
<1>1. /\ event_len' = event_len + 1 /\ UNCHANGED <<event_cur, appEvent>>
      /\ events' = [events EXCEPT ![TailSlot] = local[c]]
      /\ event_len \in 0..QueueLen - 1 /\ local[c] \in Event
  BY QueueAssumption DEF QueueAssumption, AddEvent, IsFull, TypeOK, LocalAgrees
<1>2. \A i \in 1..event_len + 1 : i \in 1..QueueLen
  BY <1>1, QueueAssumption DEF QueueAssumption
<1>3. TailSlot = Slot(event_len + 1) /\ event_len + 1 \in 1..event_len + 1
  BY <1>1, RingSlots, QueueAssumption DEF QueueAssumption
<1>4. \A i \in 1..event_len + 1 : Slot(i)' = Slot(i) /\ Slot(i) \in Slots
  BY <1>1, <1>2, RingSlots DEF Slot
<1>5. \A i \in 1..event_len : i \in 1..event_len + 1 /\ i # event_len + 1 /\ Slot(i) # TailSlot
  <2>1. \A i \in 1..event_len : i \in 1..event_len + 1 /\ i # event_len + 1
    BY <1>1
  <2> QED
    BY <1>2, <1>3, <2>1, RingSlots
<1>6. events'[Slot(event_len + 1)] = local[c]
  BY <1>1, <1>3, <1>4 DEF TypeOK
<1>7. \A i \in 1..event_len : events'[Slot(i)] = events[Slot(i)]
  BY <1>1, <1>4, <1>5 DEF TypeOK
<1>8. /\ Queue \in Seq(Event \cup {NoEvent}) /\ Len(Queue) = event_len
      /\ \A i \in 1..event_len : Queue[i] = events[Slot(i)]
  BY QueueValues
<1>9. Queue' = [i \in 1..event_len + 1 |-> events'[Slot(i)]]
  BY <1>1, <1>4 DEF Queue
<1>10. /\ Append(Queue, local[c]) \in [1..event_len + 1 -> Event \cup {NoEvent}]
       /\ \A i \in 1..event_len : Append(Queue, local[c])[i] = Queue[i]
       /\ Append(Queue, local[c])[event_len + 1] = local[c]
  <2>1. local[c] \in Event \cup {NoEvent}
    BY <1>1
  <2>2. /\ Append(Queue, local[c]) \in Seq(Event \cup {NoEvent})
        /\ Len(Append(Queue, local[c])) = event_len + 1
        /\ \A i \in 1..event_len : Append(Queue, local[c])[i] = Queue[i]
        /\ Append(Queue, local[c])[event_len + 1] = local[c]
    BY <1>8, <2>1, AppendProperties
  <2> QED
    BY <2>2, LenProperties
<1>11. \A i \in 1..event_len + 1 : Append(Queue, local[c])[i] = events'[Slot(i)]
  BY <1>1, <1>6, <1>7, <1>8, <1>10
<1>12. Queue' = Append(Queue, local[c])
  BY <1>9, <1>10, <1>11
<1> QED
  BY <1>1, <1>8, <1>12, QueueAssumption DEF QueueAssumption, Fifo!Put

\* Polling takes the event at the front.
LEMMA PollIsTake ==
    ASSUME TypeOK, TypeOK', PollEvent
    PROVE  Fifo!Take
<1>1. /\ event_len' = event_len - 1 /\ appEvent = NoEvent /\ appEvent' = events[event_cur]
      /\ events' = [events EXCEPT ![event_cur] = NoEvent]
      /\ event_len \in 1..QueueLen
  BY QueueAssumption DEF QueueAssumption, PollEvent, LenBehindPoll, Vacated, TypeOK
<1>2. \A i \in 1..event_len - 1 : i + 1 \in 1..event_len /\ i + 1 \in 1..QueueLen /\ i + 1 # 1
  BY <1>1, QueueAssumption DEF QueueAssumption
<1>3. 1 \in 1..event_len /\ 1 \in 1..QueueLen /\ Slot(1) = event_cur
  BY <1>1, RingSlots, QueueAssumption DEF QueueAssumption
<1>4. \A i \in 1..event_len - 1 : Slot(i)' = Slot(i + 1)
  BY WindowMoves
<1>5. \A i \in 1..event_len - 1 : Slot(i + 1) # event_cur /\ Slot(i + 1) \in Slots
  BY <1>2, <1>3, RingSlots
<1>6. \A i \in 1..event_len - 1 : events'[Slot(i + 1)] = events[Slot(i + 1)]
  BY <1>1, <1>5 DEF TypeOK
<1>7. /\ Queue \in Seq(Event \cup {NoEvent}) /\ Len(Queue) = event_len
      /\ \A i \in 1..event_len : Queue[i] = events[Slot(i)]
  BY QueueValues
<1>8. Queue' = [i \in 1..event_len - 1 |-> events'[Slot(i + 1)]]
  BY <1>1, <1>4 DEF Queue
<1>9. /\ Tail(Queue) \in [1..event_len - 1 -> Event \cup {NoEvent}]
      /\ \A i \in 1..event_len - 1 : Tail(Queue)[i] = Queue[i + 1]
  <2>1. Queue # <<>>
    BY <1>1, <1>7
  <2>2. /\ Tail(Queue) \in Seq(Event \cup {NoEvent}) /\ Len(Tail(Queue)) = event_len - 1
        /\ \A i \in 1..event_len - 1 : Tail(Queue)[i] = Queue[i + 1]
    BY <1>7, <2>1, HeadTailProperties
  <2> QED
    BY <2>2, LenProperties
<1>10. \A i \in 1..event_len - 1 : Tail(Queue)[i] = events'[Slot(i + 1)]
  BY <1>2, <1>6, <1>7, <1>9
<1>11. Queue' = Tail(Queue)
  BY <1>8, <1>9, <1>10
<1>12. Queue # <<>> /\ Head(Queue) = events[event_cur]
  BY <1>1, <1>3, <1>7
<1> QED
  BY <1>1, <1>11, <1>12 DEF Fifo!Take

-----------------------------------------------------------------------------
(* The theorems. *)

\* trfb_server_create zeroes the ring, and nothing is allocated yet.
LEMMA InitHolds ==
    Init => IInv
<1> SUFFICES ASSUME Init
             PROVE  IInv
  OBVIOUS
<1>1. TypeOK /\ StaleSlotsAreZero /\ LocalAgrees
  BY QueueAssumption
     DEF QueueAssumption, Init, TypeOK, Slots, StaleSlotsAreZero, LocalAgrees
<1>2. \A r \in Places : HeldAt(r) = NoEvent
  BY PlaceValues DEF Init
<1>3. \A t \in Texts : Holders(t) = {}
  BY <1>2, EventData DEF Holders
<1>4. TextsHaveOneOwner
  BY <1>3 DEF Init, TextsHaveOneOwner
<1> QED
  BY <1>1, <1>4 DEF IInv

\* Every step of a connection thread or of the application keeps the invariant.
LEMMA StepHolds ==
    IInv /\ [Next]_vars => IInv'
  BY TypeStep, StaleStep, LocalStep, OwnerStep DEF IInv

\* The invariant holds throughout.
THEOREM QueueInvariance == Spec => []IInv
  BY InitHolds, StepHolds, PTL DEF Spec

\* server.c:249-295: head, length and slots of the ring stay in their ranges.
THEOREM QueueTypeCorrect == Spec => []TypeOK
<1>1. IInv => TypeOK
  BY DEF IInv
<1> QED
  BY <1>1, QueueInvariance, PTL

\* server.c:306-315: no event stays behind in a slot outside the window.
THEOREM SlotsAreZeroed == Spec => []StaleSlotsAreZero
<1>1. IInv => StaleSlotsAreZero
  BY DEF IInv
<1> QED
  BY <1>1, QueueInvariance, PTL

\* Every clipboard text has one owner while it is allocated, none once freed.
THEOREM TextOwnership == Spec => []TextsHaveOneOwner
<1>1. IInv => TextsHaveOneOwner
  BY DEF IInv
<1> QED
  BY <1>1, QueueInvariance, PTL

\* The ring under srv->lock is a bounded first-in first-out queue.
THEOREM RingIsFifo == Spec => IsFifo
<1>1. Init => Fifo!Init
  <2> SUFFICES ASSUME Init
               PROVE  Fifo!Init
    OBVIOUS
  <2>1. event_len = 0 /\ appEvent = NoEvent
    BY DEF Init
  <2>2. Queue = [i \in 1..0 |-> events[Slot(i)]]
    BY <2>1, Zenon DEF Queue
  <2>3. Queue = <<>>
    BY <2>2
  <2> QED
    BY <2>1, <2>3 DEF Fifo!Init
<1>2. IInv /\ IInv' /\ [Next]_vars => [Fifo!Next]_<<Queue, appEvent>>
  <2> SUFFICES ASSUME IInv, IInv', [Next]_vars
               PROVE  [Fifo!Next]_<<Queue, appEvent>>
    OBVIOUS
  <2>0. TypeOK /\ TypeOK' /\ LocalAgrees
    BY DEF IInv
  <2>1. ASSUME NEW c \in Clients, AddEvent(c)
        PROVE  Fifo!Next
    BY <2>0, <2>1, AddIsPut DEF Fifo!Next
  <2>2. CASE PollEvent
    BY <2>0, <2>2, PollIsTake DEF Fifo!Next
  <2>3. ASSUME UNCHANGED <<events, event_cur, event_len>>
        PROVE  UNCHANGED Queue
    BY <2>3, Zenon DEF Queue, Slot
  <2>4. CASE ClearEvent
    BY <2>3, <2>4 DEF ClearEvent, Fifo!Next, Fifo!Done
  <2>5. ASSUME UNCHANGED <<events, event_cur, event_len, appEvent>>
        PROVE  UNCHANGED <<Queue, appEvent>>
    BY <2>3, <2>5
  <2> QED
    BY <2>1, <2>2, <2>4, <2>5
       DEF Next, ConStep, ReadsInput, MallocText, ReadsText, ConEnds, ConStarts, RefuseEvent, vars
<1> QED
  BY <1>1, <1>2, QueueInvariance, PTL DEF Spec, IsFifo, Fifo!Spec

=============================================================================
