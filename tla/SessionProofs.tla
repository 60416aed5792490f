--------------------------- MODULE SessionProofs ---------------------------
(***************************************************************************)
(* Proofs about Session for any versions, messages, sizes and bounds: the  *)
(* thread of a connection never takes a part of a message for another one. *)
(***************************************************************************)
EXTENDS Session, SequenceTheorems, TLAPS

\* The version thread and client speak once the client has asked for one.
Spoken == IF asked[1].n \in {7, 8} THEN asked[1].n ELSE 3
\* The messages of the handshake.
Steps == IF Spoken = 3 THEN 2 ELSE 3

\* What the client has sent, and where that leaves it.
HandshakeFirst ==
    /\ Len(asked) >= 1 => asked[1].type = "version"
    /\ Len(asked) >= 2 => asked[2].type = IF Spoken = 3 THEN "clientinit" ELSE "choice"
    /\ Len(asked) >= 3 /\ Spoken # 3 => asked[3].type = "clientinit"
    /\ \A i \in 1..Len(asked) : i > 1 /\ i > Steps => asked[i] \in Requests
ClientAt ==
    /\ client = "version" => asked = <<>>
    /\ client = "security" => Len(asked) = 1
    /\ client = "result" => Len(asked) = 2 /\ Spoken = 8
    /\ client = "init" => Len(asked) = Steps - 1 /\ Len(asked) >= 1
    /\ client = "serverinit" => Len(asked) = Steps
    /\ client = "ready" => Len(asked) >= Steps

\* How far the thread is in the stream, by where it is.
Sizing == {"widthhigh", "widthlow", "heighthigh", "heightlow", "serverinit"}
Bodies == {"format", "encodings", "update", "key", "pointer", "text"}
Inside == Bodies \cup {"encoding", "textbody", "convert", "header", "payload"}
ThreadAt ==
    /\ pc \notin {"offer", "version", "ended", "adrift"} =>
          /\ 1 <= handled /\ handled <= Len(asked)
          /\ version = Spoken
    /\ pc \in {"offer", "version"} => handled = 0
    /\ pc = "security" => handled = 1
    /\ pc = "choice" => handled = 1 /\ version >= 7
    /\ pc = "result" => handled = 2 /\ version = 8
    /\ pc = "clientinit" => handled = Steps - 1
    /\ pc \in Sizing \cup {"type"} \cup Inside => handled >= Steps
    /\ pc \notin Inside \cup {"ended", "adrift"} => part = 0
MessageAt ==
    /\ pc \in Inside => handled < Len(asked)
    /\ pc \in Bodies => Coming.type = pc /\ part = 1
    /\ pc = "encoding" =>
          /\ Coming.type = "encodings" /\ left \in 1..Coming.n
          /\ part = 2 + (Coming.n - left)
    /\ pc = "textbody" =>
          /\ Coming.type = "text" /\ part = 2
          /\ left = Signed(Coming.n) /\ left >= -1
    /\ pc \in {"convert", "header", "payload"} => Coming.type = "update" /\ part = 2

LargestText == \E i \in 1..Len(asked) : asked[i].type = "text" /\ asked[i].n = TopLength
Astray == pc = "adrift" => LargestText

SInv == TypeOK /\ HandshakeFirst /\ ClientAt /\ ThreadAt /\ MessageAt /\ Astray

-----------------------------------------------------------------------------
(* Types *)

\* TypeOK, part by part.
ThreadTyped ==
    /\ version \in {0, 3, 7, 8} /\ left \in Int /\ format \in {0, 1, 2, 4}
    /\ rect \in Rects /\ size \in [w : Nat, h : Nat]
InTyped == handled \in Nat /\ part \in Nat
OutTyped ==
    /\ said \in Seq([kind : Kinds, rect : Rects, n : Nat])
    /\ flushed \in Nat /\ late \in BOOLEAN
EventsTyped == events \in Seq([type : {"key", "pointer", "text"}, n : Int])
ClientTyped == client \in ClientPlaces /\ asked \in Seq(Message) /\ arrived \in Nat /\ heard \in Nat
ScreenTyped ==
    /\ screen \in [w : Nat, h : Nat] /\ resizing \in [w : Nat, h : Nat] /\ resizes \in Nat
    /\ shown \in SUBSET [w : Nat, h : Nat]

LEMMA TypeByParts ==
    TypeOK <=> /\ pc \in Places /\ stopping \in BOOLEAN
               /\ ThreadTyped /\ InTyped /\ OutTyped /\ EventsTyped /\ ClientTyped /\ ScreenTyped
BY DEF TypeOK, ThreadTyped, InTyped, OutTyped, EventsTyped, ClientTyped, ScreenTyped
LEMMA TypeNext ==
    ASSUME pc' \in Places, stopping' \in BOOLEAN,
           ThreadTyped', InTyped', OutTyped', EventsTyped', ClientTyped', ScreenTyped'
    PROVE  TypeOK'
BY DEF TypeOK, ThreadTyped, InTyped, OutTyped, EventsTyped, ClientTyped, ScreenTyped

\* What stays the same keeps its type.
LEMMA ThreadSameTyped == ThreadTyped /\ UNCHANGED threadVars => ThreadTyped'
BY DEF ThreadTyped, threadVars
LEMMA InSameTyped == InTyped /\ UNCHANGED inVars => InTyped'
BY DEF InTyped, inVars
LEMMA OutSameTyped == OutTyped /\ UNCHANGED outVars => OutTyped'
BY DEF OutTyped, outVars
LEMMA EventsSameTyped == EventsTyped /\ UNCHANGED events => EventsTyped'
BY DEF EventsTyped
LEMMA ClientSameTyped == ClientTyped /\ UNCHANGED clientVars => ClientTyped'
BY DEF ClientTyped, clientVars
LEMMA ScreenSameTyped == ScreenTyped /\ UNCHANGED screenVars => ScreenTyped'
BY DEF ScreenTyped, screenVars

\* The messages of the handshake and those that the client may choose.
LEMMA MessageTyped ==
    /\ NoRect \in Rects /\ Requests \subseteq Message
    /\ \A v \in Asked : Msg("version", v) \in Message
    /\ \A n \in Choices : Msg("choice", n) \in Message
    /\ Msg("clientinit", 0) \in Message
    /\ \A m \in Message : m.n \in Nat /\ m.rect \in Rects
<1>1. NoRect \in Rects
  BY DEF NoRect, Rects
<1>2. Requests \subseteq Message
  BY DEF Message
<1>3. /\ \A v \in Asked : Msg("version", v) \in Message
      /\ \A n \in Choices : Msg("choice", n) \in Message
      /\ Msg("clientinit", 0) \in Message
  BY DEF Message, Handshake
<1>4. ASSUME NEW m \in Message
      PROVE  m.n \in Nat /\ m.rect \in Rects
  <2>1. CASE m \in Requests
    BY <2>1, SessionAssumption DEF SessionAssumption, Rects
  <2>2. CASE m \in Handshake
    <3>1. Asked \subseteq Nat /\ Choices \subseteq Nat
      BY SessionAssumption DEF SessionAssumption
    <3>2. \E type, n : n \in Nat /\ m = Msg(type, n)
      <4>1. CASE \E v \in Asked : m = Msg("version", v)
        BY <3>1, <4>1
      <4>2. CASE \E n \in Choices : m = Msg("choice", n)
        BY <3>1, <4>2
      <4>3. CASE m = Msg("clientinit", 0)
        BY <4>3
      <4> QED
        BY <2>2, <4>1, <4>2, <4>3 DEF Handshake
    <3>3. PICK type, n : n \in Nat /\ m = [type |-> type, n |-> n, rect |-> NoRect]
      BY <3>2 DEF Msg
    <3>4. m.n = n /\ m.rect = NoRect
      BY <3>3
    <3> QED
      BY <1>1, <3>3, <3>4
  <2> QED
    BY <2>1, <2>2 DEF Message
<1> QED
  BY <1>1, <1>2, <1>3, <1>4

\* What has arrived is a message.
LEMMA ArrivedTyped ==
    ASSUME ClientTyped, InTyped, Arrived
    PROVE  /\ handled < Len(asked) /\ Coming \in Message
           /\ Coming.n \in Nat /\ Coming.rect \in Rects
<1>1. asked \in Seq(Message) /\ Len(asked) \in Nat /\ handled \in Nat
  BY DEF ClientTyped, InTyped
<1>2. handled < Len(asked) /\ handled + 1 \in 1..Len(asked)
  BY <1>1 DEF Arrived
<1>3. Coming \in Message
  BY <1>1, <1>2 DEF Coming
<1> QED
  BY <1>2, <1>3, MessageTyped

\* A read moves the thread and its place in the stream.
LEMMA ReadsOnTyped ==
    ASSUME InTyped, NEW next \in Places, ReadsOn(next)
    PROVE  pc' \in Places /\ InTyped'
BY DEF InTyped, ReadsOn, Places
LEMMA FinishedTyped ==
    ASSUME InTyped, NEW inStep, NEW k, NEW next \in Places, Finished(inStep, k, next)
    PROVE  pc' \in Places /\ InTyped'
<1>1. CASE handled' = handled + 1 /\ part' = 0 /\ pc' = next
  BY <1>1 DEF InTyped
<1>2. CASE pc' = "adrift" /\ UNCHANGED inVars
  BY <1>2 DEF InTyped, inVars, Places
<1> QED
  BY <1>1, <1>2 DEF Finished

\* A write puts one more thing into the stream to the client.
LEMMA SayTyped ==
    ASSUME OutTyped, NEW kind \in Kinds, NEW r \in Rects, NEW n \in Nat, Say(kind, r, n)
    PROVE  OutTyped'
<1> DEFINE word == [kind |-> kind, rect |-> r, n |-> n]
<1>1. said' = Append(said, word) /\ word \in [kind : Kinds, rect : Rects, n : Nat]
  BY DEF Say
<1>2. said' \in Seq([kind : Kinds, rect : Rects, n : Nat])
  BY <1>1, AppendProperties, Zenon DEF OutTyped
<1>3. flushed' \in Nat /\ late' \in BOOLEAN
  <2>1. Len(said) \in Nat /\ flushed \in Nat /\ late \in BOOLEAN
    BY DEF OutTyped
  <2>2. CASE flushed' = Len(said) + 1 /\ late' = late
    BY <2>1, <2>2
  <2>3. CASE flushed' = flushed /\ late' = TRUE
    BY <2>1, <2>3
  <2> QED
    BY <2>2, <2>3 DEF Say
<1> QED
  BY <1>2, <1>3 DEF OutTyped

LEMMA HeardTyped ==
    ASSUME EventsTyped, NEW type \in {"key", "pointer", "text"}, NEW n \in Int,
           events' = Append(events, [type |-> type, n |-> n])
    PROVE  EventsTyped'
<1> DEFINE e == [type |-> type, n |-> n]
<1>1. e \in [type : {"key", "pointer", "text"}, n : Int]
  OBVIOUS
<1> QED
  BY <1>1, AppendProperties, Zenon DEF EventsTyped

\* The bytes of a size are numbers.
LEMMA SizeBytes ==
    ASSUME NEW n \in Nat
    PROVE  High(n) \in Nat /\ Low(n) \in Nat
<1>1. ByteBase \in Nat \ {0}
  BY SessionAssumption DEF SessionAssumption
<1>2. n \div ByteBase \in Nat /\ n % ByteBase \in Nat
  BY <1>1
<1>3. \A a, b \in Nat : a * b \in Nat
  OBVIOUS
<1> QED
  BY <1>1, <1>2, <1>3 DEF High, Low

\* The lesser of two numbers, and a rectangle clipped to a size.
LEMMA ClippedTyped ==
    ASSUME NEW r \in Rects, NEW s \in [w : Nat, h : Nat]
    PROVE  Clipped(r, s) \in Rects /\ Whole(s) \in Rects
<1>1. /\ r.x \in Nat /\ r.y \in Nat /\ r.w \in Nat /\ r.h \in Nat
      /\ s.w \in Nat /\ s.h \in Nat
  BY DEF Rects
<1>2. Lesser(r.w, s.w) \in Nat /\ Lesser(r.h, s.h) \in Nat
  BY <1>1 DEF Lesser
<1> QED
  BY <1>1, <1>2 DEF Clipped, Whole, Rects

\* The thread keeps the types: the negotiation ...
LEMMA NegotiateTypes ==
    ASSUME TypeOK, Negotiate
    PROVE  TypeOK'
<1>0. /\ pc \in Places /\ stopping \in BOOLEAN
      /\ ThreadTyped /\ InTyped /\ OutTyped /\ EventsTyped /\ ClientTyped /\ ScreenTyped
  BY TypeByParts
<1>1. ASSUME NEW from, NEW kind \in Kinds, NEW next \in Places, Writes(from, kind, next)
      PROVE  TypeOK'
  <2>1. pc' = next /\ Say(kind, NoRect, 0)
        /\ UNCHANGED <<threadVars, inVars, events, stopping, clientVars, screenVars>>
    BY <1>1 DEF Writes, OutsideSame
  <2>2. OutTyped'
    <3>1. NoRect \in Rects /\ 0 \in Nat
      BY MessageTyped
    <3> QED
      BY <1>0, <2>1, <3>1, SayTyped
  <2>3. ThreadTyped' /\ InTyped' /\ EventsTyped' /\ ClientTyped' /\ ScreenTyped'
    BY <1>0, <2>1, ThreadSameTyped, InSameTyped, EventsSameTyped, ClientSameTyped, ScreenSameTyped
  <2>4. pc' \in Places /\ stopping' \in BOOLEAN
    BY <1>0, <2>1
  <2> QED
    BY <2>2, <2>3, <2>4, TypeNext
<1>2. ASSUME UNCHANGED <<stopping, clientVars, screenVars, outVars, events>>,
             pc' \in Places, ThreadTyped', InTyped'
      PROVE  TypeOK'
  <2>1. OutTyped' /\ EventsTyped' /\ ClientTyped' /\ ScreenTyped' /\ stopping' \in BOOLEAN
    BY <1>0, <1>2, OutSameTyped, EventsSameTyped, ClientSameTyped, ScreenSameTyped
  <2> QED
    BY <1>2, <2>1, TypeNext
<1>3. CASE OfferVersion
  BY <1>1, <1>3 DEF OfferVersion, Kinds, Places, Reading
<1>4. CASE ReadVersion
  <2>1. ThreadTyped'
    BY <1>0, <1>4 DEF ThreadTyped, ReadVersion, Decoded
  <2>2. pc' \in Places /\ InTyped'
    <3>1. "security" \in Places
      BY DEF Places, Writing
    <3> QED
      BY <1>0, <1>4, <3>1, FinishedTyped DEF ReadVersion, ReadsLast
  <2> QED
    BY <1>2, <1>4, <2>1, <2>2 DEF ReadVersion, OutsideSame, Quiet
<1>5. CASE WriteSecurity
  BY <1>1, <1>5 DEF WriteSecurity, Kinds, Places, Reading
<1>6. CASE ReadChoice
  <2>1. ThreadTyped'
    BY <1>0, <1>6, ThreadSameTyped DEF ReadChoice
  <2>2. pc' \in Places /\ InTyped'
    <3>1. BehindChoice \in Places /\ "ended" \in Places
      BY DEF Places, Writing, Reading, BehindChoice
    <3> QED
      BY <1>0, <1>6, <3>1, FinishedTyped, ReadsOnTyped DEF ReadChoice, ReadsLast
  <2> QED
    BY <1>2, <1>6, <2>1, <2>2 DEF ReadChoice, OutsideSame, Quiet
<1>7. CASE WriteResult
  BY <1>1, <1>7 DEF WriteResult, Kinds, Places, Reading
<1>8. CASE ReadClientInit
  <2>1. ThreadTyped'
    BY <1>0, <1>8, ThreadSameTyped DEF ReadClientInit
  <2>2. pc' \in Places /\ InTyped'
    <3>1. "widthhigh" \in Places
      BY DEF Places
    <3> QED
      BY <1>0, <1>8, <3>1, FinishedTyped DEF ReadClientInit, ReadsLast
  <2> QED
    BY <1>2, <1>8, <2>1, <2>2 DEF ReadClientInit, OutsideSame, Quiet
<1>9. CASE ReadSize
  <2>1. /\ High(screen.w) \in Nat /\ Low(screen.w) \in Nat /\ High(screen.h) \in Nat /\ Low(screen.h) \in Nat
        /\ size.w \in Nat /\ size.h \in Nat
    BY <1>0, SizeBytes DEF ThreadTyped, ScreenTyped
  <2>2. pc' \in Places /\ size' \in [w : Nat, h : Nat]
    BY <1>9, <2>1 DEF ReadSize, Places, Writing
  <2>3. ThreadTyped' /\ InTyped'
    BY <1>0, <1>9, <2>2, InSameTyped DEF ReadSize, ThreadTyped
  <2> QED
    BY <1>2, <1>9, <2>2, <2>3 DEF ReadSize, OutsideSame, Quiet
<1>10. CASE WriteServerInit
  <2>1. OutTyped'
    <3>1. Whole(size) \in Rects /\ "serverinit" \in Kinds /\ 4 \in Nat
      BY <1>0, MessageTyped, ClippedTyped DEF ThreadTyped, Kinds
    <3> QED
      BY <1>0, <1>10, <3>1, SayTyped DEF WriteServerInit
  <2>2. ThreadTyped' /\ InTyped' /\ EventsTyped' /\ ClientTyped' /\ ScreenTyped'
    BY <1>0, <1>10, ThreadSameTyped, InSameTyped, EventsSameTyped, ClientSameTyped, ScreenSameTyped
    DEF WriteServerInit, OutsideSame
  <2>3. pc' \in Places /\ stopping' \in BOOLEAN
    BY <1>0, <1>10 DEF WriteServerInit, OutsideSame, Places, Reading
  <2> QED
    BY <2>1, <2>2, <2>3, TypeNext
<1> QED
  BY <1>3, <1>4, <1>5, <1>6, <1>7, <1>8, <1>9, <1>10 DEF Negotiate

\* ... the handlers ...
LEMMA HandleTypes ==
    ASSUME TypeOK, Handle
    PROVE  TypeOK'
<1>0. /\ pc \in Places /\ stopping \in BOOLEAN
      /\ ThreadTyped /\ InTyped /\ OutTyped /\ EventsTyped /\ ClientTyped /\ ScreenTyped
  BY TypeByParts
<1>a. ASSUME OutsideSame, pc' \in Places, ThreadTyped', InTyped', OutTyped', EventsTyped'
      PROVE  TypeOK'
  <2>1. ClientTyped' /\ ScreenTyped' /\ stopping' \in BOOLEAN
    BY <1>0, <1>a, ClientSameTyped, ScreenSameTyped DEF OutsideSame
  <2> QED
    BY <1>a, <2>1, TypeNext
<1>b. ASSUME OutsideSame, Quiet, UNCHANGED events, pc' \in Places, ThreadTyped', InTyped'
      PROVE  TypeOK'
  <2>1. OutTyped' /\ EventsTyped'
    BY <1>0, <1>b, OutSameTyped, EventsSameTyped DEF Quiet
  <2> QED
    BY <1>a, <1>b, <2>1
<1>c. "type" \in Places /\ "ended" \in Places /\ "encoding" \in Places /\ "textbody" \in Places
      /\ "header" \in Places /\ "payload" \in Places /\ "convert" \in Places
      /\ KnownTypes \subseteq Places
  BY DEF Places, Reading, Writing, KnownTypes
<1>1. CASE ReadType
  <2>1. pc' \in Places /\ InTyped'
    <3>1. (IF Coming.type \in KnownTypes THEN Coming.type ELSE "ended") \in Places
      BY <1>c
    <3> QED
      BY <1>0, <1>1, <3>1, ReadsOnTyped DEF ReadType
  <2>2. ThreadTyped'
    BY <1>0, <1>1, ThreadSameTyped DEF ReadType
  <2> QED
    BY <1>1, <1>b, <2>1, <2>2 DEF ReadType
<1>2. CASE SetPixelFormat
  <2>1. pc' \in Places /\ InTyped'
    BY <1>0, <1>2, <1>c, ReadsOnTyped, FinishedTyped DEF SetPixelFormat, ReadsLast
  <2>2. ThreadTyped'
    <3>1. format' \in {0, 1, 2, 4}
      BY <1>0, <1>2 DEF SetPixelFormat, ThreadTyped
    <3> QED
      BY <1>0, <1>2, <3>1 DEF SetPixelFormat, ThreadTyped
  <2> QED
    BY <1>2, <1>b, <2>1, <2>2 DEF SetPixelFormat
<1>3. CASE SetEncodings
  <2>1. pc' \in Places /\ InTyped'
    BY <1>0, <1>3, <1>c, ReadsOnTyped, FinishedTyped DEF SetEncodings, ReadsLast
  <2>2. ThreadTyped'
    <3>1. Arrived
      BY <1>3 DEF SetEncodings, Reads
    <3>2. Coming.n \in Nat
      BY <1>0, <3>1, ArrivedTyped
    <3> QED
      BY <1>0, <1>3, <3>2 DEF SetEncodings, ThreadTyped
  <2> QED
    BY <1>3, <1>b, <2>1, <2>2 DEF SetEncodings
<1>4. CASE ReadEncoding
  <2>1. pc' \in Places /\ InTyped'
    BY <1>0, <1>4, <1>c, ReadsOnTyped, FinishedTyped DEF ReadEncoding, ReadsLast
  <2>2. ThreadTyped'
    BY <1>0, <1>4 DEF ReadEncoding, ThreadTyped
  <2> QED
    BY <1>4, <1>b, <2>1, <2>2 DEF ReadEncoding
<1>5. CASE KeyEvent \/ PointerEvent
  <2>1. PICK type \in {"key", "pointer"} :
           /\ Reads(type) /\ ReadsLast("type") /\ events' = Heard(type)
           /\ OutsideSame /\ Quiet /\ UNCHANGED threadVars
    BY <1>5 DEF KeyEvent, PointerEvent
  <2>2. pc' \in Places /\ InTyped'
    BY <1>0, <1>c, <2>1, FinishedTyped DEF ReadsLast
  <2>3. EventsTyped'
    <3>1. Coming.n \in Int
      BY <1>0, <2>1, ArrivedTyped DEF Reads
    <3> QED
      BY <1>0, <2>1, <3>1, HeardTyped DEF Heard
  <2>4. ThreadTyped' /\ OutTyped'
    BY <1>0, <2>1, ThreadSameTyped, OutSameTyped DEF Quiet
  <2> QED
    BY <1>a, <2>1, <2>2, <2>3, <2>4
<1>6. CASE ClientCutText
  <2>1. pc' \in Places /\ InTyped'
    BY <1>0, <1>6, <1>c, ReadsOnTyped DEF ClientCutText
  <2>2. ThreadTyped'
    <3>1. Coming.n \in Nat
      BY <1>0, <1>6, ArrivedTyped DEF ClientCutText, Reads
    <3>2. Signed(Coming.n) \in Int
      BY <3>1, SessionAssumption DEF SessionAssumption, Signed
    <3> QED
      BY <1>0, <1>6, <3>2 DEF ClientCutText, ThreadTyped
  <2> QED
    BY <1>6, <1>b, <2>1, <2>2 DEF ClientCutText
<1>7. CASE ReadText
  <2>1. pc' \in Places /\ InTyped'
    BY <1>0, <1>7, <1>c, FinishedTyped DEF ReadText, ReadsLast
  <2>2. EventsTyped'
    <3>1. left \in Int
      BY <1>0 DEF ThreadTyped
    <3> QED
      BY <1>0, <1>7, <3>1, HeardTyped DEF ReadText
  <2>3. ThreadTyped' /\ OutTyped'
    BY <1>0, <1>7, ThreadSameTyped, OutSameTyped DEF ReadText, Quiet
  <2> QED
    BY <1>7, <1>a, <2>1, <2>2, <2>3 DEF ReadText
<1>8. CASE UpdateRequest
  <2>1. pc' \in Places /\ InTyped'
    BY <1>0, <1>8, <1>c, ReadsOnTyped DEF UpdateRequest
  <2>2. ThreadTyped'
    <3>1. Coming.rect \in Rects
      BY <1>0, <1>8, ArrivedTyped DEF UpdateRequest, Reads
    <3> QED
      BY <1>0, <1>8, <3>1 DEF UpdateRequest, ThreadTyped
  <2> QED
    BY <1>8, <1>b, <2>1, <2>2 DEF UpdateRequest
<1>9. CASE Convert
  <2>1. rect' \in Rects /\ size' \in [w : Nat, h : Nat]
    BY <1>0, <1>9, ClippedTyped DEF Convert, ThreadTyped, ScreenTyped
  <2>2. format' \in {0, 1, 2, 4}
    BY <1>0, <1>9, SessionAssumption DEF Convert, ThreadTyped, FormatToSend, SessionAssumption
  <2>3. ThreadTyped'
    BY <1>0, <1>9, <2>1, <2>2 DEF Convert, ThreadTyped
  <2>4. pc' \in Places /\ InTyped'
    <3>1. CASE Finished(TRUE, part, "type")
      BY <1>0, <1>c, <3>1, FinishedTyped
    <3>2. CASE pc' = "header" /\ UNCHANGED inVars
      BY <1>0, <1>c, <3>2, InSameTyped
    <3> QED
      BY <1>9, <3>1, <3>2 DEF Convert
  <2> QED
    BY <1>9, <1>b, <2>3, <2>4 DEF Convert
<1>10. CASE WriteHeader
  <2>1. OutTyped'
    <3>1. rect \in Rects /\ "header" \in Kinds /\ 0 \in Nat
      BY <1>0 DEF ThreadTyped, Kinds
    <3> QED
      BY <1>0, <1>10, <3>1, SayTyped DEF WriteHeader
  <2>2. ThreadTyped' /\ InTyped' /\ EventsTyped' /\ pc' \in Places
    BY <1>0, <1>10, <1>c, ThreadSameTyped, InSameTyped, EventsSameTyped DEF WriteHeader
  <2> QED
    BY <1>10, <1>a, <2>1, <2>2 DEF WriteHeader
<1>11. CASE WritePayload
  <2>1. OutTyped'
    <3>1. Whole(size) \in Rects /\ "payload" \in Kinds /\ format \in Nat
      BY <1>0, MessageTyped, ClippedTyped DEF ThreadTyped, Kinds
    <3> QED
      BY <1>0, <1>11, <3>1, SayTyped DEF WritePayload
  <2>2. pc' \in Places /\ InTyped'
    BY <1>0, <1>11, <1>c, FinishedTyped DEF WritePayload
  <2>3. ThreadTyped' /\ EventsTyped'
    BY <1>0, <1>11, ThreadSameTyped, EventsSameTyped DEF WritePayload
  <2> QED
    BY <1>11, <1>a, <2>1, <2>2, <2>3 DEF WritePayload
<1> QED
  BY <1>1, <1>2, <1>3, <1>4, <1>5, <1>6, <1>7, <1>8, <1>9, <1>10, <1>11 DEF Handle

\* ... and its ends.
Ends == StopSeen \/ ReadFails \/ WriteFails \/ ConvertFails \/ AdriftEnds
LEMMA EndsAre ==
    ASSUME Ends
    PROVE  /\ pc' = "ended"
           /\ UNCHANGED <<threadVars, inVars, outVars, events, stopping, clientVars, screenVars>>
BY DEF Ends, StopSeen, ReadFails, WriteFails, ConvertFails, AdriftEnds, End, OutsideSame,
       Quiet

LEMMA EndTypes ==
    ASSUME TypeOK, Ends
    PROVE  TypeOK'
<1>0. /\ pc \in Places /\ stopping \in BOOLEAN
      /\ ThreadTyped /\ InTyped /\ OutTyped /\ EventsTyped /\ ClientTyped /\ ScreenTyped
  BY TypeByParts
<1>1. ThreadTyped' /\ InTyped' /\ OutTyped' /\ EventsTyped' /\ ClientTyped' /\ ScreenTyped'
  BY <1>0, EndsAre, ThreadSameTyped, InSameTyped, OutSameTyped, EventsSameTyped, ClientSameTyped,
     ScreenSameTyped
<1>2. pc' \in Places /\ stopping' \in BOOLEAN
  BY <1>0, EndsAre DEF Places
<1> QED
  BY <1>1, <1>2, TypeNext

\* The client, who only appends to its stream.
ClientStep == ClientReads \/ ClientAsks \/ ClientLeaves
LEMMA ClientTypes ==
    ASSUME TypeOK, ClientStep
    PROVE  TypeOK'
<1>0. /\ pc \in Places /\ stopping \in BOOLEAN
      /\ ThreadTyped /\ InTyped /\ OutTyped /\ EventsTyped /\ ClientTyped /\ ScreenTyped
  BY TypeByParts
<1>1. ThreadSame
  BY DEF ClientStep, ClientReads, ClientAsks, ClientLeaves, ClientHearsVersion, ClientHearsSecurity,
         ClientHearsResult, ClientInits, ClientHearsInit, ClientGoesOn, ClientHearsUpdate
<1>2. heard' \in Nat
  <2>1. heard' = heard \/ heard' = heard + 1 \/ heard' = heard + 2
    BY DEF ClientStep, ClientReads, ClientAsks, ClientLeaves, ClientHearsVersion, ClientHearsSecurity,
           ClientHearsResult, ClientInits, ClientHearsInit, ClientGoesOn, ClientHearsUpdate
  <2> QED
    BY <1>0, <2>1 DEF ClientTyped
<1>3. \/ UNCHANGED asked /\ arrived' \in {arrived, arrived + 1}
      \/ \E m \in Message : Sends(m)
  <2>1. CASE ClientHearsVersion
    BY <2>1, MessageTyped DEF ClientHearsVersion
  <2>2. CASE ClientHearsSecurity
    BY <2>2, MessageTyped DEF ClientHearsSecurity
  <2>3. CASE ClientInits
    BY <2>3, MessageTyped DEF ClientInits
  <2>4. CASE ClientAsks
    BY <2>4, MessageTyped DEF ClientAsks
  <2>5. CASE ClientHearsResult \/ ClientHearsInit \/ ClientHearsUpdate \/ ClientLeaves
    BY <2>5 DEF ClientHearsResult, ClientHearsInit, ClientHearsUpdate, ClientLeaves
  <2>6. CASE ClientGoesOn
    BY <2>6 DEF ClientGoesOn
  <2> QED
    BY <2>1, <2>2, <2>3, <2>4, <2>5, <2>6 DEF ClientStep, ClientReads
<1>4. asked' \in Seq(Message) /\ arrived' \in Nat
  <2>1. asked \in Seq(Message) /\ arrived \in Nat
    BY <1>0 DEF ClientTyped
  <2>2. CASE UNCHANGED asked /\ arrived' \in {arrived, arrived + 1}
    BY <2>1, <2>2
  <2>3. CASE \E m \in Message : Sends(m)
    <3>1. PICK m \in Message : asked' = Append(asked, m) /\ arrived' = 1
      BY <2>3 DEF Sends
    <3>2. Append(asked, m) \in Seq(Message)
      BY <2>1, AppendProperties
    <3> QED
      BY <3>1, <3>2
  <2> QED
    BY <1>3, <2>2, <2>3
<1>5. client' \in ClientPlaces
  BY <1>0 DEF ClientTyped, ClientPlaces, ClientStep, ClientReads, ClientAsks, ClientLeaves,
     ClientHearsVersion, ClientHearsSecurity, ClientHearsResult, ClientInits, ClientHearsInit,
     ClientGoesOn, ClientHearsUpdate
<1>6. ClientTyped'
  BY <1>2, <1>4, <1>5 DEF ClientTyped
<1>7. ThreadTyped' /\ InTyped' /\ OutTyped' /\ EventsTyped' /\ ScreenTyped'
      /\ pc' \in Places /\ stopping' \in BOOLEAN
  BY <1>0, <1>1, ThreadSameTyped, InSameTyped, OutSameTyped, EventsSameTyped, ScreenSameTyped
  DEF ThreadSame
<1> QED
  BY <1>6, <1>7, TypeNext

\* The application, which stops and resizes.
AppStep == AppStops \/ AppResizes \/ AppResized
LEMMA WatchedTyped ==
    ASSUME ScreenTyped, NEW s \in [w : Nat, h : Nat]
    PROVE  Watched(s) \in SUBSET [w : Nat, h : Nat]
BY DEF Watched, ScreenTyped
LEMMA AppTypes ==
    ASSUME TypeOK, AppStep
    PROVE  TypeOK'
<1>0. /\ pc \in Places /\ stopping \in BOOLEAN
      /\ ThreadTyped /\ InTyped /\ OutTyped /\ EventsTyped /\ ClientTyped /\ ScreenTyped
  BY TypeByParts
<1>1. OthersSame
  BY DEF AppStep, AppStops, AppResizes, AppResized
<1>2. stopping' \in BOOLEAN
  BY <1>0 DEF AppStep, AppStops, AppResizes, AppResized
<1>3. ScreenTyped'
  <2>1. CASE AppStops
    BY <1>0, <2>1, ScreenSameTyped DEF AppStops
  <2>2. CASE AppResizes
    <3>1. PICK s \in NewScreens : resizing' = s /\ screen' = [w |-> s.w, h |-> screen.h]
      BY <2>2 DEF AppResizes
    <3>2. s \in [w : Nat, h : Nat]
      BY SessionAssumption DEF SessionAssumption
    <3>3. resizes' = resizes + 1 /\ shown' = Watched(screen')
      BY <2>2 DEF AppResizes
    <3>4. screen' \in [w : Nat, h : Nat] /\ resizing' \in [w : Nat, h : Nat]
      BY <1>0, <3>1, <3>2 DEF ScreenTyped
    <3> QED
      BY <1>0, <3>3, <3>4, WatchedTyped DEF ScreenTyped
  <2>3. CASE AppResized
    <3>1. screen' = resizing /\ resizing' = NoSize /\ resizes' = resizes /\ shown' = Watched(screen')
      BY <2>3 DEF AppResized
    <3> QED
      BY <1>0, <3>1, WatchedTyped DEF ScreenTyped, NoSize
  <2> QED
    BY <2>1, <2>2, <2>3 DEF AppStep
<1>4. ThreadTyped' /\ InTyped' /\ OutTyped' /\ EventsTyped' /\ ClientTyped' /\ pc' \in Places
  BY <1>0, <1>1, ThreadSameTyped, InSameTyped, OutSameTyped, EventsSameTyped, ClientSameTyped
  DEF OthersSame
<1> QED
  BY <1>2, <1>3, <1>4, TypeNext

-----------------------------------------------------------------------------
(* The thread in step *)

\* The parts of the messages.
LEMMA PartsOfMessage ==
    ASSUME NEW m, m.n \in Nat
    PROVE  /\ m.type = "version" => Parts(m) = <<12>>
           /\ m.type \in {"choice", "clientinit"} => Parts(m) = <<1>>
           /\ m.type = "format" => Parts(m) = <<1, 19>>
           /\ m.type = "update" => Parts(m) = <<1, 9>>
           /\ m.type = "key" => Parts(m) = <<1, 7>>
           /\ m.type = "pointer" => Parts(m) = <<1, 5>>
           /\ m.type = "text" /\ m.n = 0 => Parts(m) = <<1, 7>>
           /\ m.type = "text" /\ m.n # 0 => Parts(m) = <<1, 7, m.n>>
BY DEF Parts
LEMMA PartsOfEncodings ==
    ASSUME NEW m, m.n \in Nat, m.type = "encodings"
    PROVE  /\ Len(Parts(m)) = 2 + m.n
           /\ Parts(m)[1] = 1 /\ Parts(m)[2] = 3
           /\ \A i \in 3..2 + m.n : Parts(m)[i] = 4
<1> DEFINE head == <<1, 3>>
           tail == [i \in 1..m.n |-> 4]
<1>1. Parts(m) = head \o tail
  BY DEF Parts
<1>2. head \in Seq(Nat) /\ Len(head) = 2 /\ head[1] = 1 /\ head[2] = 3
  OBVIOUS
<1>3. tail \in Seq(Nat) /\ Len(tail) = m.n /\ \A i \in 1..m.n : tail[i] = 4
  OBVIOUS
<1> HIDE DEF head, tail
<1>4. /\ Len(head \o tail) = Len(head) + Len(tail)
      /\ \A i \in 1..Len(head) + Len(tail) :
            (head \o tail)[i] = IF i <= Len(head) THEN head[i] ELSE tail[i - Len(head)]
  BY <1>2, <1>3, ConcatProperties, ZenonT(60)
<1>5. \A i \in 1..2 + m.n : Parts(m)[i] = IF i <= 2 THEN head[i] ELSE tail[i - 2]
  BY <1>1, <1>2, <1>3, <1>4
<1>6. Len(Parts(m)) = 2 + m.n
  BY <1>1, <1>2, <1>3, <1>4
<1>7. Parts(m)[1] = 1 /\ Parts(m)[2] = 3
  BY <1>2, <1>5
<1>8. ASSUME NEW i \in 3..2 + m.n
      PROVE  Parts(m)[i] = 4
  <2>1. i \in 1..2 + m.n /\ ~(i <= 2) /\ i - 2 \in 1..m.n
    OBVIOUS
  <2> QED
    BY <1>3, <1>5, <2>1
<1> QED
  BY <1>6, <1>7, <1>8

\* A request begins with its type.
LEMMA RequestBegins ==
    ASSUME NEW m \in Requests
    PROVE  /\ m.n \in Nat /\ Len(Parts(m)) \in Nat \ {0} /\ Parts(m)[1] = 1
           /\ m.type \in {"format", "encodings", "update", "key", "pointer", "text", "unknown"}
           /\ m.type = "text" => m.n <= TopLength
<1>1. /\ m.n \in Nat
      /\ m.type \in {"format", "encodings", "update", "key", "pointer", "text", "unknown"}
      /\ m.type = "text" => m.n <= TopLength
  BY SessionAssumption DEF SessionAssumption
<1>2. CASE m.type = "encodings"
  BY <1>1, <1>2, PartsOfEncodings
<1>3. CASE m.type = "unknown"
  <2>1. Parts(m) = <<1>>
    BY <1>3 DEF Parts
  <2> QED
    BY <1>1, <2>1
<1>4. CASE m.type \in {"format", "update", "key", "pointer", "text"}
  <2>1. \/ Parts(m) = <<1, 19>> \/ Parts(m) = <<1, 9>> \/ Parts(m) = <<1, 7>> \/ Parts(m) = <<1, 5>>
        \/ Parts(m) = <<1, 7, m.n>>
    BY <1>1, <1>4, PartsOfMessage
  <2>2. Len(Parts(m)) \in {2, 3} /\ Parts(m)[1] = 1
    BY <2>1
  <2> QED
    BY <1>1, <2>2
<1> QED
  BY <1>1, <1>2, <1>3, <1>4

\* Behind the handshake the client sends requests.
LEMMA RequestsBehind ==
    ASSUME SInv, handled \in Nat, handled >= Steps, handled < Len(asked)
    PROVE  Coming \in Requests
<1>1. Steps \in {2, 3}
  BY DEF Steps
<1>2. asked \in Seq(Message) /\ Len(asked) \in Nat
  BY DEF SInv, TypeOK
<1>3. handled + 1 \in 1..Len(asked) /\ handled + 1 > 1 /\ handled + 1 > Steps
  BY <1>1, <1>2
<1> QED
  BY <1>3 DEF SInv, HandshakeFirst, Coming

\* What a step of the thread leaves alone.
LEMMA ClientUnmoved ==
    ASSUME SInv, UNCHANGED <<asked, client>>
    PROVE  HandshakeFirst' /\ ClientAt'
BY DEF SInv, HandshakeFirst, ClientAt, Steps, Spoken

\* The thread has done with a message of the handshake, or with a request, ...
LEMMA NextMessage ==
    ASSUME SInv, UNCHANGED <<asked, version>>, handled \in Nat, handled < Len(asked),
           handled >= Steps, version = Spoken,
           handled' = handled + 1, part' = 0, pc' = "type"
    PROVE  ThreadAt' /\ MessageAt' /\ Astray'
<1>1. Steps' = Steps /\ Spoken' = Spoken /\ Steps \in {2, 3}
  BY DEF Steps, Spoken
<1>2. Len(asked) \in Nat
  BY DEF SInv, TypeOK
<1>3. ThreadAt'
  BY <1>1, <1>2 DEF ThreadAt, Sizing, Inside, Bodies
<1> QED
  BY <1>3 DEF MessageAt, Astray, Inside, Bodies
\* ... or has read one more part of it, or ends.
LEMMA SameMessage ==
    ASSUME SInv, UNCHANGED <<asked, version, handled>>, handled \in Nat, handled < Len(asked),
           handled >= Steps, version = Spoken, pc' \in Inside
    PROVE  ThreadAt' /\ Astray'
<1>1. Steps' = Steps /\ Spoken' = Spoken /\ Steps \in {2, 3}
  BY DEF Steps, Spoken
<1>2. Len(asked) \in Nat
  BY DEF SInv, TypeOK
<1>3. pc' \notin {"offer", "version", "ended", "adrift", "security", "choice", "result", "clientinit"}
  BY DEF Inside, Bodies
<1>4. ThreadAt'
  BY <1>1, <1>2, <1>3 DEF ThreadAt
<1> QED
  BY <1>3, <1>4 DEF Astray
LEMMA NowEnded ==
    ASSUME pc' = "ended"
    PROVE  ThreadAt' /\ MessageAt' /\ Astray'
BY DEF ThreadAt, MessageAt, Astray, Sizing, Inside, Bodies

\* The bytes a place wants, and that they come.
LEMMA ExpectedReads ==
    ASSUME NEW next, Expected
    PROVE  /\ ReadsOn(next) => part' = part + 1 /\ handled' = handled /\ pc' = next
           /\ ReadsLast(next) /\ part + 1 = Len(Parts(Coming))
                => handled' = handled + 1 /\ part' = 0 /\ pc' = next
BY DEF ReadsOn, ReadsLast, Finished

\* The negotiation stays in step.
LEMMA NegotiatePlaces ==
    ASSUME SInv, Negotiate
    PROVE  HandshakeFirst' /\ ClientAt' /\ ThreadAt' /\ MessageAt' /\ Astray'
<1>0. /\ asked \in Seq(Message) /\ Len(asked) \in Nat /\ handled \in Nat /\ part \in Nat
      /\ version \in {0, 3, 7, 8} /\ ClientTyped /\ InTyped
  BY TypeByParts DEF SInv, TypeOK, InTyped
<1>1. UNCHANGED <<asked, client>>
  BY DEF Negotiate, OfferVersion, ReadVersion, WriteSecurity, ReadChoice, WriteResult, ReadClientInit,
         ReadSize, WriteServerInit, Writes, OutsideSame, clientVars
<1>2. HandshakeFirst' /\ ClientAt'
  BY <1>1, ClientUnmoved
<1>3. Steps' = Steps /\ Spoken' = Spoken /\ Steps \in {2, 3} /\ (Steps = 2 <=> Spoken = 3)
      /\ Spoken \in {3, 7, 8}
  BY <1>1 DEF Steps, Spoken
<1>4. ASSUME pc' \notin Inside \cup {"adrift"}, ThreadAt'
      PROVE  HandshakeFirst' /\ ClientAt' /\ ThreadAt' /\ MessageAt' /\ Astray'
  BY <1>2, <1>4 DEF MessageAt, Astray, Inside, Bodies
<1>5. CASE OfferVersion
  <2>1. pc = "offer" /\ pc' = "version" /\ UNCHANGED <<version, handled, part>>
    BY <1>5 DEF OfferVersion, Writes, threadVars, inVars
  <2>2. handled = 0 /\ part = 0
    BY <2>1 DEF SInv, ThreadAt, Inside, Bodies
  <2>3. ThreadAt'
    BY <2>1, <2>2 DEF ThreadAt, Sizing, Inside, Bodies
  <2> QED
    BY <1>4, <2>1, <2>3 DEF Inside, Bodies
<1>6. CASE ReadVersion
  <2>1. pc = "version" /\ Arrived /\ version' = Decoded(Coming.n) /\ ReadsLast("security")
    BY <1>6 DEF ReadVersion, Reads
  <2>2. handled = 0 /\ part = 0
    BY <2>1 DEF SInv, ThreadAt, Inside, Bodies
  <2>3. handled < Len(asked) /\ Coming = asked[1] /\ Coming.n \in Nat
    BY <1>0, <2>1, <2>2, ArrivedTyped DEF Coming
  <2>4. Coming.type = "version" /\ Parts(Coming) = <<12>>
    <3>1. asked[1].type = "version"
      BY <1>0, <2>2, <2>3 DEF SInv, HandshakeFirst
    <3> QED
      BY <2>3, <3>1, PartsOfMessage
  <2>5. Expected
    BY <2>1, <2>2, <2>4 DEF Expected, Bytes
  <2>6. handled' = 1 /\ part' = 0 /\ pc' = "security"
    BY <2>1, <2>2, <2>4, <2>5, ExpectedReads
  <2>7. version' = Spoken
    BY <2>1, <2>3 DEF Decoded, Spoken
  <2>8. ThreadAt'
    BY <1>0, <1>1, <1>3, <2>2, <2>3, <2>6, <2>7 DEF ThreadAt, Sizing, Inside, Bodies
  <2> QED
    BY <1>4, <2>6, <2>8 DEF Inside, Bodies
<1>7. CASE WriteSecurity
  <2>1. /\ pc = "security" /\ pc' = (IF version < 7 THEN "clientinit" ELSE "choice")
        /\ UNCHANGED <<version, handled, part>>
    BY <1>7 DEF WriteSecurity, Writes, threadVars, inVars
  <2>2. handled = 1 /\ handled <= Len(asked) /\ version = Spoken /\ part = 0
    BY <2>1 DEF SInv, ThreadAt, Inside, Bodies
  <2>3. ThreadAt'
    BY <1>0, <1>1, <1>3, <2>1, <2>2 DEF ThreadAt, Sizing, Inside, Bodies
  <2> QED
    BY <1>4, <2>1, <2>3 DEF Inside, Bodies
<1>8. CASE ReadChoice
  <2>1. pc = "choice" /\ Arrived /\ UNCHANGED version
        /\ (IF Coming.n = 1 THEN ReadsLast(BehindChoice) ELSE ReadsOn("ended"))
    BY <1>8 DEF ReadChoice, Reads, threadVars
  <2>2. handled = 1 /\ part = 0 /\ version >= 7 /\ version = Spoken
    BY <2>1 DEF SInv, ThreadAt, Inside, Bodies
  <2>3. handled < Len(asked) /\ Coming = asked[2] /\ Coming.n \in Nat
    BY <1>0, <2>1, <2>2, ArrivedTyped DEF Coming
  <2>4. Coming.type = "choice" /\ Parts(Coming) = <<1>>
    <3>1. asked[2].type = "choice"
      BY <1>0, <2>2, <2>3 DEF SInv, HandshakeFirst
    <3> QED
      BY <2>3, <3>1, PartsOfMessage
  <2>5. Expected
    BY <2>1, <2>2, <2>4 DEF Expected, Bytes
  <2>6. CASE Coming.n = 1
    <3>1. handled' = 2 /\ part' = 0 /\ pc' = BehindChoice
      BY <2>1, <2>2, <2>4, <2>5, <2>6, ExpectedReads
    <3>2. pc' = (IF version = 8 THEN "result" ELSE "clientinit")
      BY <1>0, <2>2, <3>1 DEF BehindChoice
    <3>3. ThreadAt'
      BY <1>0, <1>1, <1>3, <2>1, <2>2, <2>3, <3>1, <3>2 DEF ThreadAt, Sizing, Inside, Bodies
    <3> QED
      BY <1>4, <3>2, <3>3 DEF Inside, Bodies
  <2>7. CASE Coming.n # 1
    <3>1. pc' = "ended"
      BY <2>1, <2>5, <2>7, ExpectedReads
    <3> QED
      BY <1>2, <3>1, NowEnded
  <2> QED
    BY <2>6, <2>7
<1>9. CASE WriteResult
  <2>1. pc = "result" /\ pc' = "clientinit" /\ UNCHANGED <<version, handled, part>>
    BY <1>9 DEF WriteResult, Writes, threadVars, inVars
  <2>2. handled = 2 /\ handled <= Len(asked) /\ version = Spoken /\ version = 8 /\ part = 0
    BY <2>1 DEF SInv, ThreadAt, Inside, Bodies
  <2>3. ThreadAt'
    BY <1>0, <1>1, <1>3, <2>1, <2>2 DEF ThreadAt, Sizing, Inside, Bodies
  <2> QED
    BY <1>4, <2>1, <2>3 DEF Inside, Bodies
<1>10. CASE ReadClientInit
  <2>1. pc = "clientinit" /\ Arrived /\ UNCHANGED version /\ ReadsLast("widthhigh")
    BY <1>10 DEF ReadClientInit, Reads, threadVars
  <2>2. handled = Steps - 1 /\ part = 0 /\ version = Spoken
    BY <2>1 DEF SInv, ThreadAt, Inside, Bodies
  <2>3. handled < Len(asked) /\ Coming = asked[Steps] /\ Coming.n \in Nat
    BY <1>0, <1>3, <2>1, <2>2, ArrivedTyped DEF Coming
  <2>4. Coming.type = "clientinit" /\ Parts(Coming) = <<1>>
    <3>1. asked[Steps].type = "clientinit"
      BY <1>0, <1>3, <2>2, <2>3 DEF SInv, HandshakeFirst
    <3> QED
      BY <2>3, <3>1, PartsOfMessage
  <2>5. Expected
    BY <2>1, <2>2, <2>4 DEF Expected, Bytes
  <2>6. handled' = Steps /\ part' = 0 /\ pc' = "widthhigh"
    BY <1>3, <2>1, <2>2, <2>4, <2>5, ExpectedReads
  <2>7. ThreadAt'
    BY <1>0, <1>1, <1>3, <2>1, <2>2, <2>3, <2>6 DEF ThreadAt, Sizing, Inside, Bodies
  <2> QED
    BY <1>4, <2>6, <2>7 DEF Inside, Bodies
<1>11. CASE ReadSize \/ WriteServerInit
  <2>1. pc \in Sizing /\ pc' \in Sizing \cup {"type"} /\ UNCHANGED <<version, handled, part>>
    BY <1>11 DEF ReadSize, WriteServerInit, Sizing, threadVars, inVars
  <2>2. handled >= Steps /\ 1 <= handled /\ handled <= Len(asked) /\ version = Spoken /\ part = 0
    BY <2>1 DEF SInv, ThreadAt, Sizing, Inside, Bodies
  <2>3. ThreadAt'
    BY <1>0, <1>1, <1>3, <2>1, <2>2 DEF ThreadAt, Sizing, Inside, Bodies
  <2> QED
    BY <1>4, <2>1, <2>3 DEF Sizing, Inside, Bodies
<1> QED
  BY <1>5, <1>6, <1>7, <1>8, <1>9, <1>10, <1>11 DEF Negotiate

\* Inside a request: which one, and how far the stream goes.
LEMMA InsideRequest ==
    ASSUME SInv, pc \in Inside
    PROVE  /\ handled \in Nat /\ part \in Nat /\ Len(asked) \in Nat /\ left \in Int
           /\ handled < Len(asked) /\ handled >= Steps /\ version = Spoken
           /\ Coming \in Requests /\ Coming.n \in Nat
<1>1. handled \in Nat /\ part \in Nat /\ Len(asked) \in Nat /\ left \in Int
  BY DEF SInv, TypeOK
<1>2. handled < Len(asked)
  BY DEF SInv, MessageAt
<1>3. handled >= Steps /\ version = Spoken
  BY DEF SInv, ThreadAt, Inside, Bodies
<1>4. Coming \in Requests
  BY <1>1, <1>2, <1>3, RequestsBehind
<1> QED
  BY <1>1, <1>2, <1>3, <1>4, RequestBegins

\* The fixed part behind the type is the one its handler reads.
LEMMA BodyExpected ==
    ASSUME SInv, pc \in Bodies
    PROVE  /\ Expected /\ part = 1 /\ Coming.type = pc
           /\ pc \in {"format", "update", "key", "pointer"} => Len(Parts(Coming)) = 2
           /\ pc = "encodings" => Len(Parts(Coming)) = 2 + Coming.n
<1>1. Coming.n \in Nat
  BY InsideRequest DEF Inside
<1>2. part = 1 /\ Coming.type = pc
  BY DEF SInv, MessageAt
<1>3. CASE pc = "encodings"
  <2>1. Len(Parts(Coming)) = 2 + Coming.n /\ Parts(Coming)[2] = 3
    BY <1>1, <1>2, <1>3, PartsOfEncodings
  <2> QED
    BY <1>1, <1>2, <1>3, <2>1 DEF Expected, Bytes
<1>4. CASE pc = "text"
  <2>1. Parts(Coming) = <<1, 7>> \/ Parts(Coming) = <<1, 7, Coming.n>>
    BY <1>1, <1>2, <1>4, PartsOfMessage
  <2>2. Len(Parts(Coming)) >= 2 /\ Parts(Coming)[2] = 7
    BY <2>1
  <2> QED
    BY <1>2, <1>4, <2>2 DEF Expected, Bytes
<1>5. CASE pc \in {"format", "update", "key", "pointer"}
  <2>1. Parts(Coming) = <<1, Bytes>>
    BY <1>1, <1>2, <1>5, PartsOfMessage DEF Bytes
  <2>2. Len(Parts(Coming)) = 2 /\ Parts(Coming)[2] = Bytes
    BY <2>1
  <2> QED
    BY <1>2, <1>5, <2>2 DEF Expected
<1> QED
  BY <1>2, <1>3, <1>4, <1>5 DEF Bodies

\* The thread has done with a request, or reads on in it.
LEMMA RequestDone ==
    ASSUME SInv, pc \in Inside, UNCHANGED <<asked, version>>,
           handled' = handled + 1, part' = 0, pc' = "type"
    PROVE  ThreadAt' /\ MessageAt' /\ Astray'
BY InsideRequest, NextMessage
LEMMA RequestGoesOn ==
    ASSUME SInv, pc \in Inside, UNCHANGED <<asked, version, handled>>, pc' \in Inside
    PROVE  /\ ThreadAt' /\ Astray' /\ Coming' = Coming
           /\ handled' < Len(asked')
BY InsideRequest, SameMessage DEF Coming

\* The rest of a text: none, all of it, or, of the largest one, what is left.
LEMMA SignedLength ==
    ASSUME NEW n \in Nat, n <= TopLength
    PROVE  /\ Signed(n) \in Int
           /\ Signed(n) > 0 => Signed(n) = n
           /\ Signed(n) = 0 => n = 0
           /\ Signed(n) = -1 => n = TopLength
<1>1. TopLength \in Nat /\ TopLength % 2 = 1
  BY SessionAssumption DEF SessionAssumption
<1>2. CASE n > TopLength \div 2
  <2>1. Signed(n) = n - (TopLength + 1)
    BY <1>2 DEF Signed
  <2> QED
    BY <1>1, <2>1
<1>3. CASE ~(n > TopLength \div 2)
  <2>1. Signed(n) = n
    BY <1>3 DEF Signed
  <2> QED
    BY <1>1, <2>1
<1> QED
  BY <1>2, <1>3

\* The handlers stay in step, but for the text of the largest length.
LEMMA HandlePlaces ==
    ASSUME SInv, Handle
    PROVE  HandshakeFirst' /\ ClientAt' /\ ThreadAt' /\ MessageAt' /\ Astray'
<1>0. ClientTyped /\ InTyped /\ asked \in Seq(Message) /\ Len(asked) \in Nat
      /\ handled \in Nat /\ part \in Nat
  BY TypeByParts DEF SInv, TypeOK, InTyped
<1>1. UNCHANGED <<asked, client, version>>
  BY DEF Handle, ReadType, SetPixelFormat, SetEncodings, ReadEncoding, KeyEvent, PointerEvent,
         ClientCutText, ReadText, UpdateRequest, Convert, WriteHeader, WritePayload, OutsideSame,
         clientVars, threadVars
<1>2. HandshakeFirst' /\ ClientAt'
  BY <1>1, ClientUnmoved
<1>3. ASSUME ThreadAt' /\ MessageAt' /\ Astray'
      PROVE  HandshakeFirst' /\ ClientAt' /\ ThreadAt' /\ MessageAt' /\ Astray'
  BY <1>2, <1>3
<1>4. CASE ReadType
  <2>1. pc = "type" /\ Arrived
        /\ ReadsOn(IF Coming.type \in KnownTypes THEN Coming.type ELSE "ended")
    BY <1>4 DEF ReadType, Reads
  <2>2. part = 0 /\ handled >= Steps /\ version = Spoken
    BY <2>1 DEF SInv, ThreadAt, Inside, Bodies
  <2>3. handled < Len(asked) /\ Coming \in Requests
    BY <1>0, <2>1, <2>2, ArrivedTyped, RequestsBehind
  <2>4. Len(Parts(Coming)) \in Nat \ {0} /\ Parts(Coming)[1] = 1
    BY <2>3, RequestBegins
  <2>5. Bytes = 1
    BY <2>1 DEF Bytes
  <2>6. Expected
    BY <2>1, <2>2, <2>4, <2>5 DEF Expected
  <2>7. /\ part' = 1 /\ handled' = handled
        /\ pc' = IF Coming.type \in KnownTypes THEN Coming.type ELSE "ended"
    BY <2>1, <2>2, <2>6, ExpectedReads
  <2>8. CASE Coming.type \in KnownTypes
    <3>1. pc' \in Bodies /\ pc' = Coming.type
      BY <2>7, <2>8 DEF KnownTypes, Bodies
    <3>2. ThreadAt' /\ Astray'
      BY <1>0, <1>1, <2>2, <2>3, <2>7, <3>1, SameMessage DEF Inside
    <3>3. Coming' = Coming
      BY <1>1, <2>7 DEF Coming
    <3>4. MessageAt'
      BY <1>1, <2>3, <2>7, <3>1, <3>3 DEF MessageAt, Bodies
    <3> QED
      BY <1>3, <3>2, <3>4
  <2>9. CASE Coming.type \notin KnownTypes
    BY <1>3, <2>7, <2>9, NowEnded
  <2> QED
    BY <2>8, <2>9
<1>5. CASE SetPixelFormat
  <2>1. pc = "format" /\ (ReadsLast("type") \/ ReadsOn("ended"))
    BY <1>5 DEF SetPixelFormat, Reads
  <2>2. Expected /\ part = 1 /\ Len(Parts(Coming)) = 2 /\ pc \in Inside
    BY <2>1, BodyExpected DEF Inside, Bodies
  <2>3. \/ handled' = handled + 1 /\ part' = 0 /\ pc' = "type"
        \/ pc' = "ended"
    BY <2>1, <2>2, ExpectedReads
  <2> QED
    BY <1>1, <1>3, <2>2, <2>3, RequestDone, NowEnded
<1>6. CASE SetEncodings
  <2>1. /\ pc = "encodings" /\ left' = Coming.n
        /\ IF Coming.n = 0 THEN ReadsLast("type") ELSE ReadsOn("encoding")
    BY <1>6 DEF SetEncodings, Reads
  <2>2. Expected /\ part = 1 /\ Len(Parts(Coming)) = 2 + Coming.n /\ pc \in Inside
        /\ Coming.type = "encodings"
    BY <2>1, BodyExpected DEF Inside, Bodies
  <2>3. Coming.n \in Nat /\ handled < Len(asked)
    BY <2>2, InsideRequest
  <2>4. CASE Coming.n = 0
    <3>1. handled' = handled + 1 /\ part' = 0 /\ pc' = "type"
      BY <2>1, <2>2, <2>4, ExpectedReads
    <3> QED
      BY <1>1, <1>3, <2>2, <3>1, RequestDone
  <2>5. CASE Coming.n # 0
    <3>1. handled' = handled /\ part' = 2 /\ pc' = "encoding"
      BY <2>1, <2>2, <2>5, ExpectedReads
    <3>2. ThreadAt' /\ Astray' /\ Coming' = Coming /\ handled' < Len(asked')
      BY <1>1, <2>2, <3>1, RequestGoesOn DEF Inside
    <3>3. left' \in 1..Coming.n /\ 2 = 2 + (Coming.n - left')
      BY <2>1, <2>3, <2>5
    <3>4. MessageAt'
      BY <2>2, <3>1, <3>2, <3>3 DEF MessageAt, Bodies
    <3> QED
      BY <1>3, <3>2, <3>4
  <2> QED
    BY <2>4, <2>5
<1>7. CASE ReadEncoding
  <2>1. /\ pc = "encoding" /\ left' = left - 1
        /\ IF left = 1 THEN ReadsLast("type") ELSE ReadsOn("encoding")
    BY <1>7 DEF ReadEncoding, Reads, LastEncoding
  <2>2. pc \in Inside
    BY <2>1 DEF Inside
  <2>3. /\ Coming.type = "encodings" /\ left \in 1..Coming.n
        /\ part = 2 + (Coming.n - left) /\ Coming.n \in Nat /\ left \in Int
    BY <2>1, <2>2, InsideRequest DEF SInv, MessageAt
  <2>4. part + 1 \in 3..2 + Coming.n /\ part < 2 + Coming.n
    BY <2>3
  <2>5. Expected
    <3>1. Len(Parts(Coming)) = 2 + Coming.n /\ Parts(Coming)[part + 1] = 4
      BY <2>3, <2>4, PartsOfEncodings
    <3> QED
      BY <2>1, <2>4, <3>1 DEF Expected, Bytes
  <2>6. CASE left = 1
    <3>1. part + 1 = Len(Parts(Coming))
      BY <2>3, <2>6, PartsOfEncodings
    <3>2. handled' = handled + 1 /\ part' = 0 /\ pc' = "type"
      BY <2>1, <2>5, <2>6, <3>1, ExpectedReads
    <3> QED
      BY <1>1, <1>3, <2>2, <3>2, RequestDone
  <2>7. CASE left # 1
    <3>1. handled' = handled /\ part' = part + 1 /\ pc' = "encoding"
      BY <2>1, <2>5, <2>7, ExpectedReads
    <3>2. ThreadAt' /\ Astray' /\ Coming' = Coming /\ handled' < Len(asked')
      BY <1>1, <2>2, <3>1, RequestGoesOn DEF Inside
    <3>3. left' \in 1..Coming.n /\ part + 1 = 2 + (Coming.n - left')
      BY <2>1, <2>3, <2>7
    <3>4. MessageAt'
      BY <2>3, <3>1, <3>2, <3>3 DEF MessageAt, Bodies
    <3> QED
      BY <1>3, <3>2, <3>4
  <2> QED
    BY <2>6, <2>7
<1>8. CASE KeyEvent \/ PointerEvent
  <2>1. pc \in {"key", "pointer"} /\ ReadsLast("type")
    BY <1>8 DEF KeyEvent, PointerEvent, Reads
  <2>2. Expected /\ part = 1 /\ Len(Parts(Coming)) = 2 /\ pc \in Inside
    BY <2>1, BodyExpected DEF Inside, Bodies
  <2>3. handled' = handled + 1 /\ part' = 0 /\ pc' = "type"
    BY <2>1, <2>2, ExpectedReads
  <2> QED
    BY <1>1, <1>3, <2>2, <2>3, RequestDone
<1>9. CASE ClientCutText
  <2>1. /\ pc = "text" /\ left' = Signed(Coming.n)
        /\ \/ Signed(Coming.n) >= -1 /\ ReadsOn("textbody")
           \/ ReadsOn("ended")
    BY <1>9 DEF ClientCutText, Reads
  <2>2. Expected /\ part = 1 /\ pc \in Inside /\ Coming.type = "text"
    BY <2>1, BodyExpected DEF Inside, Bodies
  <2>3. CASE ReadsOn("ended")
    <3>1. pc' = "ended"
      BY <2>2, <2>3, ExpectedReads
    <3> QED
      BY <1>3, <3>1, NowEnded
  <2>4. CASE Signed(Coming.n) >= -1 /\ ReadsOn("textbody")
    <3>1. handled' = handled /\ part' = 2 /\ pc' = "textbody"
      BY <2>2, <2>4, ExpectedReads
    <3>2. ThreadAt' /\ Astray' /\ Coming' = Coming /\ handled' < Len(asked')
      BY <1>1, <2>2, <3>1, RequestGoesOn DEF Inside
    <3>3. MessageAt'
      BY <2>1, <2>2, <2>4, <3>1, <3>2 DEF MessageAt, Bodies, Signed
    <3> QED
      BY <1>3, <3>2, <3>3
  <2> QED
    BY <2>1, <2>3, <2>4
<1>10. CASE ReadText
  <2>1. /\ pc = "textbody"
        /\ IF left > 0 THEN ReadsLast("type") ELSE Finished(TRUE, part, "type")
    BY <1>10 DEF ReadText
  <2>2. pc \in Inside
    BY <2>1 DEF Inside
  <2>3. /\ Coming.type = "text" /\ part = 2 /\ left = Signed(Coming.n) /\ left >= -1
        /\ Coming \in Requests /\ Coming.n \in Nat /\ left \in Int /\ handled < Len(asked)
    BY <2>1, <2>2, InsideRequest DEF SInv, MessageAt
  <2>4. Coming.n <= TopLength
    BY <2>3, RequestBegins
  <2>5. ASSUME handled' = handled + 1 /\ part' = 0 /\ pc' = "type"
        PROVE  ThreadAt' /\ MessageAt' /\ Astray'
    BY <1>1, <2>2, <2>5, RequestDone
  <2>6. CASE left > 0
    <3>1. Coming.n = left /\ Coming.n # 0
      BY <2>3, <2>4, <2>6, SignedLength
    <3>2. Parts(Coming) = <<1, 7, left>>
      BY <2>3, <3>1, PartsOfMessage
    <3>3. Len(Parts(Coming)) = 3 /\ Parts(Coming)[3] = left
      BY <3>2
    <3>4. Expected
      BY <2>1, <2>3, <3>3 DEF Expected, Bytes
    <3>5. handled' = handled + 1 /\ part' = 0 /\ pc' = "type"
      BY <2>1, <2>3, <2>6, <3>3, <3>4, ExpectedReads
    <3> QED
      BY <1>3, <2>5, <3>5
  <2>7. CASE left = 0
    <3>1. Coming.n = 0
      BY <2>3, <2>4, <2>7, SignedLength
    <3>2. Len(Parts(Coming)) = 2
      <4>1. Parts(Coming) = <<1, 7>>
        BY <2>3, <3>1, PartsOfMessage
      <4> QED
        BY <4>1
    <3>3. handled' = handled + 1 /\ part' = 0 /\ pc' = "type"
      BY <2>1, <2>3, <2>7, <3>2 DEF Finished
    <3> QED
      BY <1>3, <2>5, <3>3
  <2>8. CASE left = -1
    <3>1. Coming.n = TopLength
      BY <2>3, <2>4, <2>8, SignedLength
    <3>2. TopLength \in Nat /\ TopLength # 0
      BY SessionAssumption DEF SessionAssumption
    <3>3. Len(Parts(Coming)) = 3
      <4>1. Parts(Coming) = <<1, 7, Coming.n>>
        BY <2>3, <3>1, <3>2, PartsOfMessage
      <4> QED
        BY <4>1
    <3>4. pc' = "adrift" /\ handled' = handled /\ part' = part
      BY <2>1, <2>3, <2>8, <3>3 DEF Finished, inVars
    <3>5. LargestText'
      <4>1. handled + 1 \in 1..Len(asked')
        BY <1>0, <1>1, <2>3
      <4>2. asked'[handled + 1].type = "text" /\ asked'[handled + 1].n = TopLength
        BY <1>1, <2>3, <3>1 DEF Coming
      <4> QED
        BY <4>1, <4>2 DEF LargestText
    <3>6. ThreadAt' /\ MessageAt'
      BY <3>4 DEF ThreadAt, MessageAt, Sizing, Inside, Bodies
    <3> QED
      BY <1>3, <3>5, <3>6 DEF Astray
  <2>9. left > 0 \/ left = 0 \/ left = -1
    BY <2>3
  <2> QED
    BY <2>6, <2>7, <2>8, <2>9
<1>11. CASE UpdateRequest
  <2>1. pc = "update" /\ ReadsOn("convert")
    BY <1>11 DEF UpdateRequest, Reads
  <2>2. Expected /\ part = 1 /\ pc \in Inside /\ Coming.type = "update"
    BY <2>1, BodyExpected DEF Inside, Bodies
  <2>3. handled' = handled /\ part' = 2 /\ pc' = "convert"
    BY <2>1, <2>2, ExpectedReads
  <2>4. ThreadAt' /\ Astray' /\ Coming' = Coming /\ handled' < Len(asked')
    BY <1>1, <2>2, <2>3, RequestGoesOn DEF Inside
  <2>5. MessageAt'
    BY <2>2, <2>3, <2>4 DEF MessageAt, Bodies
  <2> QED
    BY <1>3, <2>4, <2>5
<1>12. CASE Convert \/ WriteHeader \/ WritePayload
  <2>1. /\ pc \in {"convert", "header", "payload"}
        /\ \/ Finished(TRUE, part, "type")
           \/ pc' \in {"header", "payload"} /\ UNCHANGED inVars
    BY <1>12 DEF Convert, WriteHeader, WritePayload
  <2>2. pc \in Inside
    BY <2>1 DEF Inside
  <2>3. Coming.type = "update" /\ part = 2 /\ Coming.n \in Nat /\ handled < Len(asked)
    BY <2>1, <2>2, InsideRequest DEF SInv, MessageAt
  <2>4. CASE Finished(TRUE, part, "type")
    <3>1. Len(Parts(Coming)) = 2
      <4>1. Parts(Coming) = <<1, 9>>
        BY <2>3, PartsOfMessage
      <4> QED
        BY <4>1
    <3>2. handled' = handled + 1 /\ part' = 0 /\ pc' = "type"
      BY <2>3, <2>4, <3>1 DEF Finished
    <3> QED
      BY <1>1, <1>3, <2>2, <3>2, RequestDone
  <2>5. CASE pc' \in {"header", "payload"} /\ UNCHANGED inVars
    <3>1. handled' = handled /\ part' = part /\ pc' \in Inside
      BY <2>5 DEF inVars, Inside
    <3>2. ThreadAt' /\ Astray' /\ Coming' = Coming /\ handled' < Len(asked')
      BY <1>1, <2>2, <3>1, RequestGoesOn
    <3>3. MessageAt'
      BY <2>3, <2>5, <3>1, <3>2 DEF MessageAt, Bodies
    <3> QED
      BY <1>3, <3>2, <3>3
  <2> QED
    BY <2>1, <2>4, <2>5
<1> QED
  BY <1>4, <1>5, <1>6, <1>7, <1>8, <1>9, <1>10, <1>11, <1>12 DEF Handle

\* The ends of the thread.
LEMMA EndPlaces ==
    ASSUME SInv, Ends
    PROVE  HandshakeFirst' /\ ClientAt' /\ ThreadAt' /\ MessageAt' /\ Astray'
<1>1. pc' = "ended" /\ UNCHANGED <<asked, client>>
  BY EndsAre DEF End, OutsideSame, clientVars
<1> QED
  BY <1>1, ClientUnmoved, NowEnded

\* One more element at the end of a sequence.
LEMMA AppendGrows ==
    ASSUME NEW S, NEW s \in Seq(S), NEW e \in S
    PROVE  /\ Len(s) \in Nat /\ Len(Append(s, e)) = Len(s) + 1 /\ Append(s, e)[Len(s) + 1] = e
           /\ \A i \in 1..Len(s) : Append(s, e)[i] = s[i]
OBVIOUS

\* The stream of the client grows at its end, and the thread does not move.
LEMMA StreamGrows ==
    ASSUME SInv, NEW m \in Message, asked' = Append(asked, m), UNCHANGED <<pc, threadVars, inVars>>
    PROVE  /\ Len(asked) \in Nat /\ Len(asked') = Len(asked) + 1 /\ asked'[Len(asked) + 1] = m
           /\ \A i \in 1..Len(asked) : asked'[i] = asked[i]
           /\ Len(asked) >= 1 => Spoken' = Spoken /\ Steps' = Steps
           /\ ThreadAt' /\ MessageAt' /\ Astray'
<1>0. asked \in Seq(Message) /\ Len(asked) \in Nat /\ handled \in Nat
  BY DEF SInv, TypeOK
<1>1. /\ Len(asked') = Len(asked) + 1 /\ asked'[Len(asked) + 1] = m
      /\ \A i \in 1..Len(asked) : asked'[i] = asked[i]
  BY <1>0, AppendGrows
<1>2. UNCHANGED <<pc, version, left, handled, part>>
  BY DEF threadVars, inVars
<1>3. Len(asked) >= 1 => Spoken' = Spoken /\ Steps' = Steps
  <2>1. Len(asked) >= 1 => asked'[1] = asked[1]
    BY <1>0, <1>1
  <2> QED
    BY <2>1 DEF Spoken, Steps
<1>4. ThreadAt'
  <2>1. CASE Len(asked) >= 1
    BY <1>0, <1>1, <1>2, <1>3, <2>1 DEF SInv, ThreadAt
  <2>2. CASE Len(asked) = 0
    <3>1. pc \in {"offer", "version", "ended", "adrift"}
      BY <1>0, <2>2 DEF SInv, ThreadAt
    <3> QED
      BY <1>2, <3>1 DEF SInv, ThreadAt, Sizing, Inside, Bodies
  <2>3. Len(asked) >= 1 \/ Len(asked) = 0
    BY <1>0
  <2> QED
    BY <2>1, <2>2, <2>3
<1>5. MessageAt'
  <2>1. handled < Len(asked) => handled' < Len(asked') /\ Coming' = Coming
    <3>1. handled < Len(asked) => handled + 1 \in 1..Len(asked)
      BY <1>0
    <3> QED
      BY <1>0, <1>1, <1>2, <3>1 DEF Coming
  <2>2. CASE pc \in Inside
    <3>1. handled' < Len(asked') /\ Coming' = Coming
      BY <2>1, <2>2 DEF SInv, MessageAt
    <3> QED
      BY <1>2, <3>1 DEF SInv, MessageAt, Signed
  <2>3. CASE pc \notin Inside
    BY <1>2, <2>3 DEF MessageAt, Inside
  <2> QED
    BY <2>2, <2>3
<1>6. Astray'
  <2>1. LargestText => LargestText'
    <3>1. ASSUME NEW i \in 1..Len(asked), asked[i].type = "text" /\ asked[i].n = TopLength
          PROVE  LargestText'
      <4>1. i \in 1..Len(asked') /\ asked'[i] = asked[i]
        BY <1>0, <1>1
      <4> QED
        BY <3>1, <4>1 DEF LargestText
    <3> QED
      BY <3>1 DEF LargestText
  <2> QED
    BY <1>2, <2>1 DEF SInv, Astray
<1> QED
  BY <1>0, <1>1, <1>3, <1>4, <1>5, <1>6
LEMMA StreamStays ==
    ASSUME SInv, UNCHANGED <<pc, threadVars, inVars, asked>>
    PROVE  HandshakeFirst' /\ ThreadAt' /\ MessageAt' /\ Astray' /\ Spoken' = Spoken /\ Steps' = Steps
<1>1. UNCHANGED <<pc, version, left, handled, part, asked>>
  BY DEF threadVars, inVars
<1>2. Spoken' = Spoken /\ Steps' = Steps /\ Coming' = Coming
  BY <1>1 DEF Spoken, Steps, Coming
<1>3. HandshakeFirst' /\ Astray'
  BY <1>1, <1>2 DEF SInv, HandshakeFirst, Astray, LargestText
<1>4. ThreadAt'
  BY <1>1, <1>2 DEF SInv, ThreadAt
<1>5. MessageAt'
  BY <1>1, <1>2 DEF SInv, MessageAt, Signed
<1> QED
  BY <1>2, <1>3, <1>4, <1>5

\* The client sends the messages of its version, and then requests.
LEMMA ClientKeeps ==
    ASSUME SInv, ClientStep
    PROVE  HandshakeFirst' /\ ClientAt' /\ ThreadAt' /\ MessageAt' /\ Astray'
<1>0. asked \in Seq(Message) /\ Len(asked) \in Nat
  BY DEF SInv, TypeOK
<1>1. UNCHANGED <<pc, threadVars, inVars>>
  BY DEF ThreadSame, ClientStep, ClientReads, ClientAsks, ClientLeaves, ClientHearsVersion,
         ClientHearsSecurity, ClientHearsResult, ClientInits, ClientHearsInit, ClientGoesOn,
         ClientHearsUpdate
<1>2. /\ Spoken \in {3, 7, 8} /\ Steps \in {2, 3} /\ (Steps = 2 <=> Spoken = 3)
      /\ ClientSpeaks = Spoken
  BY DEF Spoken, Steps, ClientSpeaks
<1>3. \A v, n : Msg("version", v).type = "version" /\ Msg("choice", n).type = "choice"
                /\ Msg("clientinit", n).type = "clientinit"
  BY DEF Msg
<1>4. CASE ClientHearsVersion
  <2>1. PICK v \in Asked : asked' = Append(asked, Msg("version", v))
    BY <1>4 DEF ClientHearsVersion, Sends
  <2>2. client' \in {"security", "adrift"}
    BY <1>4 DEF ClientHearsVersion
  <2>3. Len(asked) = 0
    BY <1>4 DEF ClientHearsVersion, SInv, ClientAt
  <2>4. Len(asked') = 1 /\ asked'[1].type = "version" /\ ThreadAt' /\ MessageAt' /\ Astray'
    <3>1. Msg("version", v) \in Message
      BY MessageTyped
    <3>2. Len(asked') = Len(asked) + 1 /\ asked'[Len(asked) + 1] = Msg("version", v)
          /\ ThreadAt' /\ MessageAt' /\ Astray'
      BY <1>1, <2>1, <3>1, StreamGrows
    <3> QED
      BY <1>3, <2>3, <3>2
  <2>5. HandshakeFirst'
    BY <2>4 DEF HandshakeFirst
  <2>6. ClientAt'
    BY <2>2, <2>4 DEF ClientAt
  <2> QED
    BY <2>4, <2>5, <2>6
<1>5. CASE ClientHearsSecurity
  <2>1. Len(asked) = 1
    BY <1>5 DEF ClientHearsSecurity, SInv, ClientAt
  <2>2. CASE Spoken = 3
    <3>1. asked' = asked /\ client' \in {"init", "adrift"}
      BY <1>2, <1>5, <2>2 DEF ClientHearsSecurity
    <3>2. /\ HandshakeFirst' /\ ThreadAt' /\ MessageAt' /\ Astray'
          /\ Steps' = 2
      BY <1>1, <1>2, <2>2, <3>1, StreamStays
    <3>3. ClientAt'
      BY <2>1, <3>1, <3>2 DEF ClientAt
    <3> QED
      BY <3>2, <3>3
  <2>3. CASE Spoken # 3
    <3>1. PICK n \in Choices : asked' = Append(asked, Msg("choice", n))
      BY <1>2, <1>5, <2>3 DEF ClientHearsSecurity, Sends
    <3>2. client' \in {"init", "result", "adrift"} /\ (client' = "result" => Spoken = 8)
      BY <1>2, <1>5, <2>3 DEF ClientHearsSecurity
    <3>3. Msg("choice", n) \in Message
      BY MessageTyped
    <3>4. /\ Len(asked') = Len(asked) + 1 /\ asked'[Len(asked) + 1] = Msg("choice", n)
          /\ \A i \in 1..Len(asked) : asked'[i] = asked[i]
          /\ Spoken' = Spoken /\ Steps' = Steps
          /\ ThreadAt' /\ MessageAt' /\ Astray'
      BY <1>1, <2>1, <3>1, <3>3, StreamGrows
    <3>5. Len(asked') = 2 /\ asked'[2].type = "choice" /\ asked'[1].type = "version"
          /\ Steps' = 3 /\ Spoken' # 3 /\ (Spoken' = 8 <=> Spoken = 8)
      BY <1>2, <1>3, <2>1, <2>3, <3>4 DEF SInv, HandshakeFirst
    <3>6. HandshakeFirst'
      BY <3>5 DEF HandshakeFirst
    <3>7. ClientAt'
      BY <3>2, <3>5 DEF ClientAt
    <3> QED
      BY <3>4, <3>6, <3>7
  <2> QED
    BY <2>2, <2>3
<1>6. CASE ClientInits
  <2>1. asked' = Append(asked, Msg("clientinit", 0)) /\ client' = "serverinit"
    BY <1>6 DEF ClientInits, Sends
  <2>2. Len(asked) = Steps - 1 /\ Len(asked) >= 1
    BY <1>6 DEF ClientInits, SInv, ClientAt
  <2>3. Msg("clientinit", 0) \in Message
    BY MessageTyped
  <2>4. /\ Len(asked') = Len(asked) + 1 /\ asked'[Len(asked) + 1] = Msg("clientinit", 0)
        /\ \A i \in 1..Len(asked) : asked'[i] = asked[i]
        /\ Spoken' = Spoken /\ Steps' = Steps
        /\ ThreadAt' /\ MessageAt' /\ Astray'
    BY <1>1, <2>1, <2>2, <2>3, StreamGrows
  <2>5. Len(asked') = Steps' /\ asked'[Steps].type = "clientinit" /\ asked'[1].type = "version"
    BY <1>0, <1>2, <1>3, <2>2, <2>4 DEF SInv, HandshakeFirst
  <2>6. HandshakeFirst'
    <3>1. CASE Steps = 2
      <4>1. Len(asked') = 2 /\ Steps' = 2 /\ Spoken' = 3 /\ asked'[2].type = "clientinit"
        BY <1>2, <2>2, <2>4, <2>5, <3>1
      <4> QED
        BY <2>5, <4>1 DEF HandshakeFirst
    <3>2. CASE Steps = 3
      <4>1. asked'[2].type = "choice"
        BY <1>2, <2>2, <2>4, <3>2 DEF SInv, HandshakeFirst
      <4>2. Len(asked') = 3 /\ Steps' = 3 /\ Spoken' # 3 /\ asked'[3].type = "clientinit"
        BY <1>2, <2>2, <2>4, <2>5, <3>2
      <4> QED
        BY <2>5, <4>1, <4>2 DEF HandshakeFirst
    <3> QED
      BY <1>2, <3>1, <3>2
  <2>7. ClientAt'
    BY <2>1, <2>5 DEF ClientAt
  <2> QED
    BY <2>4, <2>6, <2>7
<1>7. CASE ClientAsks
  <2>1. PICK m \in Requests : asked' = Append(asked, m)
    BY <1>7 DEF ClientAsks, Sends
  <2>2. client' = "ready" /\ Len(asked) >= Steps
    BY <1>7 DEF ClientAsks, SInv, ClientAt
  <2>3. m \in Message
    BY MessageTyped
  <2>4. /\ Len(asked') = Len(asked) + 1 /\ asked'[Len(asked) + 1] = m
        /\ \A i \in 1..Len(asked) : asked'[i] = asked[i]
        /\ Spoken' = Spoken /\ Steps' = Steps
        /\ ThreadAt' /\ MessageAt' /\ Astray'
    BY <1>0, <1>1, <1>2, <2>1, <2>2, <2>3, StreamGrows
  <2>5. HandshakeFirst'
    <3>1. asked'[1].type = "version" /\ asked'[2].type = IF Spoken = 3 THEN "clientinit" ELSE "choice"
      BY <1>0, <1>2, <2>2, <2>4 DEF SInv, HandshakeFirst
    <3>2. Spoken # 3 => asked'[3].type = "clientinit"
      BY <1>0, <1>2, <2>2, <2>4 DEF SInv, HandshakeFirst
    <3>3. ASSUME NEW i \in 1..Len(asked'), i > 1, i > Steps
          PROVE  asked'[i] \in Requests
      <4>1. i \in 1..Len(asked) \/ i = Len(asked) + 1
        BY <1>0, <2>4
      <4>2. CASE i \in 1..Len(asked)
        BY <2>4, <3>3, <4>2 DEF SInv, HandshakeFirst
      <4>3. CASE i = Len(asked) + 1
        BY <2>4, <4>3
      <4> QED
        BY <4>1, <4>2, <4>3
    <3> QED
      BY <2>4, <3>1, <3>2, <3>3 DEF HandshakeFirst
  <2>6. ClientAt'
    BY <1>0, <1>2, <2>2, <2>4 DEF ClientAt
  <2> QED
    BY <2>4, <2>5, <2>6
<1>8. CASE \/ ClientHearsResult \/ ClientHearsInit \/ ClientHearsUpdate \/ ClientGoesOn
           \/ ClientLeaves
  <2>1. asked' = asked
    BY <1>8 DEF ClientHearsResult, ClientHearsInit, ClientHearsUpdate, ClientGoesOn, ClientLeaves
  <2>2. HandshakeFirst' /\ ThreadAt' /\ MessageAt' /\ Astray' /\ Steps' = Steps
    BY <1>1, <2>1, StreamStays
  <2>3. \/ client = "result" /\ client' = "init"
        \/ client = "serverinit" /\ client' = "ready"
        \/ client = "ready" /\ client' = "ready"
        \/ client' \in {"adrift", "gone"}
    BY <1>8 DEF ClientHearsResult, ClientHearsInit, ClientHearsUpdate, ClientGoesOn, ClientLeaves
  <2>4. ClientAt'
    <3>1. CASE client = "result" /\ client' = "init"
      <4>1. Len(asked) = 2 /\ Steps = 3
        BY <1>2, <3>1 DEF SInv, ClientAt
      <4> QED
        BY <2>1, <2>2, <3>1, <4>1 DEF ClientAt
    <3>2. CASE client = "serverinit" /\ client' = "ready"
      <4>1. Len(asked) = Steps
        BY <3>2 DEF SInv, ClientAt
      <4> QED
        BY <1>0, <2>1, <2>2, <3>2, <4>1 DEF ClientAt
    <3>3. CASE client = "ready" /\ client' = "ready"
      <4>1. Len(asked) >= Steps
        BY <3>3 DEF SInv, ClientAt
      <4> QED
        BY <2>1, <2>2, <3>3, <4>1 DEF ClientAt
    <3>4. CASE client' \in {"adrift", "gone"}
      BY <3>4 DEF ClientAt
    <3> QED
      BY <2>3, <3>1, <3>2, <3>3, <3>4
  <2> QED
    BY <2>2, <2>4
<1> QED
  BY <1>4, <1>5, <1>6, <1>7, <1>8 DEF ClientStep, ClientReads

-----------------------------------------------------------------------------
LEMMA SInvInit == Init => SInv
<1> SUFFICES ASSUME Init PROVE SInv
  OBVIOUS
<1>1. ThreadTyped /\ InTyped
  BY MessageTyped DEF Init, ThreadTyped, InTyped, NoSize
<1>2. OutTyped /\ EventsTyped
  <2>1. said = <<>> /\ events = <<>> /\ flushed = 0 /\ late = FALSE
    BY DEF Init
  <2>2. OutTyped
    <3>1. said \in Seq([kind : Kinds, rect : Rects, n : Nat]) /\ flushed \in Nat
      BY <2>1
    <3>2. late \in BOOLEAN
      BY <2>1, Zenon
    <3> QED
      BY <3>1, <3>2, Zenon DEF OutTyped
  <2>3. EventsTyped
    BY <2>1 DEF EventsTyped
  <2> QED
    BY <2>2, <2>3
<1>3. ClientTyped
  BY DEF Init, ClientTyped, ClientPlaces
<1>4. ScreenTyped
  <2>1. screen \in [w : Nat, h : Nat]
    BY SessionAssumption DEF Init, SessionAssumption
  <2> QED
    BY <2>1, Zenon DEF Init, ScreenTyped, NoSize
<1>5. pc \in Places /\ stopping \in BOOLEAN
  BY DEF Init, Places, Writing
<1>6. TypeOK
  BY <1>1, <1>2, <1>3, <1>4, <1>5, TypeByParts
<1>7. Len(asked) = 0
  BY DEF Init
<1>8. HandshakeFirst /\ ClientAt
  BY <1>7 DEF Init, HandshakeFirst, ClientAt
<1>9. ThreadAt /\ MessageAt /\ Astray
  BY DEF Init, ThreadAt, MessageAt, Astray, Sizing, Inside, Bodies
<1> QED
  BY <1>6, <1>8, <1>9 DEF SInv

LEMMA SInvStep == SInv /\ [Next]_vars => SInv'
<1> SUFFICES ASSUME SInv, [Next]_vars PROVE SInv'
  OBVIOUS
<1>0. TypeOK
  BY DEF SInv
<1>1. CASE Negotiate
  BY <1>0, <1>1, NegotiateTypes, NegotiatePlaces DEF SInv
<1>2. CASE Handle
  BY <1>0, <1>2, HandleTypes, HandlePlaces DEF SInv
<1>3. CASE Ends
  BY <1>0, <1>3, EndTypes, EndPlaces DEF SInv
<1>4. CASE ClientStep
  BY <1>0, <1>4, ClientTypes, ClientKeeps DEF SInv
<1>5. CASE AppStep
  <2>1. UNCHANGED <<pc, threadVars, inVars, asked, client>>
    BY <1>5 DEF AppStep, AppStops, AppResizes, AppResized, OthersSame, clientVars
  <2> QED
    BY <1>0, <1>5, <2>1, AppTypes, StreamStays, ClientUnmoved DEF SInv
<1>6. CASE UNCHANGED vars
  <2>1. UNCHANGED <<pc, stopping, threadVars, inVars, outVars, events, clientVars, screenVars>>
    BY <1>6 DEF vars
  <2>2. UNCHANGED <<asked, client>>
    BY <2>1 DEF clientVars
  <2>3. TypeOK'
    <3>1. ThreadTyped' /\ InTyped' /\ OutTyped' /\ EventsTyped' /\ ClientTyped' /\ ScreenTyped'
      BY <1>0, <2>1, TypeByParts, ThreadSameTyped, InSameTyped, OutSameTyped, EventsSameTyped,
         ClientSameTyped, ScreenSameTyped
    <3>2. pc' \in Places /\ stopping' \in BOOLEAN
      BY <1>0, <2>1 DEF TypeOK
    <3> QED
      BY <3>1, <3>2, TypeNext
  <2> QED
    BY <2>1, <2>2, <2>3, StreamStays, ClientUnmoved DEF SInv
<1> QED
  BY <1>1, <1>2, <1>3, <1>4, <1>5, <1>6
  DEF Next, ThreadStep, Ends, ClientStep, AppStep

\* The thread and the client are where the stream says they are: SInv is
\* inductive.
THEOREM PlacesAgree == Spec => []SInv
<1>1. Init => SInv
  BY SInvInit
<1>2. SInv /\ [Next]_vars => SInv'
  BY SInvStep
<1> QED
  BY <1>1, <1>2, PTL DEF Spec

\* The types, for any versions, messages, sizes and bounds.
THEOREM SessionTypeCorrect == Spec => []TypeOK
<1>1. SInv => TypeOK
  BY DEF SInv
<1> QED
  BY <1>1, PlacesAgree, PTL

\* The thread never takes a part of a message for another one, unless a text
\* comes with the largest length, whatever the client sends and the
\* application does.
THEOREM ThreadKeepsStep == Spec => []ThreadInStep
<1>1. SInv => ThreadInStep
  BY DEF SInv, Astray, LargestText, ThreadInStep
<1> QED
  BY <1>1, PlacesAgree, PTL

-----------------------------------------------------------------------------
(* The size in ServerInit *)

\* The bytes read so far are of sizes the screen had since the first read.
EarlySize == BeforeSize \cup HalfSize
HalfRead == HalfSize \cup {"serverinit"}
HighOf(sizes, n) == \E s \in sizes : n = High(s.w)
HighestOf(sizes, n) == \E s \in sizes : n = High(s.h)
WidthOf(sizes, n) ==
    \E a, b \in sizes : n \div ByteBase = a.w \div ByteBase /\ n % ByteBase = b.w % ByteBase
HeightOf(sizes, n) ==
    \E a, b \in sizes : n \div ByteBase = a.h \div ByteBase /\ n % ByteBase = b.h % ByteBase
NotAnnounced == \A i \in 1..Len(said) : said[i].kind # "serverinit"
SizeRead ==
    /\ pc \in EarlySize => screen \in shown /\ NotAnnounced
    /\ pc = "widthlow" => HighOf(shown, size.w)
    /\ pc \in {"heighthigh", "heightlow", "serverinit"} => WidthOf(shown, size.w)
    /\ pc = "heightlow" => HighestOf(shown, size.h)
    /\ pc = "serverinit" => HeightOf(shown, size.h)
SizeInv == TypeOK /\ SizeRead /\ AnnouncesScreen

LEMMA AnnouncesByParts ==
    AnnouncesScreen <=>
        \A i \in 1..Len(said) : said[i].kind = "serverinit" =>
            WidthOf(shown, said[i].rect.w) /\ HeightOf(shown, said[i].rect.h)
BY DEF AnnouncesScreen, WidthOf, HeightOf

\* Two bytes put together have the high byte of one number and the low byte of
\* the other.
LEMMA SizeAdds ==
    ASSUME NEW a \in Nat, NEW b \in Nat
    PROVE  /\ (High(a) + Low(b)) \div ByteBase = a \div ByteBase
           /\ (High(a) + Low(b)) % ByteBase = b % ByteBase
<1>1. ByteBase \in Nat /\ ByteBase > 0
  BY SessionAssumption DEF SessionAssumption
<1>2. a \div ByteBase \in Nat /\ b % ByteBase \in Nat /\ b % ByteBase < ByteBase
  BY <1>1
<1>3. ASSUME NEW q \in Nat, NEW r \in Nat, NEW w \in Nat, r < w
      PROVE  (q * w + r) \div w = q /\ ((q * w) + r) % w = r
  BY <1>3, SMTT(20)
<1>4. /\ ((a \div ByteBase) * ByteBase + (b % ByteBase)) \div ByteBase = a \div ByteBase
      /\ ((a \div ByteBase) * ByteBase + (b % ByteBase)) % ByteBase = b % ByteBase
  BY <1>1, <1>2, <1>3
<1> QED
  BY <1>4, Zenon DEF High, Low

\* What has been shown stays so, from the first read on.
LEMMA ShownStays ==
    ASSUME shown \subseteq shown'
    PROVE  \A n : /\ HighOf(shown, n) => HighOf(shown', n)
                  /\ HighestOf(shown, n) => HighestOf(shown', n)
                  /\ WidthOf(shown, n) => WidthOf(shown', n)
                  /\ HeightOf(shown, n) => HeightOf(shown', n)
BY DEF HighOf, HighestOf, WidthOf, HeightOf

\* What a step writes, and when it is a ServerInit.
LEMMA WrittenIs ==
    ASSUME TypeOK, [Next]_vars
    PROVE  \/ UNCHANGED said
           \/ \E kind \in Kinds \ {"serverinit"}, r \in Rects, n \in Nat :
                 said' = Append(said, [kind |-> kind, rect |-> r, n |-> n])
           \/ pc = "serverinit"
              /\ said' = Append(said, [kind |-> "serverinit", rect |-> Whole(size), n |-> 4])
<1>0. NoRect \in Rects /\ 0 \in Nat /\ rect \in Rects /\ Whole(size) \in Rects /\ format \in Nat
  BY MessageTyped, ClippedTyped DEF TypeOK
<1>1. ASSUME NEW from, NEW kind \in Kinds \ {"serverinit"}, NEW next, Writes(from, kind, next)
      PROVE  \E k \in Kinds \ {"serverinit"}, r \in Rects, n \in Nat :
                 said' = Append(said, [kind |-> k, rect |-> r, n |-> n])
  BY <1>0, <1>1 DEF Writes, Say
<1>2. CASE OfferVersion
  BY <1>1, <1>2 DEF OfferVersion, Kinds
<1>3. CASE WriteSecurity
  BY <1>1, <1>3 DEF WriteSecurity, Kinds
<1>4. CASE WriteResult
  BY <1>1, <1>4 DEF WriteResult, Kinds
<1>5. CASE WriteServerInit
  BY <1>5 DEF WriteServerInit, Say
<1>6. CASE WriteHeader
  BY <1>0, <1>6 DEF WriteHeader, Say, Kinds
<1>7. CASE WritePayload
  BY <1>0, <1>7 DEF WritePayload, Say, Kinds
<1>8. CASE ReadVersion \/ ReadChoice \/ ReadClientInit \/ ReadSize
  BY <1>8 DEF ReadVersion, ReadChoice, ReadClientInit, ReadSize, Quiet, outVars
<1>9. CASE \/ ReadType \/ SetPixelFormat \/ SetEncodings \/ ReadEncoding \/ KeyEvent
           \/ PointerEvent \/ ClientCutText \/ ReadText \/ UpdateRequest \/ Convert
  BY <1>9 DEF ReadType, SetPixelFormat, SetEncodings, ReadEncoding, KeyEvent, PointerEvent,
     ClientCutText, ReadText, UpdateRequest, Convert, Quiet, outVars
<1>10. CASE Ends
  BY <1>10, EndsAre DEF outVars
<1>11. CASE ClientStep
  BY <1>11 DEF ClientStep, ClientReads, ClientAsks, ClientLeaves, ClientHearsVersion,
     ClientHearsSecurity, ClientHearsResult, ClientInits, ClientHearsInit, ClientGoesOn,
     ClientHearsUpdate, ThreadSame, outVars
<1>12. CASE AppStep
  BY <1>12 DEF AppStep, AppStops, AppResizes, AppResized, OthersSame, outVars
<1>13. CASE UNCHANGED vars
  BY <1>13 DEF vars, outVars
<1> QED
  BY <1>2, <1>3, <1>4, <1>5, <1>6, <1>7, <1>8, <1>9, <1>10, <1>11, <1>12, <1>13
  DEF Next, ThreadStep, Negotiate, Handle, Ends, ClientStep, AppStep

\* Where the size is read, and that it is left alone elsewhere.
LEMMA SizingIs ==
    ASSUME [Next]_vars
    PROVE  ReadSize \/ UNCHANGED <<pc, size>> \/ pc' \notin HalfRead
<1>1. CASE OfferVersion \/ WriteSecurity \/ WriteResult \/ WriteServerInit \/ WriteHeader
  BY <1>1
  DEF OfferVersion, WriteSecurity, WriteResult, WriteServerInit, WriteHeader, Writes, HalfRead, HalfSize
<1>2. ASSUME NEW inStep, NEW k, NEW next, next \notin HalfRead, Finished(inStep, k, next)
      PROVE  pc' \notin HalfRead
  BY <1>2 DEF Finished, HalfRead, HalfSize
<1>3. ASSUME NEW next, next \notin HalfRead, ReadsOn(next)
      PROVE  pc' \notin HalfRead
  BY <1>3 DEF ReadsOn, HalfRead, HalfSize
<1>4. /\ \A next \in {"security", "clientinit", "result", "widthhigh", "type", "encoding",
                      "textbody", "convert", "ended"} : next \notin HalfRead
      /\ KnownTypes \cap HalfRead = {}
  BY DEF HalfRead, HalfSize, KnownTypes
<1>5. CASE ReadVersion \/ ReadChoice \/ ReadClientInit
  BY <1>2, <1>3, <1>4, <1>5
  DEF ReadVersion, ReadChoice, ReadClientInit, ReadsLast, BehindChoice
<1>6. CASE ReadType
  BY <1>3, <1>4, <1>6 DEF ReadType
<1>7. CASE SetPixelFormat \/ SetEncodings \/ ReadEncoding \/ KeyEvent \/ PointerEvent
  BY <1>2, <1>3, <1>4, <1>7
  DEF SetPixelFormat, SetEncodings, ReadEncoding, KeyEvent, PointerEvent, ReadsLast
<1>8. CASE ClientCutText \/ ReadText \/ UpdateRequest
  BY <1>2, <1>3, <1>4, <1>8 DEF ClientCutText, ReadText, UpdateRequest, ReadsLast
<1>9. CASE Convert \/ WritePayload
  <2>1. Finished(TRUE, part, "type") \/ pc' = "header"
    BY <1>9 DEF Convert, WritePayload
  <2> QED
    BY <1>2, <1>4, <2>1 DEF HalfRead, HalfSize
<1>10. CASE Ends
  BY <1>10, EndsAre DEF HalfRead, HalfSize
<1>11. CASE ClientStep
  BY <1>11 DEF ClientStep, ClientReads, ClientAsks, ClientLeaves, ClientHearsVersion,
     ClientHearsSecurity, ClientHearsResult, ClientInits, ClientHearsInit, ClientGoesOn,
     ClientHearsUpdate, ThreadSame, threadVars
<1>12. CASE AppStep
  BY <1>12 DEF AppStep, AppStops, AppResizes, AppResized, OthersSame, threadVars
<1>13. CASE UNCHANGED vars
  BY <1>13 DEF vars, threadVars
<1> QED
  BY <1>1, <1>5, <1>6, <1>7, <1>8, <1>9, <1>10, <1>11, <1>12, <1>13
  DEF Next, ThreadStep, Negotiate, Handle, Ends, ClientStep, AppStep

LEMMA SizeBehind ==
    ASSUME [Next]_vars, pc' \in EarlySize
    PROVE  pc \in EarlySize
<1>1. CASE OfferVersion \/ ReadVersion \/ WriteSecurity \/ ReadChoice \/ WriteResult \/ ReadClientInit
  BY <1>1
  DEF OfferVersion, ReadVersion, WriteSecurity, ReadChoice, WriteResult, ReadClientInit, Writes, Reads,
      EarlySize, BeforeSize
<1>2. CASE ReadSize
  BY <1>2 DEF ReadSize, EarlySize, BeforeSize, HalfSize
<1>3. CASE WriteServerInit \/ WriteHeader
  BY <1>3 DEF WriteServerInit, WriteHeader, EarlySize, BeforeSize, HalfSize
<1>4. ASSUME NEW inStep, NEW k, NEW next, next \notin EarlySize, Finished(inStep, k, next)
      PROVE  FALSE
  BY <1>4 DEF Finished, EarlySize, BeforeSize, HalfSize
<1>5. ASSUME NEW next, next \notin EarlySize, ReadsOn(next)
      PROVE  FALSE
  BY <1>5 DEF ReadsOn, EarlySize, BeforeSize, HalfSize
<1>6. /\ \A next \in {"type", "encoding", "textbody", "convert", "header", "ended"} :
             next \notin EarlySize
      /\ KnownTypes \cap EarlySize = {}
  BY DEF EarlySize, BeforeSize, HalfSize, KnownTypes
<1>7. CASE ReadType
  BY <1>5, <1>6, <1>7 DEF ReadType
<1>8. CASE SetPixelFormat \/ SetEncodings \/ ReadEncoding \/ KeyEvent \/ PointerEvent
  BY <1>4, <1>5, <1>6, <1>8
  DEF SetPixelFormat, SetEncodings, ReadEncoding, KeyEvent, PointerEvent, ReadsLast
<1>9. CASE ClientCutText \/ ReadText \/ UpdateRequest
  BY <1>4, <1>5, <1>6, <1>9 DEF ClientCutText, ReadText, UpdateRequest, ReadsLast
<1>10. CASE Convert \/ WritePayload
  <2>1. Finished(TRUE, part, "type") \/ pc' = "header"
    BY <1>10 DEF Convert, WritePayload
  <2> QED
    BY <1>4, <1>6, <2>1
<1>11. CASE Ends
  BY <1>6, <1>11, EndsAre
<1>12. CASE ClientStep
  BY <1>12 DEF ClientStep, ClientReads, ClientAsks, ClientLeaves, ClientHearsVersion,
     ClientHearsSecurity, ClientHearsResult, ClientInits, ClientHearsInit, ClientGoesOn,
     ClientHearsUpdate, ThreadSame
<1>13. CASE AppStep \/ UNCHANGED vars
  BY <1>13 DEF AppStep, AppStops, AppResizes, AppResized, OthersSame, vars
<1> QED
  BY <1>1, <1>2, <1>3, <1>7, <1>8, <1>9, <1>10, <1>11, <1>12, <1>13
  DEF Next, ThreadStep, Negotiate, Handle, Ends, ClientStep, AppStep

\* The application, between any two reads.
LEMMA AppShows ==
    ASSUME SizeInv, AppStep
    PROVE  SizeRead' /\ AnnouncesScreen'
<1>1. UNCHANGED <<pc, size, said>>
  BY DEF AppStep, AppStops, AppResizes, AppResized, OthersSame, threadVars, outVars
<1>2. (shown' = shown /\ screen' = screen) \/ shown' = Watched(screen')
  BY DEF AppStep, AppStops, AppResizes, AppResized, screenVars
<1>3. CASE pc \in BeforeSize
  <2>1. screen \in shown /\ NotAnnounced
    BY <1>3 DEF SizeInv, SizeRead, EarlySize
  <2>2. screen' \in shown'
    BY <1>2, <1>3, <2>1 DEF Watched
  <2>3. NotAnnounced' /\ AnnouncesScreen'
    BY <1>1, <2>1 DEF NotAnnounced, AnnouncesScreen
  <2> QED
    BY <1>1, <1>3, <2>2, <2>3 DEF SizeRead, BeforeSize
<1>4. CASE pc \notin BeforeSize
  <2>1. shown \subseteq shown'
    BY <1>2, <1>4 DEF Watched
  <2>2. pc \in EarlySize => screen' \in shown' /\ NotAnnounced'
    <3> SUFFICES ASSUME pc \in HalfSize PROVE screen' \in shown' /\ NotAnnounced'
      BY <1>4 DEF EarlySize
    <3>1. screen \in shown /\ NotAnnounced
      BY DEF SizeInv, SizeRead, EarlySize
    <3> QED
      BY <1>1, <1>2, <1>4, <3>1 DEF Watched, NotAnnounced
  <2>3. SizeRead'
    BY <1>1, <2>1, <2>2, ShownStays DEF SizeInv, SizeRead
  <2>4. \A i \in 1..Len(said') : said'[i].kind = "serverinit" =>
            WidthOf(shown', said'[i].rect.w) /\ HeightOf(shown', said'[i].rect.h)
    BY <1>1, <2>1, AnnouncesByParts, ShownStays DEF SizeInv
  <2>5. AnnouncesScreen'
    BY <2>4 DEF AnnouncesScreen, WidthOf, HeightOf
  <2> QED
    BY <2>3, <2>5
<1> QED
  BY <1>3, <1>4

\* The four reads.
LEMMA SizeReads ==
    ASSUME SizeInv, ReadSize
    PROVE  /\ pc' = "widthlow" => HighOf(shown, size'.w)
           /\ pc' \in {"heighthigh", "heightlow", "serverinit"} => WidthOf(shown, size'.w)
           /\ pc' = "heightlow" => HighestOf(shown, size'.h)
           /\ pc' = "serverinit" => HeightOf(shown, size'.h)
<1>0. /\ size \in [w : Nat, h : Nat] /\ screen \in [w : Nat, h : Nat]
      /\ \A s \in shown : s.w \in Nat /\ s.h \in Nat
  BY DEF SizeInv, TypeOK
<1>1. screen \in shown
  BY DEF SizeInv, SizeRead, ReadSize, EarlySize, BeforeSize, HalfSize
<1>2. CASE pc = "widthhigh"
  BY <1>1, <1>2 DEF ReadSize, HighOf
<1>3. CASE pc = "widthlow"
  <2>1. PICK s \in shown : size.w = High(s.w)
    BY <1>3 DEF SizeInv, SizeRead, HighOf
  <2>2. pc' = "heighthigh" /\ size'.w = High(s.w) + Low(screen.w)
    BY <1>3, <2>1 DEF ReadSize
  <2>3. s.w \in Nat /\ screen.w \in Nat
    BY <1>0
  <2>4. WidthOf(shown, size'.w)
    BY <1>1, <2>2, <2>3, SizeAdds DEF WidthOf
  <2> QED
    BY <2>2, <2>4
<1>4. CASE pc = "heighthigh"
  <2>1. pc' = "heightlow" /\ size'.w = size.w /\ size'.h = High(screen.h)
    BY <1>4 DEF ReadSize
  <2> QED
    BY <1>1, <1>4, <2>1 DEF SizeInv, SizeRead, HighestOf
<1>5. CASE pc = "heightlow"
  <2>1. PICK s \in shown : size.h = High(s.h)
    BY <1>5 DEF SizeInv, SizeRead, HighestOf
  <2>2. pc' = "serverinit" /\ size'.w = size.w /\ size'.h = High(s.h) + Low(screen.h)
    BY <1>5, <2>1 DEF ReadSize
  <2>3. s.h \in Nat /\ screen.h \in Nat
    BY <1>0
  <2>4. HeightOf(shown, size'.h)
    BY <1>1, <2>2, <2>3, SizeAdds DEF HeightOf
  <2>5. WidthOf(shown, size'.w)
    BY <1>5, <2>2 DEF SizeInv, SizeRead
  <2> QED
    BY <2>2, <2>4, <2>5
<1> QED
  BY <1>2, <1>3, <1>4, <1>5 DEF ReadSize

\* Anybody else: the screen stays, and what is announced has been read.
LEMMA SizeStep ==
    ASSUME SizeInv, [Next]_vars
    PROVE  SizeRead' /\ AnnouncesScreen'
<1>0. /\ size \in [w : Nat, h : Nat] /\ screen \in [w : Nat, h : Nat]
      /\ shown \in SUBSET [w : Nat, h : Nat]
      /\ said \in Seq([kind : Kinds, rect : Rects, n : Nat])
  BY DEF SizeInv, TypeOK
<1>1. CASE AppStep
  BY <1>1, AppShows
<1>2. CASE ~AppStep
  <2>1. UNCHANGED <<screen, shown>>
    <3>1. CASE ThreadStep
      BY <3>1 DEF ThreadStep, Negotiate, OfferVersion, ReadVersion, WriteSecurity, ReadChoice,
         WriteResult, ReadClientInit, ReadSize, WriteServerInit, Writes, Handle, ReadType,
         SetPixelFormat, SetEncodings, ReadEncoding, KeyEvent, PointerEvent, ClientCutText, ReadText,
         UpdateRequest, Convert, WriteHeader, WritePayload, StopSeen, ReadFails, WriteFails,
         ConvertFails, AdriftEnds, End, OutsideSame, screenVars
    <3>2. CASE ClientStep
      BY <3>2 DEF ClientStep, ClientReads, ClientAsks, ClientLeaves, ClientHearsVersion,
         ClientHearsSecurity, ClientHearsResult, ClientInits, ClientHearsInit, ClientGoesOn,
         ClientHearsUpdate, ThreadSame, screenVars
    <3>3. CASE UNCHANGED vars
      BY <3>3 DEF vars, screenVars
    <3> QED
      BY <1>2, <3>1, <3>2, <3>3 DEF Next, ClientStep, AppStep
  <2>2. shown \subseteq shown' /\ shown' \subseteq shown
    BY <2>1
  <2>3. pc' \in EarlySize => screen' \in shown'
    BY <2>1, SizeBehind DEF SizeInv, SizeRead
  <2>4. /\ pc' = "widthlow" => HighOf(shown, size'.w)
        /\ pc' \in {"heighthigh", "heightlow", "serverinit"} => WidthOf(shown, size'.w)
        /\ pc' = "heightlow" => HighestOf(shown, size'.h)
        /\ pc' = "serverinit" => HeightOf(shown, size'.h)
    <3>1. CASE ReadSize
      BY <1>0, <3>1, SizeReads DEF SizeInv
    <3>2. CASE UNCHANGED <<pc, size>>
      BY <3>2 DEF SizeInv, SizeRead
    <3>3. CASE pc' \notin HalfRead
      BY <3>3 DEF HalfRead, HalfSize
    <3> QED
      BY <3>1, <3>2, <3>3, SizingIs
  <2>5. /\ pc' = "widthlow" => HighOf(shown', size'.w)
        /\ pc' \in {"heighthigh", "heightlow", "serverinit"} => WidthOf(shown', size'.w)
        /\ pc' = "heightlow" => HighestOf(shown', size'.h)
        /\ pc' = "serverinit" => HeightOf(shown', size'.h)
    BY <2>2, <2>4, ShownStays
  <2>6. ASSUME NEW word \in [kind : Kinds, rect : Rects, n : Nat], said' = Append(said, word),
               word.kind = "serverinit" => pc = "serverinit" /\ word.rect = Whole(size)
        PROVE  AnnouncesScreen' /\ (pc' \in EarlySize => NotAnnounced')
    <3>1. /\ Len(said) \in Nat /\ Len(said') = Len(said) + 1 /\ said'[Len(said) + 1] = word
          /\ \A j \in 1..Len(said) : said'[j] = said[j]
      BY <1>0, <2>6, AppendGrows
    <3>2. \A i \in 1..Len(said') : i \in 1..Len(said) \/ i = Len(said) + 1
      BY <3>1
    <3>3. word.kind = "serverinit" => WidthOf(shown, word.rect.w) /\ HeightOf(shown, word.rect.h)
      <4> SUFFICES ASSUME pc = "serverinit", word.rect = Whole(size)
                   PROVE  WidthOf(shown, word.rect.w) /\ HeightOf(shown, word.rect.h)
        BY <2>6
      <4>1. word.rect.w = size.w /\ word.rect.h = size.h
        BY DEF Whole
      <4> QED
        BY <4>1 DEF SizeInv, SizeRead
    <3>4. \A i \in 1..Len(said') : said'[i].kind = "serverinit" =>
              WidthOf(shown, said'[i].rect.w) /\ HeightOf(shown, said'[i].rect.h)
      BY <3>1, <3>2, <3>3, AnnouncesByParts DEF SizeInv
    <3>5. AnnouncesScreen'
      BY <2>1, <3>4 DEF AnnouncesScreen, WidthOf, HeightOf
    <3>6. pc' \in EarlySize => NotAnnounced'
      <4> SUFFICES ASSUME pc' \in EarlySize PROVE NotAnnounced'
        OBVIOUS
      <4>1. pc \in EarlySize /\ pc # "serverinit"
        BY SizeBehind DEF EarlySize, BeforeSize, HalfSize
      <4>2. NotAnnounced /\ word.kind # "serverinit"
        BY <2>6, <4>1 DEF SizeInv, SizeRead
      <4> QED
        BY <3>1, <3>2, <4>2 DEF NotAnnounced
    <3> QED
      BY <3>5, <3>6
  <2>7. AnnouncesScreen' /\ (pc' \in EarlySize => NotAnnounced')
    <3>1. CASE UNCHANGED said
      <4>1. AnnouncesScreen'
        BY <2>1, <3>1 DEF SizeInv, AnnouncesScreen
      <4>2. pc' \in EarlySize => NotAnnounced'
        BY <3>1, SizeBehind DEF SizeInv, SizeRead, NotAnnounced
      <4> QED
        BY <4>1, <4>2
    <3>2. CASE \E kind \in Kinds \ {"serverinit"}, r \in Rects, n \in Nat :
                   said' = Append(said, [kind |-> kind, rect |-> r, n |-> n])
      <4>1. PICK kind \in Kinds \ {"serverinit"}, r \in Rects, n \in Nat :
                   said' = Append(said, [kind |-> kind, rect |-> r, n |-> n])
        BY <3>2
      <4> DEFINE word == [kind |-> kind, rect |-> r, n |-> n]
      <4>2. word \in [kind : Kinds, rect : Rects, n : Nat] /\ word.kind # "serverinit"
        OBVIOUS
      <4>3. said' = Append(said, word)
        BY <4>1
      <4> HIDE DEF word
      <4> QED
        BY <2>6, <4>2, <4>3
    <3>3. CASE pc = "serverinit"
               /\ said' = Append(said, [kind |-> "serverinit", rect |-> Whole(size), n |-> 4])
      <4> DEFINE word == [kind |-> "serverinit", rect |-> Whole(size), n |-> 4]
      <4>1. Whole(size) \in Rects /\ "serverinit" \in Kinds
        BY <1>0, MessageTyped, ClippedTyped DEF Kinds
      <4>2. word \in [kind : Kinds, rect : Rects, n : Nat] /\ word.rect = Whole(size)
        BY <4>1
      <4>3. said' = Append(said, word)
        BY <3>3
      <4> HIDE DEF word
      <4> QED
        BY <2>6, <3>3, <4>2, <4>3
    <3> QED
      BY <3>1, <3>2, <3>3, WrittenIs DEF SizeInv
  <2> QED
    BY <2>3, <2>5, <2>7 DEF SizeRead
<1> QED
  BY <1>1, <1>2

\* Each byte of the size in ServerInit is that of a size the screen had between
\* the four reads, for any sizes and whoever takes steps between them.
THEOREM SizeAnnounced == Spec => []AnnouncesScreen
<1>1. Init => SizeRead /\ AnnouncesScreen
  BY DEF Init, SizeRead, AnnouncesScreen, NotAnnounced
<1>2. Init => SizeInv
  BY <1>1, SInvInit DEF SInv, SizeInv
<1>3. SizeInv /\ SInv /\ [Next]_vars => SizeInv'
  <2>1. SInv /\ [Next]_vars => TypeOK'
    BY SInvStep DEF SInv
  <2> QED
    BY <2>1, SizeStep DEF SizeInv
<1>4. SizeInv => AnnouncesScreen
  BY DEF SizeInv
<1> QED
  BY <1>2, <1>3, <1>4, PlacesAgree, PTL DEF Spec

=============================================================================
