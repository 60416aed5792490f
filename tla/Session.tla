------------------------------ MODULE Session ------------------------------
(***************************************************************************)
(* One connection from the first byte to the last: the handshake of        *)
(* negotiate, the message loop and the handlers of src/src/connection.c,   *)
(* opposite a client that may ask for any version, stop in the middle of a *)
(* message or leave.  Both directions are byte streams.  A stream is the   *)
(* log of what was put into it and the position of its reader; a message   *)
(* has as many parts as the protocol gives it fields that are read apart.  *)
(* A reader whose next read is not the next part of the log is adrift: it  *)
(* takes what it finds for something else.                                 *)
(*                                                                         *)
(* The lock of the framebuffer, its conversion, the buffers below the      *)
(* streams and the event queue are the business of FrameUpdate, IoBuffer   *)
(* and EventQueue; here an answer is its rectangle and its length.         *)
(***************************************************************************)
EXTENDS Integers, Sequences, FiniteSets

CONSTANTS
    Asked,           \* the versions a client may ask for
    Choices,         \* the security types a client may choose
    Requests,        \* the messages a client may send after the handshake
    Screens,         \* the sizes the application creates the framebuffer with
    NewScreens,      \* and those it resizes it to
    ScreenBytes,     \* bytes per pixel of the framebuffer of the server
    ByteBase,        \* how many values the low byte of a size has
    TopLength,       \* the largest number the length of a text can hold, 2^n - 1
    SocketRoom,      \* how much a client leaves unread before a send waits for it
    BufferRoom,      \* how much the connection keeps that could not be sent
    MaxRequests,     \* bound: messages a client sends after the handshake
    MaxResizes       \* bound: resizes by the application

NoSize == [w |-> 0, h |-> 0]
NoRect == [x |-> 0, y |-> 0, w |-> 0, h |-> 0]
Msg(type, n) == [type |-> type, n |-> n, rect |-> NoRect]
Handshake == {Msg("version", v) : v \in Asked} \cup {Msg("choice", n) : n \in Choices}
                \cup {Msg("clientinit", 0)}
Message == Handshake \cup Requests

ASSUME SessionAssumption ==
    /\ Asked \subseteq Nat /\ Choices \subseteq Nat
    /\ Requests \subseteq [type : {"format", "encodings", "update", "key", "pointer", "text",
                                   "unknown"},
                           n : Nat, rect : [x : Nat, y : Nat, w : Nat, h : Nat]]
    /\ Screens \cup NewScreens \subseteq [w : Nat \ {0}, h : Nat \ {0}]
    /\ ScreenBytes \in {1, 2, 4}
    /\ ByteBase \in Nat \ {0}
    /\ TopLength \in Nat /\ TopLength % 2 = 1
    /\ \A m \in Requests : m.type = "text" => m.n <= TopLength
    /\ SocketRoom \in Nat \ {0} /\ BufferRoom \in Nat \ {0}
    /\ MaxRequests \in Nat /\ MaxResizes \in Nat

VARIABLES
    pc,              \* where the thread of the connection is
    version,         \* con->version
    left,            \* what a handler still has to read: encodings or bytes of a text
    format,          \* bytes per pixel of con->fb, as asked for or copied
    rect,            \* the rectangle of the request being answered
    size,            \* the size of con->fb, and in the handshake the size read so far
    stopping,        \* con->state is TRFB_STATE_STOP
    asked,           \* everything the client put into its stream
    arrived,         \* how many parts of its last message have arrived
    handled, part,   \* the reader: messages done, parts read of the next one
    said,            \* everything the thread has written
    flushed,         \* how much of it has left the buffer of the connection
    heard,           \* how much of it the client has read
    events,          \* the events handed to trfb_server_add_event
    client,          \* where the client is
    screen,          \* the size of the framebuffer of the server
    resizing,        \* the new size while trfb_framebuffer_resize stores it
    resizes,         \* bound: resizes so far
    shown,           \* the sizes of the screen while the thread reads it (history)
    late             \* a flush has timed out (history)

threadVars == <<version, left, format, rect, size>>
outVars == <<said, flushed, late>>
inVars == <<handled, part>>
clientVars == <<asked, arrived, heard, client>>
screenVars == <<screen, resizing, resizes, shown>>
vars == <<pc, threadVars, stopping, inVars, outVars, events, clientVars, screenVars>>

-----------------------------------------------------------------------------
\* The parts of a message and their lengths in bytes, as a client sends them.
Parts(m) ==
    CASE m.type = "version"   -> <<12>>
      [] m.type = "format"    -> <<1, 19>>
      [] m.type = "encodings" -> <<1, 3>> \o [i \in 1..m.n |-> 4]
      [] m.type = "update"    -> <<1, 9>>
      [] m.type = "key"       -> <<1, 7>>
      [] m.type = "pointer"   -> <<1, 5>>
      [] m.type = "text"      -> IF m.n = 0 THEN <<1, 7>> ELSE <<1, 7, m.n>>
      [] OTHER                -> <<1>>

\* The bytes read at each place of the thread, and the part of the message
\* the thread takes them for.
Reading == {"version", "choice", "clientinit", "type", "format", "encodings", "encoding",
            "update", "key", "pointer", "text", "textbody"}
Bytes ==
    CASE pc = "version"   -> 12
      [] pc = "format"    -> 19
      [] pc = "encodings" -> 3
      [] pc = "encoding"  -> 4
      [] pc = "update"    -> 9
      [] pc = "key"       -> 7
      [] pc = "pointer"   -> 5
      [] pc = "text"      -> 7
      [] pc = "textbody"  -> left
      [] OTHER            -> 1
Writing == {"offer", "security", "result", "serverinit", "header", "payload"}

Coming == asked[handled + 1]
Arrived == \/ handled + 1 < Len(asked)
           \/ handled + 1 = Len(asked) /\ part < arrived
\* The next part is the one the thread wants.
Expected ==
    /\ part < Len(Parts(Coming)) /\ Parts(Coming)[part + 1] = Bytes
    /\ CASE pc \in {"version", "choice", "clientinit"} -> part = 0 /\ Coming.type = pc
         [] pc = "type" -> part = 0
         [] OTHER       -> TRUE

-----------------------------------------------------------------------------
Init ==
    /\ pc = "offer" /\ version = 0 /\ left = 0 /\ format = 0 /\ rect = NoRect
    /\ size = NoSize /\ stopping = FALSE
    /\ asked = <<>> /\ arrived = 0 /\ handled = 0 /\ part = 0
    /\ said = <<>> /\ flushed = 0 /\ heard = 0 /\ late = FALSE
    /\ events = <<>> /\ client = "version"
    /\ screen \in Screens /\ resizing = NoSize /\ resizes = 0
    /\ shown = {screen}

\* trfb_connection_write_all: into the buffer, as long as it has room, and out
\* of it with a send the client leaves room for; a flush that times out leaves
\* what it could not send in the buffer.
Say(kind, r, n) ==
    /\ said' = Append(said, [kind |-> kind, rect |-> r, n |-> n])
    /\ \/ flushed - heard < SocketRoom /\ flushed' = Len(said) + 1 /\ UNCHANGED late
       \/ Len(said) - flushed < BufferRoom /\ late' = TRUE /\ UNCHANGED flushed

Quiet == UNCHANGED outVars
OutsideSame == UNCHANGED <<stopping, clientVars, screenVars>>

\* One read of the thread that leaves the message unfinished, and the last one.
Reads(place) == pc = place /\ Arrived
ReadsOn(next) ==
    /\ part' = part + 1 /\ UNCHANGED handled
    /\ pc' = IF Expected THEN next ELSE "adrift"
Finished(inStep, k, next) ==
    IF inStep /\ k = Len(Parts(Coming))
    THEN handled' = handled + 1 /\ part' = 0 /\ pc' = next
    ELSE pc' = "adrift" /\ UNCHANGED inVars
ReadsLast(next) == Finished(Expected, part + 1, next)

(* negotiate *)

Writes(from, kind, next) ==
    /\ pc = from /\ pc' = next
    /\ Say(kind, NoRect, 0)
    /\ OutsideSame /\ UNCHANGED <<threadVars, inVars, events>>

\* trfb_msg_protocol_version_encode, always of trfb_v8
OfferVersion == Writes("offer", "version", "version")

\* trfb_msg_protocol_version_decode
Decoded_Raw(n) == n
Decoded_Strict(n) == IF n = 8 THEN 8 ELSE 7
Decoded(n) == IF n \in {7, 8} THEN n ELSE 3
ReadVersion ==
    /\ Reads("version")
    /\ version' = Decoded(Coming.n)
    /\ ReadsLast("security")
    /\ OutsideSame /\ Quiet /\ UNCHANGED <<left, format, rect, size, events>>

\* 4 bytes before version 7, a list with one entry since
WriteSecurity ==
    IF version < 7 THEN Writes("security", "sectype", "clientinit")
                   ELSE Writes("security", "sectypes", "choice")

BehindChoice == IF version >= 8 THEN "result" ELSE "clientinit"
ReadChoice ==
    /\ Reads("choice")
    /\ IF Coming.n = 1 THEN ReadsLast(BehindChoice) ELSE ReadsOn("ended")
    /\ OutsideSame /\ Quiet /\ UNCHANGED <<threadVars, events>>

WriteResult == Writes("result", "result", "clientinit")

ReadClientInit ==
    /\ Reads("clientinit")
    /\ ReadsLast("widthhigh")
    /\ OutsideSame /\ Quiet /\ UNCHANGED <<threadVars, events>>

\* The size is read byte by byte and without the lock of the framebuffer.
High(n) == (n \div ByteBase) * ByteBase
Low_Lost(n) == 0
Low(n) == n % ByteBase
ReadSize ==
    /\ \/ pc = "widthhigh" /\ pc' = "widthlow" /\ size' = [w |-> High(screen.w), h |-> 0]
       \/ pc = "widthlow" /\ pc' = "heighthigh"
          /\ size' = [w |-> size.w + Low(screen.w), h |-> 0]
       \/ pc = "heighthigh" /\ pc' = "heightlow"
          /\ size' = [w |-> size.w, h |-> High(screen.h)]
       \/ pc = "heightlow" /\ pc' = "serverinit"
          /\ size' = [w |-> size.w, h |-> size.h + Low(screen.h)]
    /\ OutsideSame /\ Quiet /\ UNCHANGED <<version, left, format, rect, inVars, events>>

\* 32 bits per pixel are announced, whatever the framebuffer has
Whole(s) == [x |-> 0, y |-> 0, w |-> s.w, h |-> s.h]
WriteServerInit ==
    /\ pc = "serverinit" /\ pc' = "type"
    /\ Say("serverinit", Whole(size), 4)
    /\ OutsideSame /\ UNCHANGED <<threadVars, inVars, events>>

(* the message loop and its handlers *)

KnownTypes == {"format", "encodings", "update", "key", "pointer", "text"}
ReadType ==
    /\ Reads("type")
    /\ ReadsOn(IF Coming.type \in KnownTypes THEN Coming.type ELSE "ended")
    /\ OutsideSame /\ Quiet /\ UNCHANGED <<threadVars, events>>

\* con->fb is made anew, for pixels of n bytes (the bits asked for are divided
\* in FrameUpdate); another size or a lack of memory ends the thread.
SetPixelFormat ==
    /\ Reads("format")
    /\ \/ Coming.n \in {1, 2, 4} /\ ReadsLast("type") /\ format' = Coming.n
       \/ ReadsOn("ended") /\ UNCHANGED format
    /\ OutsideSame /\ Quiet /\ UNCHANGED <<version, left, rect, size, events>>

SetEncodings ==
    /\ Reads("encodings")
    /\ left' = Coming.n
    /\ IF Coming.n = 0 THEN ReadsLast("type") ELSE ReadsOn("encoding")
    /\ OutsideSame /\ Quiet /\ UNCHANGED <<version, format, rect, size, events>>
LastEncoding_Late == left = 0
LastEncoding == left = 1
ReadEncoding ==
    /\ Reads("encoding")
    /\ left' = left - 1
    /\ IF LastEncoding THEN ReadsLast("type") ELSE ReadsOn("encoding")
    /\ OutsideSame /\ Quiet /\ UNCHANGED <<version, format, rect, size, events>>

Heard(type) == Append(events, [type |-> type, n |-> Coming.n])
KeyEvent ==
    /\ Reads("key")
    /\ ReadsLast("type") /\ events' = Heard("key")
    /\ OutsideSame /\ Quiet /\ UNCHANGED threadVars
PointerEvent ==
    /\ Reads("pointer")
    /\ ReadsLast("type") /\ events' = Heard("pointer")
    /\ OutsideSame /\ Quiet /\ UNCHANGED threadVars

\* The length goes through an int: with its top bit set it is negative, and
\* malloc is asked for nearly all of a size_t, except for the largest length,
\* whose len + 1 is 0.
Signed(n) == IF n > TopLength \div 2 THEN n - (TopLength + 1) ELSE n
ClientCutText ==
    /\ Reads("text")
    /\ left' = Signed(Coming.n)
    /\ \/ Signed(Coming.n) >= -1 /\ ReadsOn("textbody")
       \/ ReadsOn("ended")
    /\ OutsideSame /\ Quiet /\ UNCHANGED <<version, format, rect, size, events>>
ReadText ==
    /\ pc = "textbody"
    /\ IF left > 0 THEN Arrived /\ ReadsLast("type") ELSE Finished(TRUE, part, "type")
    /\ events' = Append(events, [type |-> "text", n |-> left])
    /\ OutsideSame /\ Quiet /\ UNCHANGED threadVars

UpdateRequest ==
    /\ Reads("update")
    /\ rect' = Coming.rect
    /\ ReadsOn("convert")
    /\ OutsideSame /\ Quiet /\ UNCHANGED <<version, left, format, size, events>>

\* con->fb gets the picture, is copied first when the client has not set a
\* format; the request is clipped to its size, and ignored when its corner is
\* then outside its own rectangle.
Lesser(a, b) == IF a < b THEN a ELSE b
Clipped_Not(r, s) == r
Clipped(r, s) == [x |-> r.x, y |-> r.y, w |-> Lesser(r.w, s.w), h |-> Lesser(r.h, s.h)]
Ignored_Swapped(r) == r.x < r.w \/ r.y < r.h
Ignored(r) == r.x > r.w \/ r.y > r.h
FormatToSend_Screen == ScreenBytes
FormatToSend == IF format = 0 THEN ScreenBytes ELSE format
Convert ==
    /\ pc = "convert" /\ resizing = NoSize
    /\ format' = FormatToSend
    /\ size' = screen
    /\ rect' = Clipped(rect, screen)
    /\ IF Ignored(rect') THEN Finished(TRUE, part, "type") ELSE pc' = "header" /\ UNCHANGED inVars
    /\ OutsideSame /\ Quiet /\ UNCHANGED <<version, left, events>>
WriteHeader ==
    /\ pc = "header" /\ pc' = "payload"
    /\ Say("header", rect, 0)
    /\ OutsideSame /\ UNCHANGED <<threadVars, inVars, events>>
WritePayload ==
    /\ pc = "payload" /\ Finished(TRUE, part, "type")
    /\ Say("payload", Whole(size), format)
    /\ OutsideSame /\ UNCHANGED <<threadVars, events>>

(* the ends *)

\* a handler waits for bytes that are not there
Waits == pc \in Reading /\ ~Arrived /\ (pc = "textbody" => left > 0)
End == pc' = "ended" /\ OutsideSame /\ Quiet /\ UNCHANGED <<threadVars, inVars, events>>
\* check_stopped, at the head of the loop and after every second that a read,
\* a write into a full buffer or a flush cut short has waited
HeldInWrite == pc \in Writing /\ flushed - heard >= SocketRoom
StopSeen_NotInWrites == stopping /\ (pc = "type" \/ Waits) /\ End
StopSeen == stopping /\ (pc = "type" \/ Waits \/ HeldInWrite) /\ End
ReadFails == client = "gone" /\ Waits /\ End
WriteFails == client = "gone" /\ pc \in Writing /\ End
\* no memory for the copy of the framebuffer or for its conversion
ConvertFails == pc = "convert" /\ resizing = NoSize /\ End
\* The thread takes the rest of a text for messages until one is unknown to
\* it, its bytes are used up and the client gone, or it is told to stop.
AdriftEnds == pc = "adrift" /\ (stopping \/ client = "gone") /\ End

Negotiate ==
    \/ OfferVersion \/ ReadVersion \/ WriteSecurity \/ ReadChoice \/ WriteResult
    \/ ReadClientInit \/ ReadSize \/ WriteServerInit
Handle ==
    \/ ReadType \/ SetPixelFormat \/ SetEncodings \/ ReadEncoding \/ KeyEvent \/ PointerEvent
    \/ ClientCutText \/ ReadText \/ UpdateRequest \/ Convert \/ WriteHeader \/ WritePayload
ThreadStep ==
    \/ Negotiate \/ Handle
    \/ StopSeen \/ ReadFails \/ WriteFails \/ ConvertFails \/ AdriftEnds

-----------------------------------------------------------------------------
\* The client.  It follows the version it asked for: no list of security types
\* before 7, no result before 8; a version that is neither is spoken as 3.
ClientSpeaks == IF asked[1].n \in {7, 8} THEN asked[1].n ELSE 3
Hears(kind) == said[heard + 1].kind = kind
Sends(m) == asked' = Append(asked, m) /\ arrived' = 1
ThreadSame == UNCHANGED <<pc, threadVars, stopping, inVars, outVars, events, screenVars>>

ClientHearsVersion ==
    /\ client = "version" /\ heard < flushed
    /\ heard' = heard + 1
    /\ \E v \in Asked : Sends(Msg("version", v))
    /\ client' = IF Hears("version") THEN "security" ELSE "adrift"
    /\ ThreadSame
ClientHearsSecurity ==
    /\ client = "security" /\ heard < flushed
    /\ heard' = heard + 1
    /\ IF ClientSpeaks = 3
       THEN /\ client' = IF Hears("sectype") THEN "init" ELSE "adrift"
            /\ UNCHANGED <<asked, arrived>>
       ELSE /\ \E n \in Choices : Sends(Msg("choice", n))
            /\ client' = IF ~Hears("sectypes") THEN "adrift"
                         ELSE IF ClientSpeaks = 8 THEN "result" ELSE "init"
    /\ ThreadSame
ClientHearsResult ==
    /\ client = "result" /\ heard < flushed
    /\ heard' = heard + 1
    /\ client' = IF Hears("result") THEN "init" ELSE "adrift"
    /\ ThreadSame /\ UNCHANGED <<asked, arrived>>
ClientInits ==
    /\ client = "init"
    /\ Sends(Msg("clientinit", 0))
    /\ client' = "serverinit"
    /\ ThreadSame /\ UNCHANGED heard
ClientHearsInit ==
    /\ client = "serverinit" /\ heard < flushed
    /\ heard' = heard + 1
    /\ client' = IF Hears("serverinit") THEN "ready" ELSE "adrift"
    /\ ThreadSame /\ UNCHANGED <<asked, arrived>>

LastArrived == arrived = Len(Parts(asked[Len(asked)]))
RequestsSent == Cardinality({i \in 1..Len(asked) : asked[i] \in Requests})
ClientAsks ==
    /\ client = "ready" /\ LastArrived
    /\ RequestsSent < MaxRequests
    /\ \E m \in Requests : Sends(m)
    /\ ThreadSame /\ UNCHANGED <<heard, client>>
\* one more part of its last message comes through
ClientGoesOn ==
    /\ client = "ready" /\ ~LastArrived
    /\ arrived' = arrived + 1
    /\ ThreadSame /\ UNCHANGED <<asked, heard, client>>

\* Places in the two streams: the requests for an update and the formats among
\* the first n messages of the client, the answers among the first n things
\* said, and the k-th place of a set.
UpdatesIn(n) == {i \in 1..n : asked[i].type = "update"}
FormatsIn(n) == {i \in 1..n : asked[i].type = "format"}
AnswersIn(n) == {i \in 1..n : said[i].kind = "payload"}
OfRank(S, k) == {i \in S : Cardinality({j \in S : j <= i}) = k}
KthOf(S, k) == CHOOSE i \in OfRank(S, k) : TRUE

\* The client takes the k-th update for the answer to its k-th request, in the
\* format it had asked for by then; its length follows from the header.
RequestAt(k) == KthOf(UpdatesIn(Len(asked)), k)
LastOf(S) == CHOOSE i \in S : \A j \in S : j <= i
ClientFormat(i) == IF FormatsIn(i) = {} THEN 4 ELSE asked[LastOf(FormatsIn(i))].n
LengthOf(p) == p.rect.w * p.rect.h * p.n
HeardAnswers == Cardinality(AnswersIn(heard))
ClientHearsUpdate ==
    /\ client = "ready" /\ heard + 1 < flushed
    /\ heard' = heard + 2
    /\ LET r == said[heard + 1].rect IN
       client' = IF /\ Hears("header") /\ said[heard + 2].kind = "payload"
                    /\ LengthOf(said[heard + 2])
                          = r.w * r.h * ClientFormat(RequestAt(HeardAnswers + 1))
                 THEN "ready" ELSE "adrift"
    /\ ThreadSame /\ UNCHANGED <<asked, arrived>>
ClientLeaves ==
    /\ client # "gone" /\ client' = "gone"
    /\ ThreadSame /\ UNCHANGED <<asked, arrived, heard>>

\* The application stops the connection and resizes the framebuffer, the width
\* before the height, under the lock Convert waits for.
OthersSame == UNCHANGED <<pc, threadVars, inVars, outVars, events, clientVars>>
AppStops == ~stopping /\ stopping' = TRUE /\ OthersSame /\ UNCHANGED screenVars
BeforeSize == {"offer", "version", "security", "choice", "result", "clientinit", "widthhigh"}
HalfSize == {"widthlow", "heighthigh", "heightlow"}
Watched(s) == IF pc \in BeforeSize THEN {s} ELSE IF pc \in HalfSize THEN shown \cup {s} ELSE shown
AppResizes ==
    /\ resizing = NoSize /\ resizes < MaxResizes
    /\ \E s \in NewScreens \ {screen} :
          resizing' = s /\ screen' = [w |-> s.w, h |-> screen.h]
    /\ resizes' = resizes + 1 /\ shown' = Watched(screen')
    /\ OthersSame /\ UNCHANGED stopping
AppResized ==
    /\ resizing # NoSize
    /\ screen' = resizing /\ resizing' = NoSize /\ shown' = Watched(screen')
    /\ OthersSame /\ UNCHANGED <<stopping, resizes>>

ClientReads ==
    \/ ClientHearsVersion \/ ClientHearsSecurity \/ ClientHearsResult \/ ClientInits
    \/ ClientHearsInit \/ ClientGoesOn \/ ClientHearsUpdate
Next ==
    \/ ThreadStep \/ ClientReads \/ ClientAsks \/ ClientLeaves
    \/ AppStops \/ AppResizes \/ AppResized

\* The thread is scheduled, with its timeouts, and a lock of the framebuffer is
\* released.  The client need not go on.
Spec == Init /\ [][Next]_vars
FairSpec == Spec /\ WF_vars(ThreadStep) /\ WF_vars(AppResized)
\* A client that follows the protocol as long as it stays: it reads what comes
\* and does not fall silent in a message.
SteadyClient == WF_vars(ClientReads)

-----------------------------------------------------------------------------
Kinds == {"version", "sectype", "sectypes", "result", "serverinit", "header", "payload"}
Rects == [x : Nat, y : Nat, w : Nat, h : Nat]
Places == Reading \cup Writing \cup
            {"widthhigh", "widthlow", "heighthigh", "heightlow", "convert", "adrift", "ended"}
ClientPlaces ==
    {"version", "security", "result", "init", "serverinit", "ready", "adrift", "gone"}

TypeOK ==
    /\ pc \in Places /\ client \in ClientPlaces
    /\ version \in {0, 3, 7, 8} /\ left \in Int /\ format \in {0, 1, 2, 4}
    /\ rect \in Rects /\ size \in [w : Nat, h : Nat]
    /\ stopping \in BOOLEAN /\ late \in BOOLEAN
    /\ asked \in Seq(Message) /\ arrived \in Nat /\ handled \in Nat /\ part \in Nat
    /\ said \in Seq([kind : Kinds, rect : Rects, n : Nat])
    /\ flushed \in Nat /\ heard \in Nat
    /\ events \in Seq([type : {"key", "pointer", "text"}, n : Int])
    /\ screen \in [w : Nat, h : Nat] /\ resizing \in [w : Nat, h : Nat] /\ resizes \in Nat
    /\ shown \in SUBSET [w : Nat, h : Nat]

(* The thread in step *)

\* The state has its type, and the thread never takes a part of a message for
\* another one, unless a text came with the largest length: len + 1 is 0 there,
\* and none of it is read.
ThreadInStep ==
    /\ TypeOK
    /\ pc = "adrift" =>
          \E i \in 1..Len(asked) : asked[i].type = "text" /\ asked[i].n = TopLength

\* What the thread does with the messages is what a client may rely on: each
\* takes effect once, in order, in the pixel format asked for before it.
Answers == AnswersIn(Len(said))
AnswerFormats == [k \in 1..Cardinality(Answers) |-> said[KthOf(Answers, k)].n]
Promise == INSTANCE Dialogue WITH
    FirstFormat <- ScreenBytes,
    answers <- AnswerFormats,
    format <- FormatToSend,
    open <- pc \notin {"adrift", "ended"}
KeepsPromise == Promise!Spec

(* The client in step *)

\* The client never takes one thing for another in what it is sent, as long as
\* the framebuffer has the pixels ServerInit announces, it asks for the
\* whole screen each time, and the application does not resize: otherwise the
\* header is about the clipped request, and the pixels behind it are all of
\* con->fb.
AsksForAll ==
    \A i \in 1..Len(asked) : asked[i].type = "update" =>
        asked[i].rect.x = 0 /\ asked[i].rect.y = 0
        /\ asked[i].rect.w >= screen.w /\ asked[i].rect.h >= screen.h
ClientInStep == client = "adrift" => resizes # 0 \/ ~AsksForAll \/ ScreenBytes # 4

\* Four reads without a lock can be of several sizes, but each byte of the size
\* in ServerInit is that of a size the screen had between the first read and the
\* last: an application that does not resize then finds its size announced.
AnnouncesScreen ==
    \A i \in 1..Len(said) : said[i].kind = "serverinit" =>
        \E wh, wl, hh, hl \in shown :
            /\ said[i].rect.w \div ByteBase = wh.w \div ByteBase
            /\ said[i].rect.w % ByteBase = wl.w % ByteBase
            /\ said[i].rect.h \div ByteBase = hh.h \div ByteBase
            /\ said[i].rect.h % ByteBase = hl.h % ByteBase

(* The handshake *)

\* A client that follows the protocol gets to the end of the handshake or
\* leaves, or the thread ends, or a flush gave up and left its bytes behind.
HandshakeEnds ==
    SteadyClient => <>(client \in {"ready", "gone"} \/ pc = "ended" \/ late)

\* A thread that is told to stop ends, wherever it is waiting, whatever the
\* client does: it may fall silent in the middle of a message, or read nothing
\* any more.
StopEnds == stopping ~> pc = "ended"

\* A request for the whole screen is answered, unless the session ends, a
\* flush gave up, thread or client lost its step, or the client falls silent.
Wholes == {i \in UpdatesIn(Len(asked)) : ~(asked[i].rect.x # 0 \/ asked[i].rect.y # 0)}
RequestsAnswered ==
    SteadyClient =>
        []<>(\/ HeardAnswers >= Cardinality(Wholes)
             \/ pc \in {"ended", "adrift"} \/ late \/ client \in {"gone", "adrift"})

=============================================================================
