----------------------------- MODULE FrameUpdate -----------------------------
(***************************************************************************)
(* The picture on its way to the clients: an application that draws and    *)
(* resizes srv->fb under its lock, and the connection threads that answer  *)
(* SetPixelFormat and UpdateRequest (connection.c) with their own copy     *)
(* con->fb, made by the functions of fb.c.                                 *)
(*                                                                         *)
(* A picture is drawn and converted in two halves, each holding the number *)
(* of the drawing it shows, so that a torn picture is two numbers.  Masks, *)
(* shifts and the pixels themselves are left out; so is the negotiation.   *)
(***************************************************************************)
EXTENDS Integers

CONSTANTS
    Conns,      \* the connection threads
    App,        \* the application thread
    NoOne,      \* no thread, no framebuffer: the C null pointer
    Sizes,      \* the sizes [w, h] the application gives the framebuffer
    Formats,    \* the formats [bpp, bigEndian] the clients ask for
    Requests,   \* the rectangles [x, y, w, h] the clients ask for
    HostBE,     \* isBE(): the host is big-endian
    MaxFrames,  \* bound on the drawings
    MaxUpdated  \* bound on srv->updated, 2^32 - 1 in the code

ScreenBpp == 4                   \* bytes of a pixel of srv->fb
Halves == {1, 2}
Blank == [i \in Halves |-> 0]    \* calloc
Drawings == 0..MaxFrames

\* con->fb, its order TRUE for big-endian
ClientFb == [w : Nat, h : Nat, bpp : {1, 2, 4}, order : BOOLEAN, halves : [Halves -> Drawings]]
FbOf(w, h, bpp, order, hs) ==
    [w |-> w, h |-> h, bpp |-> bpp, order |-> order, halves |-> hs]

NoRect == [x |-> 0, y |-> 0, w |-> 0, h |-> 0]

ASSUME FrameAssumption ==
    /\ App \notin Conns /\ NoOne \notin Conns \cup {App} \cup ClientFb
    /\ Sizes # {} /\ Sizes \subseteq [w : Nat \ {0}, h : Nat \ {0}]
    /\ Formats \subseteq [bpp : Nat, bigEndian : BOOLEAN]
    /\ Requests \subseteq [x : Nat, y : Nat, w : Nat, h : Nat]
    /\ HostBE \in BOOLEAN
    /\ MaxFrames \in Nat /\ MaxUpdated \in Nat

VARIABLES
    app,        \* where the application is
    holder,     \* who holds srv->fb->lock
    updated,    \* srv->updated
    size,       \* the size of srv->fb
    halves,     \* the drawings its two halves show
    shown,      \* history: the pictures <<size, drawing>> that were complete
    conPc,      \* where each connection thread is
    format,     \* con->format
    fb,         \* con->fb
    rect        \* the rectangle of the request being answered

srvVars == <<holder, updated, size, halves, shown>>
conVars == <<conPc, format, fb, rect>>
vars == <<app, srvVars, conVars>>

WriteSection == {"first", "second"}

TypeOK ==
    /\ app \in {"idle", "lockRead", "waitFrame", "lockWrite"} \cup WriteSection
    /\ holder \in Conns \cup {App, NoOne}
    /\ updated \in 0..MaxUpdated
    /\ size \in Sizes
    /\ halves \in [Halves -> Drawings]
    /\ shown \subseteq Sizes \X Drawings
    /\ conPc \in [Conns -> {"idle", "create", "request", "convert", "second", "compose",
                            "reply", "ended"}]
    /\ format \in [Conns -> [bpp : Nat, bigEndian : BOOLEAN]]
    /\ fb \in [Conns -> ClientFb \cup {NoOne}]
    /\ rect \in [Conns -> [x : Nat, y : Nat, w : Nat, h : Nat]]

\* trfb_server_create, and connections that have been negotiated
Init ==
    /\ app = "idle" /\ holder = NoOne /\ updated = 0
    /\ size \in Sizes
    /\ halves = Blank /\ shown = {<<size, 0>>}
    /\ conPc = [c \in Conns |-> "idle"]
    /\ format = [c \in Conns |-> [bpp |-> 0, bigEndian |-> FALSE]]
    /\ fb = [c \in Conns |-> NoOne]
    /\ rect = [c \in Conns |-> NoRect]

-----------------------------------------------------------------------------
(* The lock of the framebuffer. *)

LockIsFree == holder = NoOne

\* trfb_server_lock_fb(srv, w): writers have taken note of the readers before
UpdatedBehind_Swapped(w) == IF w THEN updated + 1 ELSE 0
UpdatedBehind(w) == IF w THEN 0 ELSE updated + 1

LockFb(t, w) ==
    /\ LockIsFree
    /\ UpdatedBehind(w) <= MaxUpdated
    /\ holder' = t
    /\ updated' = UpdatedBehind(w)

\* the same around a critical section of one step
UnderLock ==
    /\ LockIsFree
    /\ UpdatedBehind(FALSE) <= MaxUpdated
    /\ updated' = UpdatedBehind(FALSE)
    /\ UNCHANGED holder

-----------------------------------------------------------------------------
(* The application: draws at will (trfbtest), or when it sees that the picture *)
(* has been read and the camera has a new one (rfbcam).                        *)

AppLocal == UNCHANGED conVars

AppWantsToDraw ==
    /\ app = "idle"
    /\ app' = "lockWrite"
    /\ UNCHANGED srvVars /\ AppLocal

\* trfb_server_updated reads the counter under the lock
AppSeesUpdate ==
    /\ app = "idle" /\ LockIsFree
    /\ updated # 0
    /\ app' = "lockRead"
    /\ UNCHANGED srvVars /\ AppLocal

AppLockRead ==
    /\ app = "lockRead"
    /\ LockFb(App, FALSE)
    /\ app' = "waitFrame"
    /\ UNCHANGED <<size, halves, shown>> /\ AppLocal

\* webcam_wait_frame, under the lock, ends with a frame or without one; or not at
\* all, since behind select it repeats VIDIOC_DQBUF without a deadline
AppWaitFrame ==
    /\ app = "waitFrame"
    /\ holder' = NoOne
    /\ app' \in {"lockWrite", "idle"}
    /\ UNCHANGED <<updated, size, halves, shown>> /\ AppLocal

\* The application takes the lock for writing, and may resize the framebuffer
\* (trfb_framebuffer_resize, which trfb.h offers to it) before it draws all of it
AppLockWrite ==
    /\ app = "lockWrite"
    /\ halves[1] < MaxFrames
    /\ LockFb(App, TRUE)
    /\ size' \in Sizes
    /\ app' = "first"
    /\ UNCHANGED <<halves, shown>> /\ AppLocal

AppDrawsFirst ==
    /\ app = "first"
    /\ halves' = [halves EXCEPT ![1] = @ + 1]
    /\ app' = "second"
    /\ UNCHANGED <<holder, updated, size, shown>> /\ AppLocal

AppDrawsSecond ==
    /\ app = "second"
    /\ halves' = [halves EXCEPT ![2] = @ + 1]
    /\ shown' = shown \cup {<<size, halves'[2]>>}
    /\ holder' = NoOne
    /\ app' = "idle"
    /\ UNCHANGED <<updated, size>> /\ AppLocal

AppCritical == AppWaitFrame \/ AppDrawsFirst \/ AppDrawsSecond
AppStep == AppWantsToDraw \/ AppSeesUpdate \/ AppLockRead \/ AppLockWrite \/ AppCritical

-----------------------------------------------------------------------------
(* The connection threads. *)

ConGoto(c, l) == conPc' = [conPc EXCEPT ![c] = l]
SetFb(c, f) == fb' = [fb EXCEPT ![c] = f]
ScreenSame == UNCHANGED <<app, size, halves, shown>>

\* SetPixelFormat has read its message and frees the old framebuffer ...
SetPixelFormat(c) ==
    /\ conPc[c] = "idle"
    /\ \E f \in Formats : format' = [format EXCEPT ![c] = f]
    /\ SetFb(c, NoOne)
    /\ ConGoto(c, "create")
    /\ ScreenSame /\ UNCHANGED <<holder, updated, rect>>

\* ... and creates one of the new format, under the lock because its size comes
\* from the server: a square, of the width.  create_of_format turns the bits of
\* the format into bytes.
CreatedHeight == size.w
Supported(bytes) == bytes \in {1, 2, 4}
CreateFb(c) ==
    /\ conPc[c] = "create"
    /\ UnderLock
    /\ LET bytes == format[c].bpp \div 8
       IN  /\ format' = [format EXCEPT ![c] = [bpp |-> bytes, bigEndian |-> @.bigEndian]]
           /\ \/ /\ Supported(bytes)
                 /\ SetFb(c, FbOf(size.w, CreatedHeight, bytes, HostBE, Blank))
                 /\ ConGoto(c, "idle")
              \/ \* not supported, or out of memory
                 ConGoto(c, "ended") /\ UNCHANGED fb
    /\ ScreenSame /\ UNCHANGED rect

\* UpdateRequest has read its message
UpdateRequest(c) ==
    /\ conPc[c] = "idle"
    /\ \E r \in Requests : rect' = [rect EXCEPT ![c] = r]
    /\ ConGoto(c, "request")
    /\ ScreenSame /\ UNCHANGED <<holder, updated, format, fb>>

\* Without a framebuffer the thread copies the server's
CopyFb(c) ==
    /\ conPc[c] = "request" /\ fb[c] = NoOne
    /\ UnderLock
    /\ \/ /\ SetFb(c, FbOf(size.w, size.h, ScreenBpp, HostBE, halves))
          /\ UNCHANGED conPc
       \/ ConGoto(c, "ended") /\ UNCHANGED fb
    /\ ScreenSame /\ UNCHANGED <<format, rect>>

\* trfb_framebuffer_convert, from its lock on: first the size is adapted, which
\* may fail
MustResize_ByWidth(f) == f.w # size.w
MustResize(f) == f.w # size.w \/ f.h # size.h
Resized(f) == FbOf(size.w, size.h, f.bpp, f.order, f.halves)
StartConvert(c) ==
    /\ conPc[c] = "request" /\ fb[c] # NoOne
    /\ LockFb(c, FALSE)
    /\ ConGoto(c, "convert")
    /\ IF MustResize(fb[c]) THEN SetFb(c, Resized(fb[c]))
                            ELSE UNCHANGED fb
    /\ ScreenSame /\ UNCHANGED <<format, rect>>

HolderBehindFailure_Kept == holder
HolderBehindFailure == NoOne
ConvertFails(c) ==
    /\ conPc[c] = "convert"
    /\ holder' = HolderBehindFailure
    /\ ConGoto(c, "ended")
    /\ ScreenSame /\ UNCHANGED <<updated, format, fb, rect>>

\* then every pixel is overwritten, in the byte order of the host
OrderBehindConvert_Kept(f) == f.order
OrderBehindConvert(f) == HostBE
With(f, i, order) == FbOf(f.w, f.h, f.bpp, order, [f.halves EXCEPT ![i] = halves[i]])
ConvertFirst(c) ==
    /\ conPc[c] = "convert"
    /\ SetFb(c, With(fb[c], 1, fb[c].order))
    /\ ConGoto(c, "second")
    /\ ScreenSame /\ UNCHANGED <<holder, updated, format, rect>>

ConvertSecond(c) ==
    /\ conPc[c] = "second"
    /\ SetFb(c, With(fb[c], 2, OrderBehindConvert(fb[c])))
    /\ holder' = NoOne
    /\ ConGoto(c, "compose")
    /\ ScreenSame /\ UNCHANGED <<updated, format, rect>>

\* The rest of UpdateRequest works on the thread's own data: the rectangle is
\* clipped, ignored when its corner is outside what is left, and otherwise
\* answered with the whole framebuffer in the client's byte order.
Lesser(a, b) == IF a < b THEN a ELSE b
Clipped(r, f) == [x |-> r.x, y |-> r.y, w |-> Lesser(r.w, f.w), h |-> Lesser(r.h, f.h)]
OutOfRange(r) == r.x > r.w \/ r.y > r.h
\* trfb_framebuffer_endian
Swapped(f, bigEndian) ==
    FbOf(f.w, f.h, f.bpp, IF f.bpp = 1 \/ bigEndian = HostBE THEN f.order ELSE ~f.order, f.halves)
Compose(c) ==
    /\ conPc[c] = "compose"
    /\ LET r == Clipped(rect[c], fb[c])
       IN  \/ /\ OutOfRange(r)
              /\ rect' = [rect EXCEPT ![c] = NoRect]
              /\ ConGoto(c, "idle") /\ UNCHANGED fb
           \/ /\ ~OutOfRange(r)
              /\ rect' = [rect EXCEPT ![c] = r]
              /\ SetFb(c, Swapped(fb[c], format[c].bigEndian))
              /\ ConGoto(c, "reply")
    /\ ScreenSame /\ UNCHANGED <<holder, updated, format>>

\* header and pixels have been written, or the write fails
Reply(c) ==
    /\ conPc[c] = "reply"
    /\ rect' = [rect EXCEPT ![c] = NoRect]
    /\ ConGoto(c, "idle") \/ ConGoto(c, "ended")
    /\ ScreenSame /\ UNCHANGED <<holder, updated, format, fb>>

ConCritical(c) == ConvertFails(c) \/ ConvertFirst(c) \/ ConvertSecond(c)
ConStep(c) ==
    \/ SetPixelFormat(c) \/ CreateFb(c)
    \/ UpdateRequest(c) \/ CopyFb(c) \/ StartConvert(c)
    \/ ConCritical(c) \/ Compose(c) \/ Reply(c)

-----------------------------------------------------------------------------
Next == AppStep \/ \E c \in Conns : ConStep(c)

Spec == Init /\ [][Next]_vars

\* Whoever draws or converts under the lock waits for nobody and runs on.  Nothing
\* is assumed of AppWaitFrame.
FairSpec ==
    /\ Spec
    /\ WF_vars(AppDrawsFirst \/ AppDrawsSecond)
    /\ \A c \in Conns : WF_vars(ConCritical(c))

-----------------------------------------------------------------------------
(* Properties. *)

\* What a client is sent is one picture the application had finished, whole and
\* at the size it had, however often the application draws and resizes while the
\* connection converts.
RepliesAreSnapshots ==
    \A c \in Conns : conPc[c] = "reply" =>
        /\ fb[c].halves[1] = fb[c].halves[2]
        /\ <<[w |-> fb[c].w, h |-> fb[c].h], fb[c].halves[1]>> \in shown

\* The pixels of a reply are as wide and in the byte order the client last asked
\* for, or as ServerInit announced them: little-endian in the server's width.
FormatIsHonoured ==
    \A c \in Conns : conPc[c] = "reply" =>
        /\ fb[c].bpp = IF format[c].bpp = 0 THEN ScreenBpp ELSE format[c].bpp
        /\ fb[c].bpp # 1 => fb[c].order = format[c].bigEndian

\* When a client has got the current picture, an application that asks
\* trfb_server_updated is told to draw the next one.
ReadersAreNoticed ==
    \A c \in Conns :
        conPc[c] = "reply" /\ fb[c].halves = halves /\ app \notin WriteSection => updated # 0

\* The application is not caught in webcam_wait_frame for ever.
CameraAnswers == []<>(app # "waitFrame")

\* If the waits for the camera end, which rfbcam makes with the lock held, nobody
\* keeps the lock: no connection that ends because it cannot convert, and neither
\* the application nor a connection that has finished its picture.
LockIsReleased == CameraAnswers => (holder # NoOne ~> holder = NoOne)

-----------------------------------------------------------------------------
(* The inductive invariant behind the safety properties, checked by TLC and *)
(* proved in FrameUpdateProofs.                                             *)

\* the lock is held exactly inside the critical sections
LockAgrees ==
    /\ holder = App <=> app \in {"waitFrame"} \cup WriteSection
    /\ \A c \in Conns : holder = c <=> conPc[c] \in {"convert", "second"}

\* the picture is whole unless the application is drawing it
PictureAgrees ==
    /\ app = "second" => halves[1] = halves[2] + 1
    /\ app # "second" => halves[1] = halves[2]
    /\ app = "first" => halves[1] < MaxFrames
    /\ app \notin WriteSection => <<size, halves[2]>> \in shown

\* how far the conversion of a connection is
ConvertAgrees(c) ==
    /\ conPc[c] \in {"convert", "second", "compose", "reply"} => fb[c] # NoOne
    /\ conPc[c] \in {"convert", "second"} => fb[c].w = size.w /\ fb[c].h = size.h
    /\ conPc[c] = "second" => fb[c].halves[1] = halves[1]
    /\ conPc[c] \in {"compose", "reply"} =>
          /\ fb[c].halves[1] = fb[c].halves[2]
          /\ <<[w |-> fb[c].w, h |-> fb[c].h], fb[c].halves[1]>> \in shown

\* the format con->fb was made for
FormatAgrees(c) ==
    /\ conPc[c] \notin {"create", "ended"} =>
          IF fb[c] = NoOne THEN format[c].bpp = 0
          ELSE fb[c].bpp = IF format[c].bpp = 0 THEN ScreenBpp ELSE format[c].bpp
    /\ conPc[c] = "compose" => fb[c].order = HostBE
    /\ conPc[c] = "reply" /\ fb[c].bpp # 1 => fb[c].order = format[c].bigEndian

\* a picture a connection has got is an older one, or counted
ReadsAgree(c) ==
    /\ conPc[c] \in {"convert", "second"} => updated # 0
    /\ conPc[c] \in {"compose", "reply"} =>
          /\ fb[c].halves[2] <= halves[2]
          /\ fb[c].halves[2] = halves[2] /\ app \notin WriteSection => updated # 0

FInv ==
    /\ TypeOK
    /\ LockAgrees
    /\ PictureAgrees
    /\ \A c \in Conns : ConvertAgrees(c) /\ FormatAgrees(c) /\ ReadsAgree(c)

=============================================================================
