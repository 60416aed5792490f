------------------------------- MODULE Webcam -------------------------------
(***************************************************************************)
(* The capture library of src/libwebcam/v4l2.c: one camera, used by one    *)
(* thread, opposite a V4L2 driver that is external.  The library makes its *)
(* calls one at a time and any of them may fail; between two of them the   *)
(* driver fills the buffers it has been given.                             *)
(*                                                                         *)
(* A picture is two halves, each with the number of the frame it is from,  *)
(* so that a picture put together from two frames can be told.             *)
(***************************************************************************)
EXTENDS Integers, FiniteSets

CONSTANTS
    Drivers,         \* what a driver can do, and the sizes it reports
    Granted,         \* how many buffers a driver may grant
    MaxFrames,       \* bound: frames filled or read
    MaxFaults        \* bound: calls of the driver and allocations that fail

ASSUME WebcamAssumption ==
    /\ Drivers \subseteq [streaming : BOOLEAN, readwrite : BOOLEAN,
                          w : Nat \ {0}, h : Nat \ {0}, line : Nat, size : Nat, len : Nat]
    /\ Granted \subseteq Nat
    /\ MaxFrames \in Nat /\ MaxFaults \in Nat

VARIABLES
    pc,              \* where the thread is: closed, idle, or inside a call
    attempt,         \* which init_cam of webcam_open this is
    method,          \* priv->io_method
    held,            \* the blocks of memory that are allocated
    fd,              \* the device is open
    mapped,          \* the buffers mapped into memory
    count,           \* priv->buffers_count
    k,               \* the counter of the loops over the buffers
    cur,             \* the buffer taken from the driver
    geometry,        \* linebytes and img_len
    image,           \* cam->image: the frame of each half
    readbuf,         \* priv->buf
    driver,          \* the driver (never changes)
    bufs,            \* its buffers: where they are and the frame of each half
    streaming,       \* it is streaming
    frame,           \* frames made so far
    faults,          \* bound: failures so far
    lost,            \* buffers a QBUF failed to give back (history)
    dirty,           \* a start has failed and no stop succeeded since (history)
    short            \* a read or a buffer had less than a picture (history)

libVars == <<attempt, method, held, fd, mapped, count, k, cur, geometry>>
pictures == <<image, readbuf>>
drvVars == <<bufs, streaming, frame>>
history == <<lost, dirty, short>>
vars == <<pc, libVars, pictures, driver, drvVars, faults, history>>

Blank == [h \in 1..2 |-> 0]
NoBufs == [i \in {} |-> [at |-> "app", pic |-> Blank]]
Bufs == DOMAIN bufs
At(place) == {i \in Bufs : bufs[i].at = place}

Init ==
    /\ pc = "closed" /\ attempt = 1 /\ method = "mmap" /\ held = {} /\ fd = FALSE
    /\ mapped = {} /\ count = 0 /\ k = 0 /\ cur = 0 /\ geometry = [line |-> 0, len |-> 0]
    /\ image = Blank /\ readbuf = Blank
    /\ driver \in Drivers /\ bufs = NoBufs /\ streaming = FALSE /\ frame = 0
    /\ faults = 0 /\ lost = {} /\ dirty = FALSE /\ short = FALSE

Goto(from, to) == pc = from /\ pc' = to
Fault == faults < MaxFaults /\ faults' = faults + 1
Fine == UNCHANGED faults
DriverSame == UNCHANGED <<driver, drvVars>>

-----------------------------------------------------------------------------
(* webcam_open *)

\* calloc of the camera and of its private part, which frees the first
OpenCam ==
    /\ Goto("closed", "priv")
    /\ held' = held \cup {"cam"} /\ attempt' = 1 /\ method' = "mmap" /\ count' = 0
    /\ lost' = {} /\ dirty' = FALSE /\ short' = FALSE
    /\ Fine /\ DriverSame /\ UNCHANGED <<fd, mapped, k, cur, geometry, pictures>>
OpenPriv ==
    /\ \/ Goto("priv", "device") /\ held' = held \cup {"priv"} /\ Fine
       \/ Goto("priv", "closed") /\ held' = held \ {"cam"} /\ Fault
    /\ DriverSame
    /\ UNCHANGED <<attempt, method, fd, mapped, count, k, cur, geometry, pictures, history>>

\* v4l2_open, before either attempt; open files of a device start without buffers
OpenDevice ==
    /\ \/ Goto("device", "caps") /\ fd' = TRUE /\ Fine /\ UNCHANGED held
       \/ Goto("device", "closed") /\ held' = held \ {"cam", "priv"} /\ Fault /\ UNCHANGED fd
    /\ DriverSame
    /\ UNCHANGED <<attempt, method, mapped, count, k, cur, geometry, pictures, history>>

\* init_cam returns -1: the device is closed, which makes the driver forget its
\* buffers, and opened again for reading, or the camera is given up.  It is closed
\* with close, not v4l2_close: what libv4l2 keeps of the file is left out.
FdBehindFailure_Open == TRUE
FdBehindFailure == FALSE
BufsBehind(open) == IF open THEN bufs ELSE NoBufs
LastAttempt == attempt = 2
InitFails(kept) ==
    /\ fd' = FdBehindFailure /\ bufs' = BufsBehind(fd') /\ UNCHANGED <<streaming, frame>>
    /\ IF LastAttempt
       THEN pc' = "closed" /\ held' = kept \ {"cam", "priv"} /\ UNCHANGED <<attempt, method>>
       ELSE attempt' = attempt + 1 /\ method' = "read" /\ pc' = "device" /\ held' = kept
    /\ UNCHANGED <<mapped, count, k, cur, geometry>>

\* VIDIOC_QUERYCAP and what the method needs
Able == IF method = "mmap" THEN driver.streaming ELSE driver.readwrite
QueryCap ==
    /\ pc = "caps"
    /\ \/ Able /\ pc' = "format" /\ Fine /\ UNCHANGED <<libVars, drvVars>>
       \/ ~Able /\ InitFails(held) /\ Fine
       \/ InitFails(held) /\ Fault
    /\ UNCHANGED <<driver, pictures, history>>

\* VIDIOC_S_FMT; sizes the driver reports too small are raised, to two bytes
\* per pixel
Larger(a, b) == IF a < b THEN b ELSE a
Line == Larger(driver.line, driver.w * 2)
ImageLen_Reported == driver.size
ImageLen == Larger(driver.size, Line * driver.h)
SetFormat ==
    /\ pc = "format"
    /\ \/ /\ pc' = "image" /\ Fine
          /\ geometry' = [line |-> Line, len |-> ImageLen]
          /\ UNCHANGED <<attempt, method, held, fd, mapped, count, k, cur, drvVars>>
       \/ InitFails(held) /\ Fault
    /\ UNCHANGED <<driver, pictures, history>>
AllocImage ==
    /\ pc = "image"
    /\ \/ /\ pc' = (IF method = "mmap" THEN "reqbufs" ELSE "readbuf") /\ Fine
          /\ held' = held \cup {"image"} /\ image' = Blank
          /\ UNCHANGED <<attempt, method, fd, mapped, count, k, cur, geometry, drvVars>>
       \/ InitFails(held) /\ Fault /\ UNCHANGED image
    /\ UNCHANGED <<driver, readbuf, history>>

\* init_mmap: the buffers are asked for, described and mapped one by one.
\* When that fails the same open device is used for reading.
FallsBack(kept) ==
    /\ pc' = "readbuf" /\ method' = "read" /\ held' = kept /\ mapped' = mapped \ (0..(k - 1))
    /\ UNCHANGED <<attempt, fd, count, k, cur, geometry>>
RequestBuffers ==
    /\ pc = "reqbufs"
    /\ \/ \E n \in Granted :
             /\ bufs' = [i \in 0..(n - 1) |-> [at |-> "app", pic |-> Blank]]
             /\ \/ n < 2 /\ FallsBack(held) /\ Fine
                \/ /\ n >= 2 /\ pc' = "map" /\ held' = held \cup {"buffers"} /\ k' = 0 /\ Fine
                   /\ UNCHANGED <<attempt, method, fd, mapped, count, cur, geometry>>
                \/ n >= 2 /\ FallsBack(held) /\ Fault    \* calloc of priv->buffers
       \/ FallsBack(held) /\ UNCHANGED bufs /\ Fault     \* VIDIOC_REQBUFS
    /\ UNCHANGED <<driver, streaming, frame, pictures, history>>
MapBuffer ==
    /\ pc = "map" /\ k \in Bufs
    /\ \/ /\ mapped' = mapped \cup {k} /\ k' = k + 1 /\ Fine
          /\ UNCHANGED <<pc, attempt, method, held, fd, count, cur, geometry>>
       \/ FallsBack(held \ {"buffers"}) /\ Fault
    /\ DriverSame /\ UNCHANGED <<pictures, history>>
Mapped ==
    /\ Goto("map", "idle") /\ k \notin Bufs
    /\ count' = Cardinality(Bufs)
    /\ Fine /\ DriverSame
    /\ UNCHANGED <<attempt, method, held, fd, mapped, k, cur, geometry, pictures, history>>

\* init_read
ReadBuffer ==
    /\ pc = "readbuf"
    /\ \/ /\ pc' = "idle" /\ held' = held \cup {"buf"} /\ count' = 0 /\ readbuf' = Blank /\ Fine
          /\ UNCHANGED <<attempt, method, fd, mapped, k, cur, geometry, drvVars>>
       \/ InitFails(held \ {"image"}) /\ Fault /\ UNCHANGED readbuf
    /\ UNCHANGED <<driver, image, history>>

Open ==
    \/ OpenCam \/ OpenPriv \/ OpenDevice \/ QueryCap \/ SetFormat \/ AllocImage
    \/ RequestBuffers \/ MapBuffer \/ Mapped \/ ReadBuffer

\* webcam_close unmaps or frees by the method in use
FreedByClose_MmapOnly == {"cam", "priv", "image", "buffers"}
FreedByClose == {"cam", "priv", "image", "buffers"} \cup (IF method = "read" THEN {"buf"} ELSE {})
Close ==
    /\ Goto("idle", "closed")
    /\ mapped' = IF method = "mmap" THEN mapped \ (0..(count - 1)) ELSE mapped
    /\ held' = held \ FreedByClose
    /\ count' = 0 /\ fd' = FALSE
    /\ bufs' = NoBufs /\ streaming' = FALSE
    /\ Fine /\ UNCHANGED <<attempt, method, k, cur, geometry, pictures, driver, frame, history>>

-----------------------------------------------------------------------------
(* webcam_start and webcam_stop *)

Start ==
    /\ pc = "idle"
    /\ method = "mmap" /\ pc' = "queue" /\ k' = 0
    /\ Fine /\ DriverSame
    /\ UNCHANGED <<attempt, method, held, fd, mapped, count, cur, geometry, pictures, history>>

Kept == UNCHANGED <<attempt, method, held, fd, mapped, count, geometry>>
Give(i) == bufs' = [bufs EXCEPT ![i].at = "queued"] /\ UNCHANGED <<streaming, frame>>
StartFails == pc' = "idle" /\ dirty' = TRUE /\ DriverSame /\ UNCHANGED k
NextQueued_Same == k
NextQueued == k + 1
\* VIDIOC_QBUF of each buffer; the driver refuses one it already has
QueueBuffer ==
    /\ pc = "queue" /\ k < count
    /\ \/ k \in At("app") /\ Give(k) /\ k' = NextQueued /\ lost' = lost \ {k}
          /\ Fine /\ UNCHANGED <<pc, driver, dirty>>
       \/ k \notin At("app") /\ StartFails /\ Fine /\ UNCHANGED lost
       \/ StartFails /\ Fault /\ UNCHANGED lost
    /\ Kept /\ UNCHANGED <<cur, pictures, short>>
StreamOn ==
    /\ pc = "queue" /\ k >= count
    /\ \/ pc' = "idle" /\ streaming' = TRUE /\ Fine /\ UNCHANGED <<k, driver, bufs, frame, dirty>>
       \/ StartFails /\ Fault
    /\ Kept /\ UNCHANGED <<cur, pictures, lost, short>>

\* VIDIOC_STREAMOFF takes all buffers back from the driver
Reclaimed == [i \in Bufs |-> [bufs[i] EXCEPT !.at = "app"]]
Stop ==
    /\ pc = "idle" /\ method = "mmap"
    /\ bufs' = Reclaimed /\ streaming' = FALSE
    /\ lost' = {} /\ dirty' = FALSE
    /\ Fine /\ Kept
    /\ UNCHANGED <<pc, k, cur, pictures, driver, frame, short>>
StopFails ==
    /\ pc = "idle" /\ method = "mmap"
    /\ Fault /\ UNCHANGED <<pc, libVars, pictures, driver, drvVars, history>>

-----------------------------------------------------------------------------
(* webcam_wait_frame *)

WaitFrame ==
    /\ Goto("idle", "select")
    /\ Fine /\ DriverSame /\ UNCHANGED <<libVars, pictures, history>>

\* select times out, or fails, ...
SelectReturns ==
    /\ Goto("select", "idle")
    /\ Fine /\ DriverSame /\ UNCHANGED <<libVars, pictures, history>>
\* ... or reports a frame, or an error of the driver: a driver that does not
\* stream, or has no buffer to fill, never makes it wait
Erroneous == ~streaming \/ Bufs = At("app")
SelectReady ==
    /\ \/ method = "read" /\ Goto("select", "read")
       \/ method = "mmap" /\ (At("done") # {} \/ Erroneous) /\ Goto("select", "dequeue")
    /\ Fine /\ DriverSame /\ UNCHANGED <<libVars, pictures, history>>

\* VIDIOC_DQBUF.  A driver without any buffer to fill answers EAGAIN, and the
\* library asks again.
BehindError_Again == "select"
BehindError == "idle"
WaitFails(place) ==
    /\ Goto(place, BehindError) /\ DriverSame /\ UNCHANGED <<libVars, pictures, history>>
PlaceInCopy_GivenBack == "queued"
PlaceInCopy == "app"
TooLong == driver.len > geometry.len
BehindDequeue_Dropped == IF TooLong THEN "idle" ELSE "copy"
BehindDequeue == IF TooLong THEN "refuse" ELSE "copy"
Dequeue ==
    \/ /\ pc = "dequeue" /\ streaming
       /\ \E i \in At("done") :
             /\ bufs' = [bufs EXCEPT ![i].at = PlaceInCopy] /\ cur' = i
       /\ pc' = BehindDequeue
       /\ Fine /\ Kept /\ UNCHANGED <<k, pictures, driver, streaming, frame, history>>
    \/ ~streaming /\ WaitFails("dequeue") /\ Fine
    \/ WaitFails("dequeue") /\ Fault

\* process_image, in two steps
Source == IF method = "mmap" THEN bufs[cur].pic ELSE readbuf
CopyFirst ==
    /\ Goto("copy", "second")
    /\ image' = [image EXCEPT ![1] = Source[1]]
    /\ Fine /\ DriverSame /\ UNCHANGED <<libVars, readbuf, history>>
BehindCopy == IF method = "mmap" THEN "requeue" ELSE "idle"
CopySecond ==
    /\ Goto("second", BehindCopy)
    /\ image' = [image EXCEPT ![2] = Source[2]]
    /\ Fine /\ DriverSame /\ UNCHANGED <<libVars, readbuf, history>>
\* VIDIOC_QBUF behind a frame that was used, or refused; its result is not looked at
Requeue ==
    /\ \/ pc = "requeue"
       \/ pc = "refuse"
    /\ pc' = "idle"
    /\ \/ Give(cur) /\ Fine /\ UNCHANGED lost
       \/ lost' = lost \cup {cur} /\ Fault /\ UNCHANGED drvVars
    /\ UNCHANGED <<driver, libVars, pictures, dirty, short>>

\* v4l2_read: a whole picture, or less, which is used all the same.  Buffers
\* left behind by RequestBuffers keep the device busy.
Read ==
    \/ /\ Goto("read", "copy") /\ Bufs = {} /\ frame < MaxFrames
       /\ frame' = frame + 1
       /\ \/ readbuf' = [h \in 1..2 |-> frame + 1] /\ UNCHANGED short
          \/ readbuf' = [readbuf EXCEPT ![1] = frame + 1] /\ short' = TRUE
       /\ Fine /\ UNCHANGED <<libVars, image, driver, bufs, streaming, lost, dirty>>
    \/ Bufs # {} /\ WaitFails("read") /\ Fine
    \/ WaitFails("read") /\ Fault

Capture ==
    \/ Start \/ QueueBuffer \/ StreamOn \/ Stop \/ StopFails \/ WaitFrame \/ SelectReturns
    \/ SelectReady \/ Dequeue \/ CopyFirst \/ CopySecond \/ Requeue \/ Read

-----------------------------------------------------------------------------
\* The driver fills a buffer it has, in two steps, while it streams.  A frame may
\* end early, which the library would see in bytesused or in the error flag.
DriverOnly == UNCHANGED <<pc, libVars, pictures, driver, streaming, lost, dirty>>
FillFirst(i) ==
    /\ streaming /\ i \in At("queued") /\ At("filling") = {} /\ frame < MaxFrames
    /\ frame' = frame + 1
    /\ bufs' = [bufs EXCEPT ![i] = [at |-> "filling", pic |-> [@.pic EXCEPT ![1] = frame + 1]]]
    /\ DriverOnly /\ Fine /\ UNCHANGED short
FillSecond(i) ==
    /\ streaming /\ i \in At("filling")
    /\ \/ /\ bufs' = [bufs EXCEPT ![i] = [at |-> "done", pic |-> [@.pic EXCEPT ![2] = frame]]]
          /\ Fine /\ UNCHANGED short
       \/ bufs' = [bufs EXCEPT ![i].at = "done"] /\ short' = TRUE /\ Fault
    /\ DriverOnly /\ UNCHANGED frame

Fill == \E i \in Bufs : FillFirst(i) \/ FillSecond(i)
Next == Open \/ Close \/ Capture \/ Fill

\* A call that has begun goes on.  The program need not make one.
InCall == pc \notin {"closed", "idle"}
Spec == Init /\ [][Next]_vars
LiveSpec == Spec /\ WF_vars(InCall /\ (Open \/ Capture))

-----------------------------------------------------------------------------
Places == {"closed", "priv", "device", "caps", "format", "image", "reqbufs", "map", "readbuf",
           "idle", "queue", "select", "dequeue", "copy", "second", "requeue", "refuse", "read"}
Picture == [1..2 -> Nat]
Slot == [at : {"app", "queued", "filling", "done"}, pic : Picture]
Granting(f) == \E n \in Granted \cup {0} : f \in [0..(n - 1) -> Slot]
ResourcesOK ==
    /\ held \subseteq {"cam", "priv", "image", "buffers", "buf"} /\ fd \in BOOLEAN
    /\ mapped \subseteq Nat /\ geometry \in [line : Nat, len : Nat]
    /\ streaming \in BOOLEAN
    /\ lost \subseteq Nat /\ dirty \in BOOLEAN /\ short \in BOOLEAN
TypeOK ==
    /\ pc \in Places /\ attempt \in {1, 2} /\ method \in {"mmap", "read"}
    /\ ResourcesOK
    /\ count \in Nat /\ k \in Nat /\ cur \in Nat
    /\ image \in Picture /\ readbuf \in Picture
    /\ driver \in Drivers
    /\ Granting(bufs)
    /\ frame \in Nat /\ faults \in Nat

\* A camera that is closed, or could not be opened, leaves nothing behind: no
\* memory, no mapping, no open device.
NothingLeft == pc = "closed" => held = {} /\ mapped = {} /\ ~fd

\* The second attempt to open a camera starts as the first one did, but for
\* the method: nothing of the first is allocated, and the driver has no buffers.
SecondAttemptIsFresh ==
    pc = "device" => held = {"cam", "priv"} /\ mapped = {} /\ bufs = NoBufs

\* Every buffer comes back to the driver: between the calls a streaming driver
\* lacks only those whose VIDIOC_QBUF failed.
BuffersComeBack == pc = "idle" /\ streaming => At("app") \subseteq lost

\* The picture handed to the program is of one frame, whatever the driver did
\* meanwhile, unless a read or a buffer came up short, which nobody looks at.
OneFrame == pc = "idle" /\ ~short => image[1] = image[2]

\* process_image stays inside the buffer of a driver whose lines hold three
\* bytes per pixel and whose buffers hold all the lines: the library only sees
\* to two bytes per pixel, and only refuses buffers that are longer.
Extent == (driver.h - 1) * geometry.line + driver.w * 3
Room == IF method = "mmap" THEN driver.len ELSE geometry.len
ReadsInside ==
    pc = "copy" /\ driver.line >= driver.w * 3 /\ driver.len >= driver.line * driver.h
        => Extent <= Room

\* A start finds the driver holding a buffer only when the camera is already
\* started, or an earlier start failed half way and no stop followed.
StartsAgain == pc = "queue" /\ k < count /\ k \notin At("app") => streaming \/ dirty

\* VIDIOC_DQBUF of a driver that streams without a buffer to fill: all were lost.
NoBufferToWaitFor == method = "mmap" /\ pc = "dequeue" /\ streaming /\ Bufs = At("app")
\* v4l2_read behind the last frame of the bound
NoFrameLeft == method = "read" /\ pc = "read" /\ frame = MaxFrames

\* Every call returns, errors of the driver included, but for webcam_wait_frame
\* when the driver has lost all its buffers: VIDIOC_DQBUF then answers EAGAIN and
\* is repeated for ever.
CallsReturn == InCall ~> (~InCall \/ NoBufferToWaitFor \/ NoFrameLeft)

=============================================================================
