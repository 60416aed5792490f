# TLA+ models and proofs for trfb

trfb is a small VNC (RFB) server library in C with a webcam demo on top of it.
This directory holds TLA+ models of its concurrent and stateful core, the TLC
configurations that check them on small instances, and proofs, checked by
TLAPS, of what holds for every value of the parameters. `PROJECT.json` lists
components, runs, mutants, the map from definitions to source lines, hazards,
findings and theorems. Paths below are relative to `src/`.

## 1. The system

### 1.1 Components

| Component | Source | State | Operations |
|---|---|---|---|
| Server life cycle | `src/server.c`, `src/trfb.c` | `srv->state`, `srv->sock`, `srv->clients`, the server thread | `trfb_server_create/bind/start/stop/destroy`, the loop of `server()`, `stop_all_connections` |
| Connection threads | `src/connection.c` | `con->state`, the thread, `con->fb`, `con->format` | `trfb_connection_create/free`, `negotiate`, `check_stopped`, six message handlers |
| Event queue | `src/server.c:249-315` | ring `events`, `event_cur`, `event_len`; the texts of clipboard events | `trfb_server_add_event`, `trfb_server_poll_event`, `trfb_event_move`, `trfb_event_clear` |
| Buffered I/O | `src/io.c`, `src/connection.c:264-359` | `rbuf/rpos/rlen`, `wbuf/wlen` | `trfb_io_read/write/flush`, `sock_read/sock_write`, `read_all`, `write_all`, `flush` |
| Frame updates | `src/connection.c:399-499`, `src/server.c:227-247` | `srv->fb` and its lock, `srv->updated`, `con->fb` | `SetPixelFormat`, `UpdateRequest`, `trfb_server_lock_fb/unlock_fb` |
| Framebuffer operations | `src/fb.c` | size, masks, shifts, pixels | create, copy, resize, convert, endian, format |
| Session | `src/protocol.c`, `src/connection.c:74-262`, handlers | `con->version`, the places of both sides in the two streams | handshake, message loop, six handlers and their answers |
| Webcam library | `libwebcam/v4l2.c` | V4L2 buffers, mappings, the image | open with two attempts, close, start, wait, stop |
| Colour conversion | `libwebcam/colorspace.c` | offsets while an image is converted | `webcam_convert_image`, ten formats |
| Application | `rfbcam/rfbcam.c`, `test/trfbtest.c` | | draws frames, polls events |
| Older webcam code | `rfbcam/webcam`, `rfbcam/lwebcam` | | not used by the top-level build |
| Threads, logging | `src/tinycthread.c`, `src/error.c` | | vendored C11 threads; one callback |

### 1.2 How they interact

One **application thread** calls the API. `trfb_server_start` makes one **server
thread**, which makes one **connection thread** per accepted client. They talk
through memory only:

* `srv->state` under `srv->lock`: STOPPED, WORKING, STOP (the request), ERROR.
  start and stop poll it.
* `srv->clients`, a linked list that only the server thread reads and writes.
* `con->state` under `con->lock`: the server writes STOP there, the thread of
  the connection answers STOPPED, or leaves ERROR when it ends by itself.
* the event ring under `srv->lock`: connection threads produce, the application
  consumes. Ownership of clipboard texts travels with the events.
* the framebuffer under its own lock.

A connection blocks only in I/O calls, which poll `check_stopped` when a
`select` of one second times out.

### 1.3 What is hard, and what correctness means

* *Life cycle.* The threads overlap at every start, stop and destroy; a peer can
  leave at any point, `select` and `listen` can fail. Correct: no connection or
  server is freed under a thread; a request to stop is never lost; what the
  drain reports is true; every call returns.
* *Event queue.* Index arithmetic of a ring, shared by many producers, with
  ownership passing through it. Correct: it is a FIFO queue; each text has one
  owner; the oldest text gets delivered.
* *Buffered I/O.* Partial sends, timeouts, errors in any order. Correct: the
  streams are intact; `write_all` hands over all its bytes; a stop gets through.
* *Frame updates.* The application draws and resizes between any two steps of a
  request; a connection converts, swaps bytes in place and counts itself as
  a reader. Correct: a reply is one finished picture at its size, in the format asked for; a
  reader is noticed; nobody keeps the lock.
* *Session.* The messages have no length, what is said depends on the version, the
  client may stop in the middle of anything. Correct: neither side takes one thing for
  another; a message takes effect once and in order; the handshake ends; a stop gets
  through; a request is answered.
* *Webcam.* Opening is a dozen calls that may fail, in two attempts of which one
  continues in the other; buffers wander between library and driver while the driver
  fills them. Correct: a failure leaves nothing behind; every buffer goes back;
  a picture is of one frame and read inside its buffer.
* *Framebuffer, colour.* Masks, shifts, byte orders, row offsets and the sizes of
  ten formats. Correct: the client sees the colour that was drawn, a pixel stays in its
  place, a conversion stays inside the memory it was given.

## 2. The modules

| Module | What it is | Status |
|---|---|---|
| `Server` | application, server thread and connection threads | done |
| `ServerProofs` | inductive invariant, eight safety results and six about stopping and the drain | done |
| `EventFifo` | abstract: a bounded FIFO queue between clients and the application | done |
| `EventQueue` | the ring of `server.c` with the ownership of texts | done |
| `EventQueueProofs` | its invariants, and that it implements `EventFifo` | done |
| `IoBuffer` | both buffers of a `trfb_io_t` under the loops of `connection.c` | done |
| `IoBufferProofs` | its inductive invariant, five results byte by byte and one about stopping | done |
| `FrameUpdate` | the framebuffer, its lock and `updated`, with the requests of the connections and the drawing application | done |
| `FrameUpdateProofs` | its inductive invariant, its types, three safety results and one about its lock | done |
| `Dialogue` | abstract: what a client may rely on | done |
| `Session` | one connection from the first byte to the last, opposite its client | done |
| `SessionProofs` | where thread and client are in the streams, and four results | done |
| `DialogueProofs` | that `Session` implements `Dialogue`, and that the client keeps its step | done |
| `Webcam` | the capture library opposite a V4L2 driver | done |
| `WebcamProofs` | its inductive invariant and seven results | done |
| `PixelFormat` | a pixel on its way from the application to the client | done |
| `Picture` | pictures that are resized | done |
| `ColorSpace` | `webcam_convert_image` and the ten formats | done |
| `ImageProofs` | the inductive invariants of `PixelFormat`, `Picture` and `ColorSpace`, eight results, and that `MCPixels` implements the three | done |
| `MCServer`, `MCEventQueue`, `MCIoBuffer`, `MCFrameUpdate`, `MCSession`, `MCWebcam` | values for TLC | done |
| `MCPixels` | values, and `PixelFormat`, `Picture` and `ColorSpace` side by side | done |

### 2.1 Server

Everything shared is behind a mutex and no critical section calls out, so a
critical section is one action; where the code runs between two of them is a
program location.

| Model | Code |
|---|---|
| `app` | where the application is: `starting` is the polling loop of `trfb_server_start`, `stopping`, `wait`, `join` are the three phases of `trfb_server_stop`, `free` the rest of `trfb_server_destroy` |
| `srvState`, `clients`, `conState` | `srv->state`, `srv->clients` (head first), `con->state` |
| `srvPc` | the server thread: `begin`, `listen`, then the loop `check`, `select`, `push`, `reap`, `reapJoin`; `take`, `mark`, `count`, `join`, `free` are the loops of `stop_all_connections`, `setState` the rest of `EXIT_THREAD` |
| `draining`, `pos`, `work`, `result` | locals: the list taken, the connection a loop looks at, `work`, the argument of `EXIT_THREAD` |
| `fresh` | a connection that `trfb_connection_create` has returned and the server has not linked; its thread runs already |
| `conPc` | a connection thread: before its first write (`begin`), at `check_stopped` (`check`), in an I/O call (`io`), using the server structure (`use`), ended |
| `conMem` | never allocated, live, freed, or leaked because creation failed |

Three places deserve attention. `SrvReapJoin` unlinks as the code does: no
iteration of the reaping loop assigns `prev`, so `srv->clients` becomes
`con->next` and everything in front of `con` is cut off. `ConBegin` writes
WORKING over whatever `con->state` is. `AppRequestStop` writes STOP over whatever
`srv->state` is. The first and the last two are behind the findings in 6.

An I/O call returns, times out or fails; the number of further calls a message
makes is bounded by `MaxIo`. A handler's content is left to other modules.
Threads are created and joined as in C11. The application keeps to the API
from one thread and does not use a destroyed server; `AppDestroy` also stands
for a destroy without a stop before it, which `trfb_server_destroy` provides for.

### 2.2 EventQueue and EventFifo

`events`, `event_cur`, `event_len` are the fields of `trfb_server_t`; `local[c]` is the
handler's variable, `appEvent` the application's. `heap` holds the allocated
texts; `leaked`, a history variable, those nobody refers to any more, of which
the code has two sources: a read interrupted in the middle of a text (its comment
at `src/connection.c:548` says so), and an event refused by a full ring. Events
carry a code or a text, the two cases the ownership tells apart.

`EventFifo` is the promise to the application: accepted events come out once
each and in order. The refinement maps its `queue` to the window of the ring and
its `taken` to `appEvent`.

### 2.3 IoBuffer

Only its own thread uses a `trfb_io_t`, so a call of `trfb_io_read`, `trfb_io_write` or
`trfb_io_flush` is one action. A byte is its number in its stream, so that
`wire \o wbuf = 1, 2, 3, ...` says that nothing was lost, repeated or reordered.
A send takes everything, a part, nothing within the second (timeout), or fails.
`memmove(wbuf + r, wbuf, wlen - r)` is modelled by what it does. The history
variable `met` records which of those outcomes have happened, so that a property
can say until when something holds.

### 2.4 FrameUpdate

`size` and `halves` are `srv->fb`: a picture is drawn, and converted, in two halves, and
each half holds the number of the drawing it shows. Two numbers that differ are a
torn picture. `fb[c]` and `format[c]` are `con->fb` and `con->format`, in which `bpp` counts bits
until `trfb_framebuffer_create_of_format` divides it; `order` is the byte order of the
pixels, which `trfb_framebuffer_endian` changes in place. `holder` is the owner of
`srv->fb->lock`. A critical section that reads or writes in one go is one action
(`UnderLock`); the conversion and the drawing take several, with the lock held. `shown` is a history variable: the sizes and numbers of finished
pictures.

The application has two forms, both in the repository: `test/trfbtest.c` draws in a
loop, `rfbcam/rfbcam.c` asks `trfb_server_updated`, waits for its camera with the lock
held and then takes it again for writing. Neither resizes; `trfb.h` offers
`trfb_framebuffer_resize`, and `trfb_framebuffer_convert` reckons with it. The server's
framebuffer has four bytes per pixel, as both programs create it.

Masks, shifts and the values of pixels are in `PixelFormat` (here only width in bytes and
byte order of a format count), the negotiation, which reads the size without the lock, in
`Session`. A connection whose thread has ended stays ended.

### 2.5 Session and Dialogue

Both directions are byte streams, each a log of what was put in and the position of
its reader. A message is a sequence of parts with lengths (`Parts`), because the
handlers read it in parts: the type, the fixed fields, each encoding, the text. The thread
reads so many bytes at each place (`Bytes`); when that is not the next part, or when it finishes
while parts remain, it is `adrift`: it takes the rest for other messages. The same holds of the
client, whose idea of the version, of the pixel format and of the length of an update
is its own (`ClientSpeaks`, `ClientFormat`).

| Model | Code |
|---|---|
| `OfferVersion` .. `WriteServerInit` | `negotiate`; `Decoded` is `trfb_msg_protocol_version_decode` |
| `ReadSize` | the four unlocked reads of width and height, high byte before low, which two steps of `trfb_framebuffer_resize` (`AppResizes`, `AppResized`) may fall between |
| `ReadType` .. `ReadText`, `UpdateRequest` | `connection()` and its handlers; `Signed` is the `int` the length of a text goes through |
| `Convert`, `WriteHeader`, `WritePayload` | the second half of `UpdateRequest`: the clipping, the two comparisons that ignore a request, the answer |
| `Say` | `write_all` and flush: out at once when the client has room for it, or left in the buffer when the flush times out (`late`), as long as the buffer has room; then the write waits |
| `StopSeen` | `check_stopped` at the head of the loop, and after each second of a read, of a write into a full buffer or of a flush that sent a part (`HeldInWrite`) |
| `ReadFails`, `WriteFails`, `ConvertFails` | the errors of I/O, and of the copy and conversion in `UpdateRequest` |

`Dialogue` is the client's view: messages take effect one at a time and in order, an
event is handed over once, an answer has the format asked for before it. The refinement takes
`handled` and `asked` as they are, the answers from the payloads in `said`, the format from what the
next conversion would use, and `open` from the place of the thread. "The k-th answer" and "the
k-th request for an update" are places in the two logs: the member of a set of places that has
k members up to it (`KthOf`).

### 2.6 Webcam

The library is used by one thread, so its variables have one writer; the driver,
external, fills buffers between any two of its calls. `bufs` says where each granted
buffer is (`app`, `queued`, `filling`, `done`) and of which frame its halves are. Every
call of the driver and every allocation may fail (`Fault`, bounded by `MaxFaults`).

`webcam_open` is the part with surprises: `init_cam` runs with `mmap` first; when the
buffers cannot be had, `init_mmap` returns to a fallback that reads *on the same open
device* (`FallsBack`); when that fails too the device is closed, opened again, and `init_cam` runs a
second time (`InitFails`). What each failure frees is in `held`, `mapped` and `fd`.

`webcam_wait_frame` is `WaitFrame` (the call), `select`, `VIDIOC_DQBUF`, the copy in two steps and
`VIDIOC_QBUF`, or `v4l2_read` and the copy. `lost`, `dirty` and `short` are history variables: a
QBUF that failed, a start that failed and was not followed by a stop, a read that
came up short or a dequeued buffer whose frame ended early (the library looks at neither
`bytesused` nor `flags`). They are the exceptions the properties name. `VIDIOC_REQBUFS` may fail,
or succeed with the allocation behind it failing (`RequestBuffers`). A device is closed with `close`,
not `v4l2_close`: for the kernel that is the end of it, and what `libv4l2` keeps for the file is not modelled.

### 2.7 PixelFormat, Picture, ColorSpace and MCPixels

`PixelFormat` takes one pixel through `trfb_fbN_set_pixel` of the server's format, `trfb_framebuffer_convert`,
the bytes in memory of a host of either byte order, `trfb_framebuffer_endian`, and
into a client that reads it in the order it asked for. `Norm` has the `unsigned char` of
`norm_from_mask`. A number is the set of its bits, so that `&` is an intersection, `|` a union and a shift moves
the members: 0x1f is `0..4`. What an assignment cuts off is an intersection with the bits of the type.
`Picture` resizes a picture whose pixels know where they were drawn.

`ColorSpace` is `webcam_convert_image`: the checks in their order, the size it tells, and
the loop over the lines with both offsets. Each line has one colour, so what is found at an offset
tells which line was read; the arithmetic of each format is an operator, in which shifts and masks
are divisions by the weight of the lowest bit and remainders by the number of levels, and the `|`
of `webcam_color_rgb` is taken byte by byte (`OrByte`). Some of the code's
arithmetic is surprising and modelled as it is: see 6.2.

The three machines share nothing; `MCPixels` puts them side by side so that
one run covers them: in a behaviour one moves, the others stay in a first state.

## 3. The runs

| Run | Instance | Shows |
|---|---|---|
| `server_safety` | 3 connections, 2 starts, 1 extra I/O call, all faults, symmetric; 1.8 million states | four safety and two action properties of the life cycle |
| `server_live` | 2 connections, 2 starts, 1 extra call, client faults; 64 thousand states | a stop seen by a running thread is honoured, the drain ends, calls return |
| `event_queue` | 2 clients, ring of 3, 3 texts; 28 thousand states | FIFO refinement, single ownership, delivery |
| `io_buffer` | buffer of 3, lengths 1 and 4, 6 bytes out, 5 in, all outcomes; 614 thousand states | stream properties of both directions, stop gets through a write |
| `frame_update` | 2 connections, 2 sizes, 2 formats (one unsupported), 2 requests (one ignored), 2 drawings; 1 million states | replies are snapshots in the right format, readers are noticed, the lock is released if the camera answers |
| `session` | versions 5, 7, 8, right and wrong security type, 2 of 11 messages, 1 resize, room for 2 in the socket and 1 in the buffer; 667 thousand states | both sides keep in step, the refinement of `Dialogue`, the announced size, handshake, stop and answers |
| `webcam` | 5 drivers granting 1 to 3 buffers, 3 frames, 2 failures anywhere; 1.2 million states | nothing left behind, buffers, pictures, sizes, calls return unless nothing is left to wait for |
| `pixels` | 3 colours, 3 server and 11 client formats, both byte orders; sizes up to 3 by 3; images of 1 to 3 lines and pixels between 10 formats; 32 thousand states | colours and places are kept, conversion stays inside its memory |
| `find_lost_client` | 2 connections | counterexample, see 6 |
| `find_stop_hangs` | 1 connection | counterexample |
| `find_stop_lost` | 1 connection, no faults | counterexample |
| `find_resend` | partial sends only | counterexample |

### 3.1 What the properties say

* `FreedOnlyAfterExit`: although the reaping loop damages the
  list, what remains of it is sound. Nothing is freed twice or under its thread.
* `ReapJoinsEnding`: the server reads `con->state`, unlocks and joins. That never
  blocks accepting, because no connection on the list has been asked to stop.
* `ServerThreadGone`, `StopRequestSticks`: the handshake on `srv->state` between the
  application and the server thread loses no request. It rests on
  `trfb_server_start` waiting until the thread has written WORKING; with
  a return at once (the mutant) a later STOP is overwritten.
* `FinalStateSticks`: the drain marks connections that are ending at the same time
  and does not disturb them.
* `QuietDrainIsComplete`: as long as no connection has ended by itself, the drain
  reaches all of them (and, proved only, none outlives the server). The hypothesis is as weak as the code allows: the first connection
  that fails lets the reaping loop cut others off (`find_lost_client`).
* `StopHonouredOnceRunning`, `DrainEnds`: with silent peers, too. The hypothesis, that
  the thread is past its first write, is the one `find_stop_lost` shows to be needed.
* `CallsReturn`: no peer stays for ever, and the server thread does not fail
  (the faults of the run leave out `listen` and `select`); without the latter see `find_stop_hangs`.
* `IsFifo`, `TextsHaveOneOwner`, `TextIsDelivered`: the ring.
* `OutStreamIntactWhenWhole`, `WriteAllHandsOverInTime`: until the first partial send
  resp. the first timeout. `InStreamIntact` (and, proved only, `OutCountRight`) holds always,
  `StopEndsWrite` however slowly the peer takes its bytes.
* `RepliesAreSnapshots`: between `trfb_framebuffer_copy`, the conversion and the reply
  the application draws and resizes at will, and `SetPixelFormat` makes a square; still a
  reply is one finished picture. It rests on the lock around the conversion and on the
  comparison of both dimensions in it.
* `FormatIsHonoured`: the swap is done in place on a copy that is used again. It is
  right because the conversion rewrites every pixel in host order each time.
* `ReadersAreNoticed`: a client that has the current picture has been counted, so
  that rfbcam goes on drawing. Writers reset the counter, readers raise it.
* `LockIsReleased`: with the failing conversion and the camera wait inside. Its hypothesis is
  `CameraAnswers`, that the application is not for ever in `webcam_wait_frame`: `rfbcam.c:75`
  calls that with the lock held, and behind `select` the library repeats `VIDIOC_DQBUF` and
  `v4l2_read` on EAGAIN without a deadline (`v4l2.c:93-96,348,360`). A camera that keeps
  the library there keeps the lock, and every connection waits for it.
* `ThreadInStep`: every handler reads exactly its message, in whatever parts it comes
  and whatever follows. The exception is a text of the largest length: `len + 1` is 0
  for `malloc` and nothing of the text is read.
* `KeepsPromise`: the refinement of `Dialogue`. Order and number of effects against
  a message loop that may fail, be stopped or lose its place at any point.
* `ClientInStep`: the client keeps its place in the updates as long as the
  framebuffer has the four bytes ServerInit announces, the requests are for the
  whole screen and nothing is resized. The three exceptions are what the code gives away:
  header and payload of an answer come from different rectangles. The streams are taken as
  reliable here; the resent bytes of `find_resend` are a further way to lose the place.
* `AnnouncesScreen`: with a resize between the unlocked reads the announced size can be one the
  screen never had (3 by 3 where 2 by 1 becomes 1 by 3 and a byte has two values). What holds is that each of its
  four bytes is that of a size the screen had from the first read to the last (`shown`, a history
  variable); when nobody resizes meanwhile, that is the size of the screen.
* `HandshakeEnds`: thread and client never wait for each other, whichever
  version is asked for, except when a flush gave up and left its bytes (see 6.2). Its hypothesis
  is a client that follows the protocol as long as it stays (`SteadyClient`).
* `StopEnds`: no hypothesis about the client, which may fall silent in the middle of a message
  or stop reading: socket and buffer fill up, and the thread waits in a write. It rests on the
  `check_stopped` in reads, writes and flushes; without those of the writes (the mutant) it fails.
* `RequestsAnswered`: a request for the whole screen is answered though others are ignored, for a
  `SteadyClient`. It covers requests at the origin: in front of others the code's
  comparison of corner and extent may ignore a request that lies on the screen (see 6.2).
* `NothingLeft`, `SecondAttemptIsFresh`: what the failures of `webcam_open` free, in
  either attempt and in the fallback between them.
* `BuffersComeBack`, `StartsAgain`, `OneFrame`: who has which buffer when. `OneFrame`
  rests on the buffer being the library's while it is copied; a short read or a buffer
  that ends early breaks it, which `short` says.
* `CallsReturn` of `Webcam`: `REINTR` repeats a call that would block. In exactly two places that
  can keep the caller inside: `VIDIOC_DQBUF` of a streaming camera whose driver has none of the
  buffers any more (`NoBufferToWaitFor`), and `v4l2_read` of one that has no further
  frame (`NoFrameLeft`, at the bound on frames). Every other call returns, from open to close.
* `ReadsInside`: relates the sizes a driver reports to the three bytes per pixel that
  are read. The hypothesis, that lines hold three bytes per pixel and the buffer all lines,
  is what the library does not check.
* `ClientSeesColour`: for formats of whole bits side by side, at most eight per colour
  (`Sound`), the client sees the drawn colour but for the low bits; the format list has
  others, for which the library has no answer.
* `PixelsKeepPlace`: over any sequence of resizes, against a definition by the
  smallest size on the way.
* `StaysInside`, `LinesKeepColour`, `ToldSizeIsEnough`: the loop over the lines stays in
  source, line buffer and target and fills exactly the size told, except where yuv422 is
  involved (`Regular`); each line arrives with its colour; a caller who uses the size it
  was told is not refused.

### 3.2 Bounds

Three connections are the least that have a head, a middle and a tail of the
list at once: the reaping loop can cut in front of, at and behind each of them,
and a fresh one can exist next to linked ones. A second start exercises a server
that restarts on the state the first one left. A ring of three wraps with one,
two and three events waiting; two clients compete for its last slot. A write of
four bytes into a buffer of three needs a flush in the middle; followed
by writes of one it meets the buffer at every fill. Reads are served from one
fill, from several, and end exactly at the end of a fill.

The two sizes of `frame_update` have different widths and heights and neither is the
square of `SetPixelFormat`, so that each comparison matters; two drawings are the
least with a reader behind, at and ahead of the current one. `MaxUpdated` stops
the model where 2^32 reads without a drawing would wrap `srv->updated`.

The session's versions are one the library calls 3, one with a list and one with a
result; its eleven messages have every handler, each way to be refused, a text of
negative and of the largest length (`TopLength` is 3, so two bits stand for 32), and
requests that are whole, ignored, and clipped. Two answers nobody reads fill a socket of two
words and a buffer of one (`SocketRoom`, `BufferRoom`), so that a write is held. Sizes have a high and a low byte with `ByteBase` 2.
Two messages are the least in which one can be taken for a part of another, or a
format changes between two requests. The five drivers of `webcam` lack in turn streaming,
reading and each size, and have buffers longer and shorter than a picture; two failures reach
the second attempt's failure and a failing stop behind a failing start. Three lines
tell an offset that is off by one from one that grows.

`server_safety` does not check deadlock because the code has one: the hang
of `find_stop_hangs`. `server_live`, whose server thread never fails, checks it.
The runs of the other modules end when their bounds on bytes or drawings are used up or when
the threads have ended, and `pixels` when a conversion is over; the violation runs stop where the faulty state stops.

### 3.3 Fairness

Every thread that can step does (the kernel schedules it); a call of the
application proceeds; `select` returns by its timeout at the latest. The last point is
`WF` on the *timeout* outcome: fairness on a successful outcome would force the peer
to cooperate. In particular `FairSpec` of `Server` has no fairness on
`ConIoReturns`, `ConFails` or on new calls by the application, and that
of `IoBuffer` has it on the timeout of a write (`WriteCall(0)`). `PeersLeave`, strong
fairness of `ConFails`, is not part of any specification: it is the hypothesis
of `CallsReturn`. Mutexes are held over a few assignments, so weak fairness
of the critical sections is enough. `EventQueue` assumes that the application goes on
polling, as `test/trfbtest.c` does, and nothing of the clients. `FrameUpdate` has fairness
only on the steps taken with the lock held that compute, and none on `webcam_wait_frame`: that it
ends is the hypothesis of `LockIsReleased`. `Session` has it on the connection thread and on the
second half of a resize, which only compute or time out, and nothing on the client:
that the client follows the protocol, and does not fall silent, is the hypothesis `SteadyClient` of
`HandshakeEnds` and `RequestsAnswered`, and no hypothesis of `StopEnds`. The client may
leave at any time. `Webcam` has it on a call that has begun, not on new calls,
and not on the driver: `select` gives up after its timeout.

## 4. The proofs

All parameters are arbitrary: any set of connections, any bounds, any faults, any
ring length and sets of clients, codes, texts, sizes, formats and requests, any buffer size, any drivers and numbers
of buffers, any messages, pictures and images. Assumptions are the named `ASSUME`s `ConstantsAssumption`, `QueueAssumption`,
`FrameAssumption`, `IoAssumption`, `WebcamAssumption`, `SessionAssumption`, `PictureAssumption`,
`ImageAssumption` and `PixelAssumption`, which TLC evaluates.

**Server.** `FreedOnlyAfterExit` and the others are not inductive alone: that the
reaping loop joins an ending thread depends on STOP occurring on drained
connections only (`StopsAreDrained`), on location, memory and state of a connection
agreeing (`ConAgrees`), and on which list is empty where (`ListsAgree`); that frees
follow joins depends on how far the joins are (`JoinProgress`); the application's
properties on `CallsAgree`. `IInv` is their conjunction; one lemma per conjunct
shows that each action keeps it, `StepIInv` puts them together and `Invariance`
is `Spec => []IInv`. The safety theorems and both action properties follow.

**The drain.** `QuietInv` is inductive relative to `IInv`. A linked connection is
never STOPPED (`LinkedNotStopped`: only a request to stop leads there, and that
is made in the drain only), hence one that has ended is in ERROR, and ERROR is
never overwritten (`FailureSticks`). So while none has failed the reaping
loop unlinks nothing (`QuietReaps`) and whatever runs is reachable
(`RunningStep`). Behind the drain nothing is reachable, so nothing runs
(`QuietDrained`); `QuietDrain` and `QuietDestroy` are the results.

What the drain waits for is `DrainInv`, inductive relative to `IInv` too: what the marking loop has passed is
either asked or past its first write of `con->state` (`DrainAsked`), and the counting loop ends when it
has walked the whole list without meeting STOP (`DrainAnswered`). So `thrd_join` meets a
thread that has ended, or one that is WORKING because it overwrote the request
(`JoinWaitsForNoAnswer`): what `find_stop_lost` shows is the only
way to keep the joins of a drain waiting.

**What is proved of liveness.** That something must happen is left to TLC, but what it rests on
is proved as action properties, in which the thread's own steps make something
smaller and nobody else's make it larger: a thread asked to stop has the steps of one message
left (`StopEndsMessage`, for `StopHonouredOnceRunning`), a drain passes its stages in order while what it waits
for never grows (`DrainNeverGrows`, for `DrainEnds`), the holder of the framebuffer's lock is at most two steps
from its unlock, the camera wait counted as one (`LockReleaseNears`, for `LockIsReleased`), and a write asked to stop makes at most one
call for each byte not yet buffered and a last one (`StopEndsWriteInTime`, for `StopEndsWrite`). What remains
for TLC is that the step is enabled and taken.

**EventQueue.** The queue invariant ties ring, window and owners together; the
arithmetic modulo `QueueLen` is in lemmas about slots of the window. `RingIsFifo`
maps each step to a step of `EventFifo` or a stutter: an accepted event is an
`Append`, a poll takes the `Head` and leaves the `Tail`, although both are indices
modulo the length of the ring.

**FrameUpdate.** `FInv` says who holds the lock where (`LockAgrees`), when the picture of
the server is whole (`PictureAgrees`), and for each connection how far its copy is
(`ConvertAgrees`), which format it has (`FormatAgrees`) and whether it has been counted
(`ReadsAgree`). A connection that converts excludes the writer, so both halves come
from the picture that was whole when the lock was taken; behind the unlock the
copy depends on nothing shared but `shown`, which only grows. The lemmas named
`...Makes` say what one action does to `con->fb`, `Apart` that it touches no other connection;
`FrameInvariance` is `Spec => []FInv`, and the three properties follow from it.

**IoBuffer.** That the concatenation of wire and buffer is the stream is not inductive
in that form: a refill moves bytes by index. `IoInv` says the same byte by byte (`OutBytes`,
`InBytes`), with the counts (`Counted`) and what the loops have left (`Loops`). `FilledBytes`,
`MovedBytes` and `WiredBytes` say what a copy into the buffer, the `memmove` and a
send do to single bytes; `DeliverKeeps` is the `memcpy` out of the read buffer, shared by both
ways a read is served. `BuffersAreSound` is `Spec => []IoInv`; `OutBytesAreStream` and
`InBytesAreStream` lead back to the streams. The arithmetic of `trfb_io_write` (fill, flush
once, fill again) is proved for every buffer size and length.

**Webcam.** `WInv` says what is allocated, open and mapped at each place (`Memory`, `Mappings`),
who has which buffer (`Accounted`: the heart of it, with the exceptions `lost` and `dirty`),
of which frame the halves of the driver's buffers are (`Filled`) and of the library's
pictures (`Copied`), and that the geometry is the raised one (`Measured`). One lemma per part and
action group; `CaptureIsSound` is `Spec => []WInv`. `ReadsInside` needs products of
widths, heights and line lengths: a separate lemma about them.

**Session.** `ThreadInStep` says nothing of where the thread should be; `SInv` does: which
messages the stream of the client begins with, by the version it asked for (`HandshakeFirst`), where
that leaves the client (`ClientAt`) and the thread (`ThreadAt`), and inside a request which one it
is and how many of its parts are read (`MessageAt`; for a list of encodings that is a count
running down against one running up). So the next part is always the one a place wants
(`BodyExpected`, `ExpectedReads`), and the last one ends its message. The `int` of a text is
the exception (`SignedLength`): of the lengths it makes negative only the largest passes
`malloc`, and `Astray` blames that one. `AnnouncesScreen` has an invariant of its own, relative to `SInv`: what the reads have got so far is
made of bytes of sizes in `shown` (`SizeRead`), which only grows once the first byte has been read
and is left alone behind the last (`ShownStays`, `AppShows`), and nothing is announced before. The arithmetic is that
a high and a low byte of two numbers, added, are found again (`SizeAdds`).

**Dialogue.** `ThreadKeepsPromise` is the refinement. `DInv` adds to `SInv` that the rectangle
being answered is the one of the message being handled, or that one clipped (`RequestKept`), and that each
answer has its number (`AnswersRanked`). `NextServes` maps every step of `Session` to a step of
`Dialogue` or a stutter: a payload is the only step that adds an answer, a message takes effect
(`Served`) in the step that reads its last part or ends its answer, and a thread that ends or is lost closes.

`ClientKeepsStep` relates the two streams. `CInv` adds which word stands where in what the thread
says, and how many words it has said at each of its places (`SaidAt`, `LengthAt`); how many the client has heard
at each of its own (`HeardAt`); and, as long as the hypotheses of `ClientInStep` hold, that each answer
is of the whole screen and in the format of the request that has its number (`AnswersAgree`).
Both theorems speak of the k-th member of a set of places. `RanksOf`, `RanksKept` and `RankIsUnique` say how such
numbers behave when a place is added behind the others. `LargestPlace` is an
induction, done over the least counterexample (`WFMin` of `WellFoundedInduction` for the naturals),
which needs no operator as a parameter.

**PixelFormat.** `PixelInv` says of each stage which pixel it has: the drawn one, the one sent, and that one as
bytes (`Wire`). Two facts carry the theorem. Components that lie side by side are found again where they
were put (`PartsFound`; it serves the `trfb_color_t` of `TRFB_RGB` as well as every `Sound` format), so reading a
pixel gives what was put in but for the low bits (`PixelHolds`). And the bytes that the client puts together
are the pixel, in all four combinations of byte orders (`WireBytes`, `BytesJoin`). The formats of
`trfb_framebuffer_create` are `Sound` (`CreatedSound`), those of clients are a hypothesis of
`ClientSeesColour`. `PixelTyped` has no such hypothesis: it holds of formats the library cannot serve too.

**Picture and ColorSpace.** A pixel of a resized picture is found again because a place
`y * w + x` gives back `x` and `y` (`PlaceInRow`); `PictureInv` bounds the least size of the history by
the present one, for the case that a size cuts off and a later one gives back. For a conversion
`Reach` says how far the loop has come as a multiple of the line, `Checked` what the checks in front of
it established; `RegularLine` is where the readers and writers of the formats and what they return
agree, and needs the exceptions of `Regular`. `LinesKeepColour` rests on `PackedRoundTrip`: what each of
the five packed formats makes of three bytes, and what reading that gives, for all colours
(`FieldsRoundTrip`, by the places of each format), and on `ColourOfBytes`, that the `|` of three bytes
in their places is a sum.

**MCPixels.** `SideBySide`: a step of the composition is a step of one machine and a stutter of the others, and all of
them are in a first state of theirs at first. So whatever is proved of one holds in the composition; `EachTyped` is the type
invariant of the run.

## 5. Only model-checked

Liveness and anything under fairness (`StopHonouredOnceRunning`, `DrainEnds`,
`CallsReturn` of both modules, `TextIsDelivered`, `StopEndsWrite`, `LockIsReleased`, `HandshakeEnds`,
`StopEnds`, `RequestsAnswered`) is out of the prover's reach; section 4 says what of it is proved
as action properties. Every invariant and every action property of the
passing runs, and both refinements, are theorems. Of the conversions the properties name the
packed formats as source; what the formulas of yuv make of a colour is only computed.

## 6. Findings

### 6.1 With a counterexample

| Run | Where | What |
|---|---|---|
| `find_lost_client` | `src/server.c:141` | When an older connection ends, those linked after it leave `srv->clients` running: never stopped, never freed, and they go on using the server after `trfb_server_destroy`. |
| `find_stop_hangs` | `src/server.c:165` | `trfb_server_stop` on a server whose thread has ended in ERROR never returns. |
| `find_stop_lost` | `src/connection.c:227` | A STOP written before the connection thread's first statement is overwritten; the drain then waits for the peer to leave. |
| `find_resend` | `src/io.c:271` | After a partial send the arguments of `memmove` are swapped: sent bytes are sent again, unsent ones dropped. |

Each run ends in a counterexample of the property named in `PROJECT.json`.

### 6.2 Noted while modelling

The models do what the code does in these places, and no run is about them alone.

* `src/connection.c:472`: only the corner of a requested rectangle is compared with the
  clipped size. One that ends beyond the screen is answered, and a small one far from
  the origin is ignored (`Ignored`; the reason for the hypothesis of `RequestsAnswered`).
* `src/connection.c:488`: the header of an answer is the clipped request, the payload is the
  whole framebuffer; ServerInit announces 32 bits whatever the framebuffer has (`ClientInStep`).
* `src/connection.c:133-136`: the size in ServerInit is read without the lock and can be put
  together of two sizes (`AnnouncesScreen`).
* `src/io.c:267`: a flush that times out returns 0, "nothing remains" (`late`,
  `WriteAllHandsOverInTime`).
* `src/connection.c:541-549`: the length of a text goes through an `int`; a byte is
  allocated for a terminating zero that nobody writes.
* `libwebcam/v4l2.c:316`: a delay of 0, documented as waiting for ever, polls.
* `libwebcam/v4l2.c:530`: the line is raised to two bytes per pixel while three are read
  (`ReadsInside`).
* `libwebcam/v4l2.c:128,185,197`: devices opened with `v4l2_open` are closed with `close`.
* `libwebcam/v4l2.c:388-436`: a control is scaled with two divisions that both round down,
  so what is read back may be one less than what was set.
* `libwebcam/colorspace.c:176`: `rgb24_t` and `bgr24_t` join three bytes with `||`, so every colour but
  black becomes 1.
* `libwebcam/colorspace.c:545-561`: the writer of yuv422 puts U where Y goes, runs past its line
  and returns twice its bytes; the reader goes in pairs, past the end of an odd line (`Regular`).
* `libwebcam/colorspace.c:405-413`: the comment has 128 as offset of U and V, the code adds
  16384 / 256 = 64.
* `libwebcam/colorspace.c`: reading rgb565 loses a bit of green (`Taken`); the two branches for
  a caller without a buffer compare a pointer with `WEBCAM_RGB32`, which is 0.

## 7. Not modelled, and the plan

Not modelled by choice: logging, host names, the vendored thread library (taken as
locks and threads), `libv4l2.c` (it only forwards), the older webcam copies, functions
without a caller (`trfb_io_fgetc`, `trfb_io_fputc`, `trfb_send_all`, `trfb_recv_all`,
`trfb_framebuffer_create_with_data`), `webcam_list` and `webcam_name` (they only ask), the
camera's controls (they keep no state in the library), products of sizes that exceed
32 bits, and 2^32 reads without a drawing.

Left, in this order:

1. `Server` with `EventQueue`: what becomes of texts that wait in the ring of a server that is
   destroyed.
2. `FrameUpdate` with `Webcam`: the library in place of `CameraAnswers`, so that the
   hypothesis of `LockIsReleased` becomes one about the driver.
