------------------------------ MODULE IoBuffer ------------------------------
(***************************************************************************)
(* The buffered I/O of one connection thread: trfb_io_read, trfb_io_write  *)
(* and trfb_io_flush (io.c) under the loops of trfb_connection_read_all,   *)
(* _write_all and _flush (connection.c).  Only the connection's own thread *)
(* uses its trfb_io_t, so one call of trfb_io_read, trfb_io_write or       *)
(* trfb_io_flush is one step, in which select, recv and send may time out, *)
(* fail, or move fewer bytes than asked.                                   *)
(*                                                                         *)
(* A byte is its number in the stream it belongs to: the thread writes the *)
(* bytes 1, 2, 3, ... and the peer sends the bytes 1, 2, 3, ...            *)
(***************************************************************************)
EXTENDS Integers, Sequences

CONSTANTS
    BufSiz,     \* TRFB_BUFSIZ
    Lens,       \* the lengths passed to read_all and write_all
    MaxOut,     \* bound on the bytes the thread writes
    MaxIn,      \* bound on the bytes the peer sends
    Outcomes    \* what a socket call may do besides moving all it can

OutcomeKinds ==
    { "partial",  \* send takes a part of the buffer
      "timeout",  \* select times out
      "error" }   \* the call fails, or the peer has closed the connection

ASSUME IoAssumption ==
    /\ BufSiz \in Nat \ {0}
    /\ Lens \subseteq Nat \ {0}
    /\ MaxOut \in Nat /\ MaxIn \in Nat
    /\ Outcomes \subseteq OutcomeKinds

VARIABLES
    pc,        \* where the connection thread is
    stop,      \* con->state is STOP
    wbuf,      \* io->wbuf
    wlen,      \* io->wlen
    given,     \* history: how many bytes write_all has been called with
    left,      \* those the current call has not yet passed to trfb_io_write
    wire,      \* history: the bytes send has taken
    rbuf,      \* io->rbuf
    rlen,      \* io->rlen
    rpos,      \* io->rpos
    want,      \* what the current read_all still waits for
    sent,      \* how many bytes the peer has sent
    received,  \* how many of them recv has returned
    got,       \* history: the bytes read_all has delivered
    met        \* history: the outcomes that sends have met

outVars == <<wbuf, wlen, given, left, wire, met>>
inVars  == <<rbuf, rlen, rpos, want, received, got>>
vars == <<pc, stop, outVars, inVars, sent>>

\* the first n bytes of a stream, and the bytes of a buffer in from+1..to
Stream(n) == [i \in 1..n |-> i]
Held(buf, from, to) == [i \in 1..to - from |-> buf[from + i]]
Lesser(a, b) == IF a < b THEN a ELSE b

TypeOK ==
    /\ pc \in {"idle", "write", "flush", "read", "ended"}
    /\ stop \in BOOLEAN
    /\ wbuf \in [1..BufSiz -> 0..MaxOut]
    /\ wlen \in 0..BufSiz
    /\ given \in 0..MaxOut
    /\ left \in 0..given
    /\ wire \in Seq(0..MaxOut)
    /\ rbuf \in [1..BufSiz -> 0..MaxIn]
    /\ rlen \in 0..BufSiz
    /\ rpos \in 0..rlen
    /\ want \in Nat
    /\ sent \in 0..MaxIn
    /\ received \in 0..sent
    /\ got \in Seq(0..MaxIn)
    /\ met \subseteq OutcomeKinds

\* trfb_io_socket_wrap zeroes the structure
Init ==
    /\ pc = "idle" /\ stop = FALSE
    /\ wbuf = [i \in 1..BufSiz |-> 0] /\ wlen = 0
    /\ given = 0 /\ left = 0 /\ wire = <<>>
    /\ rbuf = [i \in 1..BufSiz |-> 0] /\ rlen = 0 /\ rpos = 0
    /\ want = 0 /\ sent = 0 /\ received = 0 /\ got = <<>>
    /\ met = {}

-----------------------------------------------------------------------------
(* Writing. *)

\* sock_write called with w bytes: how many it took, 0 for a timeout, -1 for an
\* error
SendResults(w) ==
    {w} \cup (IF "partial" \in Outcomes THEN 1..w - 1 ELSE {})
        \cup (IF "timeout" \in Outcomes THEN {0} ELSE {})
        \cup (IF "error" \in Outcomes THEN {-1} ELSE {})
Met(w, r) ==
    met \cup (CASE r = -1  -> {"error"}
               [] r = 0   -> {"timeout"}
               [] r = w   -> {}
               [] OTHER   -> {"partial"})

\* the buffer after a copy of the next n bytes of the current call behind the
\* len bytes it holds; l of the call's bytes have not been copied before
Filled_Overwrites(buf, len, l, n) ==
    [i \in 1..BufSiz |-> IF i \in 1..n THEN given - l + i ELSE buf[i]]
Filled(buf, len, l, n) ==
    [i \in 1..BufSiz |-> IF i \in len + 1..len + n THEN given - l + (i - len) ELSE buf[i]]

\* trfb_io_flush once send has taken r of len bytes: what remains is moved
\* with memmove(wbuf + r, wbuf, len - r)
Moved(buf, len, r) ==
    IF r \in 1..len - 1
    THEN [i \in 1..BufSiz |-> IF i \in r + 1..len THEN buf[i - r] ELSE buf[i]]
    ELSE buf
Remaining(len, r) == IF r > 0 THEN len - r ELSE len
Wired(buf, r) == wire \o Held(buf, 0, r)

\* trfb_connection_write_all is called
BeginWrite ==
    /\ pc = "idle"
    /\ \E n \in Lens : /\ given + n <= MaxOut
                       /\ given' = given + n /\ left' = n
    /\ pc' = "write"
    /\ UNCHANGED <<stop, wbuf, wlen, wire, met, inVars, sent>>

\* trfb_io_write finds room for everything
WriteFits ==
    /\ pc = "write"
    /\ left <= BufSiz - wlen
    /\ wbuf' = Filled(wbuf, wlen, left, left)
    /\ wlen' = wlen + left
    /\ left' = 0
    /\ pc' = "flush"
    /\ UNCHANGED <<stop, given, wire, met, inVars, sent>>

\* where write_all goes when trfb_io_write has taken some bytes, or none: only
\* then check_stopped is asked
AfterWrite_Deaf(taken, l) == IF l = 0 THEN "flush" ELSE "write"
AfterWrite(taken, l) ==
    IF taken = 0 /\ stop THEN "ended" ELSE IF l = 0 THEN "flush" ELSE "write"

\* It fills the buffer, flushes it once, and fills it again
WriteFlushes(r) ==
    /\ pc = "write" /\ r \in SendResults(BufSiz)
    /\ left > BufSiz - wlen
    /\ LET room == BufSiz - wlen
           full == Filled(wbuf, wlen, left, room)
           rest == left - room
           len  == Remaining(BufSiz, r)
           n    == IF r = -1 THEN 0 ELSE Lesser(BufSiz - len, rest)
       IN  /\ wire' = Wired(full, r)
           /\ wbuf' = Filled(Moved(full, BufSiz, r), len, rest, n)
           /\ wlen' = len + n
           /\ left' = rest - n
           /\ pc' = IF r = -1 THEN "ended" ELSE AfterWrite(room + n, rest - n)
    /\ met' = Met(BufSiz, r)
    /\ UNCHANGED <<stop, given, inVars, sent>>

\* where trfb_connection_flush goes when trfb_io_flush returns: done when that
\* is 0, which a timeout is too; otherwise check_stopped is asked
AfterFlush_OnceOnly(len, r) == IF r = -1 THEN "ended" ELSE "idle"
AfterFlush(len, r) ==
    CASE r = -1              -> "ended"
      [] r = 0 \/ len = 0    -> "idle"
      [] OTHER               -> IF stop THEN "ended" ELSE "flush"

Flush(r) ==
    /\ pc = "flush" /\ r \in SendResults(wlen)
    /\ wire' = Wired(wbuf, r)
    /\ wbuf' = Moved(wbuf, wlen, r)
    /\ wlen' = Remaining(wlen, r)
    /\ pc' = AfterFlush(Remaining(wlen, r), r)
    /\ met' = Met(wlen, r)
    /\ UNCHANGED <<stop, given, left, inVars, sent>>

-----------------------------------------------------------------------------
(* Reading. *)

\* the peer sends something
PeerSends ==
    /\ \E n \in Lens : sent + n <= MaxIn /\ sent' = sent + n
    /\ UNCHANGED <<pc, stop, outVars, inVars>>

BeginRead ==
    /\ pc = "idle"
    /\ \E n \in Lens : Len(got) + n <= MaxIn /\ want' = n
    /\ pc' = "read"
    /\ UNCHANGED <<stop, outVars, rbuf, rlen, rpos, received, got, sent>>

\* memcpy out of a buffer of which the bytes pos+1..len are unread
Taken(pos, len) == Lesser(len - pos, want)
NextPos(pos, len) == IF pos + Taken(pos, len) = len THEN 0 ELSE pos + Taken(pos, len)
Deliver(buf, pos, len) ==
    LET l == Taken(pos, len)
    IN  /\ got' = got \o Held(buf, pos, pos + l)
        /\ want' = want - l
        /\ rpos' = NextPos(pos, len)
        /\ rlen' = IF pos + l = len THEN 0 ELSE len
        /\ pc' = IF want = l THEN "idle" ELSE "read"

\* trfb_io_read is served from the buffer ...
ReadBuffered ==
    /\ pc = "read" /\ rpos < rlen
    /\ Deliver(rbuf, rpos, rlen)
    /\ UNCHANGED <<stop, outVars, rbuf, received, sent>>

\* ... or fills it with what recv returns
Refilled(r) == [i \in 1..BufSiz |-> IF i <= r THEN received + i ELSE rbuf[i]]
NeedsRefill_Early == TRUE
NeedsRefill == rpos >= rlen
ReadRefills ==
    /\ pc = "read" /\ NeedsRefill
    /\ \E r \in 1..Lesser(BufSiz, sent - received) :
         /\ rbuf' = Refilled(r)
         /\ received' = received + r
         /\ Deliver(Refilled(r), 0, r)
    /\ UNCHANGED <<stop, outVars, sent>>

\* nothing arrives for a second: check_stopped
ReadTimeout ==
    /\ pc = "read" /\ NeedsRefill /\ "timeout" \in Outcomes
    /\ stop /\ pc' = "ended"
    /\ UNCHANGED <<stop, outVars, inVars, sent>>

ReadFails ==
    /\ pc = "read" /\ NeedsRefill /\ "error" \in Outcomes
    /\ pc' = "ended"
    /\ UNCHANGED <<stop, outVars, inVars, sent>>

-----------------------------------------------------------------------------
\* stop_all_connections asks the connection to stop
StopAsked ==
    /\ ~stop /\ stop' = TRUE
    /\ UNCHANGED <<pc, outVars, inVars, sent>>

WriteCall(r) == WriteFlushes(r) \/ Flush(r)
ReadCall == ReadBuffered \/ ReadRefills \/ ReadTimeout \/ ReadFails

Next ==
    \/ BeginWrite \/ WriteFits \/ \E r \in -1..BufSiz : WriteCall(r)
    \/ BeginRead \/ ReadCall
    \/ PeerSends \/ StopAsked

Spec == Init /\ [][Next]_vars

(* A call of an I/O function returns, if nothing else happens because its      *)
(* select times out after a second.  Nothing is assumed of the peer, which may *)
(* neither send nor take anything.                                             *)
FairSpec == Spec /\ WF_vars(WriteFits) /\ WF_vars(WriteCall(0)) /\ WF_vars(ReadBuffered)
                 /\ WF_vars(ReadTimeout)

-----------------------------------------------------------------------------
(* Properties. *)

\* The bytes the socket has taken and those in wbuf are, in this order, the
\* bytes written so far: none is lost, repeated or overtaken.
OutStreamIntact == wire \o Held(wbuf, 0, wlen) = Stream(given - left)

\* This holds however the writes, the fills of the buffer, the timeouts and the
\* errors fall, until send takes a part of the buffer for the first time.
OutStreamIntactWhenWhole == "partial" \notin met => OutStreamIntact

\* The count of bytes is right even when their order is not.
OutCountRight == Len(wire) + wlen = given - left

\* The bytes delivered and those still in rbuf are the bytes received.
InStreamIntact == got \o Held(rbuf, rpos, rlen) = Stream(received)

\* When trfb_connection_write_all has returned, no byte remains in the buffer.
WriteAllHandsOver == pc \in {"idle", "read"} => wlen = 0

\* This holds, in however many parts the socket takes the bytes, until a write
\* times out for the first time.
WriteAllHandsOverInTime == "timeout" \notin met => WriteAllHandsOver

\* A thread that is asked to stop does not stay in a write: it ends, or is done
\* with its bytes, though the peer takes none, or one at a time.
StopEndsWrite == stop /\ pc \in {"write", "flush"} ~> pc \in {"idle", "read", "ended"}

=============================================================================
